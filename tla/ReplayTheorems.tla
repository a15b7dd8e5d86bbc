--------------------------- MODULE ReplayTheorems ---------------------------
(***************************************************************************)
(* TopicReplay for topics of any length and content: the loop computes the *)
(* replay of what it has read, and nothing but an empty answer of a broker  *)
(* that has records stops it before the watermark.                         *)
(***************************************************************************)
EXTENDS TopicReplay, TopicTheorems

\* The inductive invariant.  Besides the loop invariant it says that the loop
\* has read everything from earliest on, and that when it stops there is no
\* record left below the watermark, unless an empty answer kept it back.
ReplayInv ==
  /\ TypeOK
  /\ pc \in {"fetch", "apply", "done"} =>
       /\ earliest <= next_offset
       /\ \A k \in Keys : HasLast(log, earliest, next_offset - 1, k)
  /\ ReadPrefix
  /\ pc = "done" => \/ hidden
                    \/ \A i \in next_offset .. high_watermark - 1 : log[i] = Hole

\* A load begins with nothing read.
LEMMA ReplayInit == Init => ReplayInv
<1> SUFFICES ASSUME Init PROVE ReplayInv
  OBVIOUS
<1>1. log \in Seq(Slot)
  BY ReplayAssumption DEF Init, Slot
<1>2. Len(log) \in Nat
  BY <1>1
<1>3. cache \in [Keys -> Values \cup {None}]
  BY DEF Init, EmptyCache
<1>4. hidden \in BOOLEAN
  BY DEF Init
<1>5. pc = "latest"
  BY DEF Init
<1>6. TypeOK
  BY <1>1, <1>2, <1>3, <1>4, <1>5 DEF Init, TypeOK
<1> QED
  BY <1>5, <1>6 DEF ReplayInv, ReadPrefix

\* A step that reads nothing and leaves the locals of the loop as they are.
LEMMA ReplayIdle ==
  ASSUME ReplayInv, TypeOK',
         UNCHANGED <<high_watermark, earliest, next_offset, cache>>,
         \A i \in 1 .. Len(log) : log'[i] = log[i],
         pc' \in {"fetch", "apply", "done"} => pc \in {"fetch", "apply", "done"},
         pc' = "done" => \/ pc = "done" /\ hidden' = hidden
                         \/ hidden'
                         \/ \A i \in next_offset .. high_watermark - 1 : log[i] = Hole
  PROVE  ReplayInv'
<1> USE DEF ReplayInv
<1>1. CASE pc' \in {"fetch", "apply", "done"}
  <2>1. /\ earliest \in Nat /\ next_offset \in Nat /\ next_offset - 1 \in Nat /\ high_watermark \in Nat
        /\ next_offset - 1 <= Len(log) /\ high_watermark - 1 <= Len(log)
        /\ 1 <= earliest /\ 1 <= next_offset /\ Len(log) \in Nat
    BY DEF TypeOK
  <2>2. ASSUME NEW k \in Keys
        PROVE  /\ HasLast(log', earliest, next_offset - 1, k)
               /\ LastIn(log', earliest, next_offset - 1, k) =
                    LastIn(log, earliest, next_offset - 1, k)
    <3>1. \A i \in earliest .. next_offset - 1 : log'[i] = log[i]
      BY <2>1
    <3>2. SameRecords(log, next_offset - 1, log', next_offset - 1, earliest, k)
      BY <3>1 DEF SameRecords, OffsetsOf
    <3>3. HasLast(log, earliest, next_offset - 1, k)
      BY <1>1
    <3> QED
      BY <3>2, <3>3, LastInSame, SMTT(30)
  <2>3. \A i \in next_offset .. high_watermark - 1 : i \in 1 .. Len(log)
    BY <2>1
  <2> QED
    BY <1>1, <2>2, <2>3 DEF ReadPrefix
<1>2. CASE pc' \notin {"fetch", "apply", "done"}
  BY <1>2 DEF ReadPrefix
<1> QED
  BY <1>1, <1>2

\* The step that applies one record of a batch.
LEMMA ReplayApply == ReplayInv /\ ApplyNext => ReplayInv'
<1> SUFFICES ASSUME ReplayInv, ApplyNext PROVE ReplayInv'
  OBVIOUS
<1> DEFINE lo == earliest
           hi == next_offset - 1
<1>1. /\ log' = log /\ log_start' = log_start /\ high_watermark' = high_watermark
      /\ earliest' = earliest /\ batch_end' = batch_end /\ pc = "apply" /\ pc' = "apply"
      /\ hidden' = hidden
      /\ next_offset' = next_offset + 1 /\ next_offset <= batch_end
      /\ cache' = IF log[next_offset] \in Record THEN ApplyRecord(cache, log[next_offset])
                  ELSE cache
  BY DEF ApplyNext, broker
<1>2. /\ lo \in Nat /\ hi \in Nat /\ lo <= hi + 1 /\ hi + 1 = next_offset
      /\ next_offset \in 1 .. Len(log) /\ Len(log) \in Nat
      /\ cache \in [Keys -> Values \cup {None}]
  BY <1>1 DEF ReplayInv, TypeOK
<1>3. cache' \in [Keys -> Values \cup {None}]
  BY <1>1, <1>2 DEF ApplyRecord, Record
<1>4. TypeOK'
  BY <1>1, <1>2, <1>3 DEF ReplayInv, TypeOK
<1>5. ASSUME NEW k \in Keys
      PROVE  HasLast(log, lo, hi + 1, k) /\ cache'[k] = LastIn(log, lo, hi + 1, k)
  <2>1. HasLast(log, lo, hi, k) /\ cache[k] = LastIn(log, lo, hi, k)
    BY <1>1 DEF ReplayInv, ReadPrefix
  <2>2. CASE log[hi + 1] \in Record /\ log[hi + 1].key = k
    <3>1. cache'[k] = log[hi + 1].value
      BY <1>1, <1>2, <2>2 DEF ApplyRecord
    <3> QED
      BY <1>2, <2>2, <3>1, LastInHit, ZenonT(30)
  <2>3. CASE ~(log[hi + 1] \in Record /\ log[hi + 1].key = k)
    <3>1. cache'[k] = cache[k]
      BY <1>1, <1>2, <2>3 DEF ApplyRecord
    <3>2. HasLast(log, lo, hi + 1, k) /\ LastIn(log, lo, hi + 1, k) = LastIn(log, lo, hi, k)
      BY <1>2, <2>1, <2>3, LastInMiss, ZenonT(30)
    <3> QED
      BY <2>1, <3>1, <3>2
  <2> QED
    BY <2>2, <2>3
<1>6. next_offset' - 1 = hi + 1
  BY <1>1, <1>2
<1> QED
  BY <1>1, <1>2, <1>4, <1>5, <1>6 DEF ReplayInv, ReadPrefix

\* Every step of Next, and every step that leaves the variables alone.
LEMMA ReplayStep == ReplayInv /\ [Next]_vars => ReplayInv'
<1> SUFFICES ASSUME ReplayInv, [Next]_vars PROVE ReplayInv'
  OBVIOUS
<1>0. TypeOK /\ Len(log) \in Nat
  BY DEF ReplayInv, TypeOK
<1>1. CASE GetLatest
  BY <1>0, <1>1 DEF GetLatest, broker, ReplayInv, TypeOK, ReadPrefix
<1>2. CASE GetEarliest
  <2>1. /\ log' = log /\ log_start' = log_start /\ high_watermark' = high_watermark
        /\ batch_end' = batch_end /\ pc' = "fetch" /\ cache' = EmptyCache
        /\ earliest' = log_start /\ next_offset' = log_start /\ hidden' = hidden
    BY <1>2 DEF GetEarliest, broker
  <2>2. log_start \in Nat /\ log_start - 1 \in Nat /\ log_start - 1 < log_start
    BY <1>0 DEF TypeOK
  <2>3. TypeOK'
    BY <1>0, <2>1 DEF TypeOK, EmptyCache
  <2>4. \A k \in Keys : /\ HasLast(log, log_start, log_start - 1, k)
                        /\ LastIn(log, log_start, log_start - 1, k) = None
    BY <2>2, LastInEmpty
  <2> QED
    BY <2>1, <2>2, <2>3, <2>4 DEF ReplayInv, ReadPrefix, EmptyCache
<1>3. CASE Fetch \/ BatchDone
  <2>1. TypeOK'
    BY <1>0, <1>3 DEF Fetch, BatchDone, broker, TypeOK
  <2> QED
    BY <1>3, <2>1, ReplayIdle DEF Fetch, BatchDone, broker
<1>4. CASE FetchEmpty \/ LoadDone
  <2>1. TypeOK'
    BY <1>0, <1>4 DEF FetchEmpty, LoadDone, broker, TypeOK
  <2>2. hidden' \/ \A i \in next_offset .. high_watermark - 1 : log[i] = Hole
    <3>1. CASE FetchEmpty
      BY <3>1, Zenon DEF FetchEmpty
    <3>2. CASE LoadDone
      BY <1>0, <3>2 DEF LoadDone, TypeOK
    <3> QED
      BY <1>4, <3>1, <3>2
  <2> QED
    BY <1>4, <2>1, <2>2, ReplayIdle DEF FetchEmpty, LoadDone, broker
<1>5. CASE RequestFails \/ OutOfRange
  <2>1. /\ log' = log /\ log_start' = log_start /\ high_watermark' = high_watermark
        /\ earliest' = earliest /\ next_offset' = next_offset /\ batch_end' = batch_end
        /\ pc' = "failed" /\ cache' = EmptyCache /\ hidden' = hidden
    BY <1>5 DEF RequestFails, OutOfRange, Fail, broker
  <2>2. TypeOK'
    BY <1>0, <2>1 DEF TypeOK, EmptyCache
  <2> QED
    BY <2>1, <2>2 DEF ReplayInv, ReadPrefix
<1>6. CASE Retry
  BY <1>0, <1>6 DEF Retry, broker, ReplayInv, TypeOK, ReadPrefix
<1>7. CASE BrokerAppend
  <2>1. PICK r \in Record : log' = Append(log, r)
    BY <1>7 DEF BrokerAppend
  <2>2. /\ log \in Seq(Slot) /\ r \in Slot
    BY <1>0, <2>1 DEF TypeOK, Slot
  <2>3. /\ log' \in Seq(Slot) /\ Len(log') = Len(log) + 1
        /\ \A i \in 1 .. Len(log) : log'[i] = log[i]
    BY <2>1, <2>2
  <2>4. TypeOK'
    BY <1>0, <1>7, <2>3 DEF BrokerAppend, TypeOK
  <2> QED
    BY <1>7, <2>3, <2>4, ReplayIdle DEF BrokerAppend
<1>8. CASE Retention
  <2>1. TypeOK'
    BY <1>0, <1>8 DEF Retention, TypeOK
  <2> QED
    BY <1>8, <2>1, ReplayIdle DEF Retention
<1>9. CASE UNCHANGED vars
  <2>1. TypeOK'
    BY <1>0, <1>9 DEF vars, TypeOK
  <2> QED
    BY <1>9, <2>1, ReplayIdle DEF vars
<1> QED
  BY <1>1, <1>2, <1>3, <1>4, <1>5, <1>6, <1>7, <1>8, <1>9, ReplayApply DEF Next, Load

LEMMA ReplayInvariant == Spec => []ReplayInv
  BY ReplayInit, ReplayStep, PTL DEF Spec

\* The locals of the load keep their types.
THEOREM ReplayTypeOK == Spec => []TypeOK
  BY ReplayInvariant, PTL DEF ReplayInv

\* The map is the replay of exactly the offsets read so far: entries inserted,
\* tombstones removed, records without a key and missing offsets skipped.
THEOREM ReplayReadsPrefix == Spec => []ReadPrefix
  BY ReplayInvariant, PTL DEF ReplayInv

\* A load that returns has applied every record below the watermark it asked
\* for, whatever was appended or dropped while it ran, unless the broker gave an
\* empty answer where it had a record.
THEOREM ReplayMissesOnlyHidden == Spec => []LoadMissesOnlyHidden
<1>1. ReplayInv => LoadMissesOnlyHidden
  <2> SUFFICES ASSUME ReplayInv, pc = "done", ~hidden PROVE LoadReachesWatermark
    BY DEF LoadMissesOnlyHidden, LoadReachesWatermark
  <2>1. /\ earliest \in Nat /\ next_offset \in 1 .. Len(log) + 1 /\ Len(log) \in Nat
        /\ high_watermark \in 1 .. Len(log) + 1 /\ earliest <= next_offset
    BY DEF ReplayInv, TypeOK
  <2>2. \A k \in Keys : /\ cache[k] = LastIn(log, earliest, next_offset - 1, k)
                        /\ HasLast(log, earliest, next_offset - 1, k)
    BY DEF ReplayInv, ReadPrefix
  <2>3. CASE next_offset >= high_watermark
    BY <2>1, <2>2, <2>3 DEF LoadReachesWatermark
  <2>4. CASE next_offset < high_watermark
    <3>1. ASSUME NEW k \in Keys
          PROVE  LastIn(log, earliest, high_watermark - 1, k) =
                   LastIn(log, earliest, next_offset - 1, k)
      <4>1. SameRecords(log, next_offset - 1, log, high_watermark - 1, earliest, k)
        BY <2>1, <2>4, ReplayAssumption DEF SameRecords, OffsetsOf, ReplayInv
      <4> QED
        BY <2>2, <4>1, LastInSame, SMTT(30)
    <3>2. high_watermark - 1 \in high_watermark - 1 .. Len(log)
      BY <2>1
    <3> QED
      BY <2>2, <3>1, <3>2 DEF LoadReachesWatermark
  <2> QED
    BY <2>1, <2>3, <2>4
<1> QED
  BY <1>1, ReplayInvariant, PTL
=============================================================================
