--------------------------- MODULE ServiceTheorems ---------------------------
(***************************************************************************)
(* KvService for any set of keys, any finite set of handlers and any       *)
(* bounds: the counters cover the writes, an answer of get_stats is made   *)
(* of numbers that were true during the call, and puts that meet no other  *)
(* mutation keep the times of their entry, across a failover too.          *)
(***************************************************************************)
EXTENDS KvService, FiniteSetTheorems, TLAPS

Handle(h) ==
  \/ \E k \in Keys : PutBegin(h, k) \/ DeleteBegin(h, k)
  \/ PutGet(h) \/ PutPut(h) \/ PutCount(h)
  \/ DeleteGet(h) \/ DeleteDelete(h) \/ DeleteCount(h)
  \/ Fail(h)

\* A handler that is busy, and what its locals hold.
LEMMA RpcFields ==
  ASSUME TypeOK, NEW h \in Handlers
  PROVE  /\ rpc[h] \in Rpc /\ NoRpc \in Rpc
         /\ rpc[h].now \in Time /\ rpc[h].created_at \in Time
         /\ rpc[h].to \in Backends /\ Choices(h) \subseteq Backends
         /\ rpc[h].pc # "idle" => rpc[h] # NoRpc /\ rpc[h].key \in Keys
         /\ rpc[h] # NoRpc => rpc[h].key \in Keys
         /\ rpc[h] = NoRpc => rpc[h].key \notin Keys
  BY ServiceAssumption DEF TypeOK, Rpc, NoRpc, Time, Backends, Choices

\* The next locals of a busy handler that goes on.
LEMMA RpcGoto ==
  ASSUME TypeOK, NEW h \in Handlers, rpc[h] # NoRpc,
         NEW pc \in {"put_put", "put_abandoned", "put_count",
                     "delete_delete", "delete_abandoned", "delete_count"},
         NEW b \in Backends
  PROVE  [[rpc[h] EXCEPT !.pc = pc] EXCEPT !.to = b] \in Rpc \ {NoRpc}
  BY DEF TypeOK, Rpc, NoRpc

\* A step that writes one entry of one backend.
LEMMA StoreAt ==
  ASSUME TypeOK, NEW b \in Backends, NEW k \in Keys, NEW e \in Entry \cup {None},
         store' = [store EXCEPT ![b][k] = e]
  PROVE  /\ store' \in [Backends -> [Keys -> Entry \cup {None}]]
         /\ store'[b][k] = e
         /\ \A c \in Backends, j \in Keys : c # b \/ j # k => store'[c][j] = store[c][j]
  BY DEF TypeOK

LEMMA ServiceTypeStep == TypeOK /\ [Next]_vars => TypeOK'
<1> SUFFICES ASSUME TypeOK, [Next]_vars PROVE TypeOK'
  OBVIOUS
<1>0. /\ clock \in Time /\ 0 \in Time
      /\ \A f \in Counters : Count(f) => counters' \in [Counters -> Nat]
  BY ServiceAssumption DEF TypeOK, Time, Count
<1>1. ASSUME NEW h \in Handlers, Handle(h) PROVE TypeOK'
  <2>0. /\ rpc[h] \in Rpc /\ rpc[h].now \in Time
        /\ rpc[h].pc # "idle" => rpc[h] # NoRpc /\ rpc[h].key \in Keys
        /\ rpc[h] # NoRpc => rpc[h].key \in Keys
        /\ NewEntry(h) \in Entry
        /\ rpc[h].to \in Backends /\ active \in Backends /\ Choices(h) \subseteq Backends
    BY RpcFields DEF NewEntry, Entry, TypeOK
  <2>1. ASSUME End(h) PROVE rpc' \in [Handlers -> Rpc] /\ contended' \in SUBSET Keys
    BY <2>1, RpcFields DEF End, TypeOK
  <2>2. ASSUME NEW pc \in {"put_put", "put_abandoned", "put_count",
                           "delete_delete", "delete_abandoned", "delete_count"},
               NEW b \in Backends, rpc[h] # NoRpc, Goto(h, pc, b)
        PROVE  rpc' \in [Handlers -> Rpc] /\ contended' \in SUBSET Keys
    <3>1. [[rpc[h] EXCEPT !.pc = pc] EXCEPT !.to = b] \in Rpc
      BY <2>2, <1>0, RpcGoto
    <3> QED
      BY <3>1, <2>2 DEF Goto, TypeOK
  <2>3. ASSUME NEW k \in Keys, PutBegin(h, k) \/ DeleteBegin(h, k) PROVE TypeOK'
    <3>1. PICK pc \in {"put_get", "delete_get"} : Begin(h, k, pc)
      BY <2>3 DEF PutBegin, DeleteBegin
    <3>2. [pc |-> pc, key |-> k, now |-> clock, created_at |-> 0, to |-> active] \in Rpc
      BY <1>0, <2>0 DEF Rpc
    <3> QED
      BY <3>1, <3>2 DEF Begin, TypeOK, env_vars
  <2>4. CASE PutGet(h)
    <3> DEFINE c(b) == IF store[b][rpc[h].key] = None THEN rpc[h].now
                       ELSE store[b][rpc[h].key].created_at
    <3>1. PICK b \in Choices(h) :
            rpc' = [rpc EXCEPT ![h] =
                     [pc |-> "put_put", key |-> rpc[h].key, now |-> rpc[h].now,
                      created_at |-> c(b), to |-> active]]
      BY <2>4 DEF PutGet
    <3>2. c(b) \in Time
      BY <2>4, <2>0 DEF PutGet, TypeOK, Entry
    <3>3. [pc |-> "put_put", key |-> rpc[h].key, now |-> rpc[h].now, created_at |-> c(b),
           to |-> active] \in Rpc
      BY <3>2, <2>4, <2>0 DEF PutGet, Rpc
    <3> QED
      BY <2>4, <3>1, <3>3, <1>0 DEF PutGet, TypeOK, env_vars, Counters
  <2>5. CASE PutPut(h) \/ DeleteDelete(h)
    <3>1. store' \in [Backends -> [Keys -> Entry \cup {None}]]
      BY <2>5, <2>0, StoreAt DEF PutPut, DeleteDelete
    <3>2. rpc' \in [Handlers -> Rpc] /\ contended' \in SUBSET Keys
      BY <2>5, <2>0, <2>1, <2>2 DEF PutPut, DeleteDelete
    <3> QED
      BY <3>1, <3>2, <2>5 DEF PutPut, DeleteDelete, TypeOK, env_vars
  <2>6. CASE PutCount(h) \/ DeleteCount(h) \/ DeleteGet(h) \/ Fail(h)
    <3>1. rpc' \in [Handlers -> Rpc] /\ contended' \in SUBSET Keys
      BY <2>6, <2>0, <2>1, <2>2 DEF PutCount, DeleteCount, DeleteGet, Fail, Backends
    <3>2. counters' \in [Counters -> Nat]
      BY <2>6, <1>0 DEF PutCount, DeleteCount, DeleteGet, Fail, Counters, TypeOK
    <3> QED
      BY <3>1, <3>2, <2>6 DEF PutCount, DeleteCount, DeleteGet, Fail, TypeOK, env_vars
  <2> QED
    BY <1>1, <2>3, <2>4, <2>5, <2>6 DEF Handle
<1>2. CASE Get \/ List
  BY <1>2, <1>0 DEF Get, List, TypeOK, env_vars, Counters
<1>3. CASE Pass \/ FailOver
  BY <1>3 DEF Pass, FailOver, TypeOK, Backends
<1>4. CASE StatsBegin \/ StatsAnswer
  <2>1. NoCounts \in [Counters -> Nat]
    BY DEF NoCounts
  <2> QED
    BY <1>4, <2>1 DEF StatsBegin, StatsAnswer, NoStats, TypeOK, service_vars
<1>5. ASSUME NEW f \in Counters, StatsLoad(f) PROVE TypeOK'
  BY <1>5 DEF StatsLoad, TypeOK, service_vars
<1>6. CASE UNCHANGED vars
  BY <1>6 DEF vars, TypeOK
<1> QED
  BY <1>1, <1>2, <1>3, <1>4, <1>5, <1>6 DEF Next, Handle

LEMMA ServiceTypeInit == Init => TypeOK
  BY ServiceAssumption DEF Init, TypeOK, NoCounts, NoStats, Rpc, Time, Backends

\* KvService keeps its types: the locals of the handlers, the times of the
\* entries, the counters and what a get_stats has read.
THEOREM ServiceTypeOK == Spec => []TypeOK
  BY ServiceTypeInit, ServiceTypeStep, PTL DEF Spec
-----------------------------------------------------------------------------
\* The puts whose read is counted and whose write is not.
Out == {"put_put", "put_abandoned", "put_count"}
Writing == {h \in Handlers : rpc[h].pc \in Out}

LEMMA WritingFinite ==
  ASSUME TypeOK
  PROVE  IsFiniteSet(Writing) /\ Cardinality(Writing) \in Nat
<1>1. IsFiniteSet(Writing)
  BY FS_Subset, ServiceAssumption DEF Writing
<1> QED
  BY <1>1, FS_CardinalityType

\* How a step of one handler changes their number.
LEMMA WritingStep ==
  ASSUME TypeOK, NEW h \in Handlers, \A g \in Handlers \ {h} : rpc'[g] = rpc[g]
  PROVE  Cardinality(Writing)' =
           IF rpc[h].pc \in Out
           THEN IF rpc'[h].pc \in Out THEN Cardinality(Writing) ELSE Cardinality(Writing) - 1
           ELSE IF rpc'[h].pc \in Out THEN Cardinality(Writing) + 1 ELSE Cardinality(Writing)
<1>1. Writing' = IF rpc'[h].pc \in Out THEN Writing \cup {h} ELSE Writing \ {h}
  BY DEF Writing
<1>2. h \in Writing <=> rpc[h].pc \in Out
  BY DEF Writing
<1>3. rpc'[h].pc \in Out => Cardinality(Writing)' = Cardinality(Writing \cup {h})
  BY <1>1
<1>4. rpc'[h].pc \notin Out => Cardinality(Writing)' = Cardinality(Writing \ {h})
  BY <1>1
<1> QED
  BY <1>2, <1>3, <1>4, WritingFinite, FS_AddElement, FS_RemoveElement

\* A step counts at most what it has done: reads and writes only grow, a write
\* is counted when a put leaves Writing, and a put enters it with its read.
LEMMA CountStep ==
  ASSUME TypeOK, NEW h \in Handlers, Handle(h)
  PROVE  /\ \A g \in Handlers \ {h} : rpc'[g] = rpc[g]
         /\ stats' = stats
         /\ \/ /\ counters' = counters
               /\ rpc'[h].pc \in Out => rpc[h].pc \in Out
            \/ counters' = [counters EXCEPT !["reads"] = @ + 1]
            \/ /\ counters' = [counters EXCEPT !["writes"] = @ + 1]
               /\ rpc[h].pc \in Out /\ rpc'[h].pc \notin Out
            \/ /\ counters' = [counters EXCEPT !["deletes"] = @ + 1]
               /\ rpc'[h].pc \notin Out
<1>0. /\ rpc \in [Handlers -> Rpc]
      /\ NoRpc.pc \notin Out
  BY DEF TypeOK, NoRpc, Out
<1>00. rpc[h].to \in Backends /\ Choices(h) \subseteq Backends
  BY RpcFields
<1>1. ASSUME NEW k \in Keys, PutBegin(h, k) \/ DeleteBegin(h, k)
      PROVE  /\ \A g \in Handlers \ {h} : rpc'[g] = rpc[g]
             /\ counters' = counters /\ rpc'[h].pc \notin Out /\ stats' = stats
  BY <1>0, <1>1 DEF PutBegin, DeleteBegin, Begin, env_vars, Out
<1>2. ASSUME End(h)
      PROVE  (\A g \in Handlers \ {h} : rpc'[g] = rpc[g]) /\ rpc'[h].pc \notin Out
  BY <1>0, <1>2 DEF End
<1>3. ASSUME NEW pc \in {"put_put", "put_abandoned", "put_count",
                         "delete_delete", "delete_abandoned", "delete_count"},
             NEW b \in Backends, Goto(h, pc, b)
      PROVE  (\A g \in Handlers \ {h} : rpc'[g] = rpc[g]) /\ rpc'[h].pc = pc
  <2>1. [[rpc[h] EXCEPT !.pc = pc] EXCEPT !.to = b].pc = pc
    BY <1>0 DEF Rpc, NoRpc
  <2> QED
    BY <1>0, <1>3, <2>1 DEF Goto
<1>4. CASE PutGet(h)
  BY <1>0, <1>4 DEF PutGet, Count, env_vars
<1>5. CASE PutPut(h)
  BY <1>00, <1>2, <1>3, <1>5 DEF PutPut, env_vars, Out
<1>6. CASE DeleteGet(h) \/ DeleteDelete(h)
  BY <1>00, <1>2, <1>3, <1>6 DEF DeleteGet, DeleteDelete, env_vars, Out
<1>7. CASE Fail(h)
  BY <1>00, <1>2, <1>3, <1>7 DEF Fail, env_vars, Out, Backends
<1>8. CASE PutCount(h)
  BY <1>2, <1>8 DEF PutCount, Count, env_vars, Out
<1>9. CASE DeleteCount(h)
  BY <1>2, <1>9 DEF DeleteCount, Count, env_vars, Out
<1> QED
  BY <1>1, <1>4, <1>5, <1>6, <1>7, <1>8, <1>9 DEF Handle

\* What a get_stats has loaded lies between the counter at the beginning of the
\* call and the counter now; what it has yet to load has not fallen below its
\* value at the beginning.
StatsInv ==
  \A f \in Counters :
    IF f \in stats.left THEN stats.begun[f] <= counters[f]
    ELSE stats.begun[f] <= stats.got[f] /\ stats.got[f] <= counters[f]

CountersInv == TypeOK /\ ReadsCoverWrites /\ StatsInv

LEMMA CountersInit == Init => CountersInv
<1> SUFFICES ASSUME Init PROVE CountersInv
  OBVIOUS
<1>1. Writing = {}
  BY DEF Init, Writing, NoRpc, Out
<1>2. Cardinality({}) = 0
  BY FS_EmptySet
<1>3. counters["writes"] = 0 /\ counters["reads"] = 0
  BY DEF Init, NoCounts, Counters
<1>4. ReadsCoverWrites
  <2>1. Cardinality(Writing) = 0
    BY <1>1, <1>2
  <2> QED
    BY <1>3, <2>1 DEF ReadsCoverWrites, Writing, Out
<1>5. StatsInv
  BY DEF Init, StatsInv, NoStats, NoCounts
<1> QED
  BY <1>4, <1>5, ServiceTypeInit DEF CountersInv

\* Counters that have not moved back keep what a get_stats has read in place.
LEMMA StatsKept ==
  ASSUME CountersInv, TypeOK', stats' = stats, \A f \in Counters : counters[f] <= counters'[f]
  PROVE  StatsInv'
<1> SUFFICES ASSUME NEW f \in Counters
             PROVE  IF f \in stats.left THEN stats.begun[f] <= counters'[f]
                    ELSE stats.begun[f] <= stats.got[f] /\ stats.got[f] <= counters'[f]
  BY DEF StatsInv
<1>1. /\ counters[f] \in Nat /\ counters'[f] \in Nat
      /\ stats.begun[f] \in Nat /\ stats.got[f] \in Nat
  BY DEF CountersInv, TypeOK
<1> QED
  BY <1>1 DEF CountersInv, StatsInv

LEMMA CountersStep == CountersInv /\ [Next]_vars => CountersInv'
<1> SUFFICES ASSUME CountersInv, [Next]_vars PROVE CountersInv'
  OBVIOUS
<1>0. /\ TypeOK /\ TypeOK'
      /\ counters \in [Counters -> Nat] /\ counters' \in [Counters -> Nat]
      /\ Cardinality(Writing) \in Nat
      /\ counters["writes"] + Cardinality(Writing) <= counters["reads"]
  BY ServiceTypeStep, WritingFinite DEF CountersInv, TypeOK, ReadsCoverWrites, Writing, Out
<1>1. SUFFICES /\ counters'["writes"] + Cardinality(Writing)' <= counters'["reads"]
               /\ StatsInv'
  BY <1>0 DEF CountersInv, ReadsCoverWrites, Writing, Out
<1>2. ASSUME NEW f \in Counters, counters' = [counters EXCEPT ![f] = @ + 1]
      PROVE  \A g \in Counters : counters[g] <= counters'[g]
  BY <1>0, <1>2
<1>3. ASSUME counters' = counters
      PROVE  \A g \in Counters : counters[g] <= counters'[g]
  BY <1>0, <1>3
<1>4. ASSUME NEW h \in Handlers, Handle(h)
      PROVE  /\ counters'["writes"] + Cardinality(Writing)' <= counters'["reads"]
             /\ StatsInv'
  <2>1. StatsInv'
    BY <1>0, <1>2, <1>3, <1>4, CountStep, StatsKept DEF Counters
  <2>2. counters'["writes"] + Cardinality(Writing)' <= counters'["reads"]
    BY <1>0, <1>4, CountStep, WritingStep DEF Counters
  <2> QED
    BY <2>1, <2>2
<1>5. ASSUME rpc' = rpc PROVE Cardinality(Writing)' = Cardinality(Writing)
  BY <1>5 DEF Writing
<1>6. CASE Get \/ List
  <2>1. StatsInv'
    BY <1>0, <1>2, <1>6, StatsKept DEF Get, List, Count, env_vars, Counters
  <2> QED
    BY <1>0, <1>5, <1>6, <2>1 DEF Get, List, Count, Counters
<1>7. CASE Pass \/ FailOver \/ UNCHANGED vars
  BY <1>0, <1>3, <1>5, <1>7, StatsKept DEF Pass, FailOver, vars
<1>8. CASE StatsBegin
  BY <1>0, <1>5, <1>8 DEF StatsBegin, service_vars, StatsInv
<1>9. CASE StatsAnswer
  <2>1. stats' = NoStats /\ counters' = counters /\ rpc' = rpc
    BY <1>9 DEF StatsAnswer, service_vars
  <2>2. StatsInv'
    BY <1>0, <2>1 DEF StatsInv, NoStats, NoCounts
  <2> QED
    BY <1>0, <1>5, <2>1, <2>2
<1>10. ASSUME NEW f \in Counters, StatsLoad(f)
       PROVE  /\ counters'["writes"] + Cardinality(Writing)' <= counters'["reads"]
              /\ StatsInv'
  <2>1. /\ stats'.left = stats.left \ {f} /\ stats'.begun = stats.begun
        /\ stats'.got = [stats.got EXCEPT ![f] = counters[f]]
        /\ f \in stats.left
        /\ counters' = counters /\ rpc' = rpc
    BY <1>0, <1>10 DEF StatsLoad, service_vars, TypeOK
  <2>2. StatsInv'
    BY <1>0, <2>1 DEF StatsInv, CountersInv, TypeOK
  <2> QED
    BY <1>0, <1>5, <2>1, <2>2
<1> QED
  BY <1>4, <1>6, <1>7, <1>8, <1>9, <1>10 DEF Next, Handle

LEMMA CountersInvariant == Spec => []CountersInv
  BY CountersInit, CountersStep, PTL DEF Spec

\* The writes counted, and those on their way, are never more than the reads.
THEOREM ServiceReadsCoverWrites == Spec => []ReadsCoverWrites
  BY CountersInvariant, PTL DEF CountersInv

\* An answer of get_stats is made of numbers that each held during the call,
\* and shows more writes than reads only if reads were counted meanwhile.
THEOREM ServiceStatsFromTheCall == Spec => []StatsFromTheCall
<1>1. CountersInv => StatsFromTheCall
  <2> SUFFICES ASSUME CountersInv, stats.left = {}
               PROVE  /\ \A f \in Counters : /\ stats.begun[f] <= stats.got[f]
                                            /\ stats.got[f] <= counters[f]
                      /\ stats.got["writes"] + stats.begun["reads"]
                           <= stats.got["reads"] + counters["reads"]
    BY DEF StatsFromTheCall
  <2>1. \A f \in Counters : stats.begun[f] <= stats.got[f] /\ stats.got[f] <= counters[f]
    BY DEF CountersInv, StatsInv
  <2>2. \A f \in Counters : /\ stats.begun[f] \in Nat /\ stats.got[f] \in Nat
                            /\ counters[f] \in Nat
    BY DEF CountersInv, TypeOK
  <2>3. counters["writes"] <= counters["reads"]
    BY <2>2, WritingFinite DEF CountersInv, ReadsCoverWrites, Writing, Out, Counters
  <2> QED
    BY <2>1, <2>2, <2>3 DEF Counters
<1> QED
  BY <1>1, CountersInvariant, PTL
-----------------------------------------------------------------------------
\* A key on which no mutations overlap has at most one.
Alone ==
  \A k \in Keys \ contended : \A g, h \in Handlers :
    rpc[g].key = k /\ rpc[h].key = k => g = h

\* Before the failover RocksDB is empty, and no call goes there.
Home ==
  active = "kafka" => /\ \A k \in Keys : store["rocksdb"][k] = None
                      /\ \A h \in Handlers : rpc[h].to = "kafka"

\* While the clock has only gone forward, every time taken from it is past.
Past ==
  ticked # "back" =>
    /\ \A h \in Handlers : rpc[h].now <= clock /\ rpc[h].created_at <= clock
    /\ \A b \in Backends, k \in Keys : store[b][k] # None =>
         store[b][k].created_at <= clock /\ store[b][k].updated_at <= clock

\* A put without overlap that is about to write h knows the entry it replaces,
\* or has found that RocksDB does not know the key; and as long as it may go to
\* Kafka, RocksDB does not know the key.
KeptBy(h) ==
  LET k == rpc[h].key
  IN  k \in Keys \ contended =>
        /\ rpc[h].to = "kafka" => store["rocksdb"][k] = None
        /\ Latest(k) # None =>
             /\ rpc[h].pc \in {"put_put", "put_abandoned"} =>
                  \/ rpc[h].created_at = Latest(k).created_at
                  \/ /\ rpc[h].to = "rocksdb" /\ store["rocksdb"][k] = None
                     /\ rpc[h].created_at = rpc[h].now
             /\ ticked # "back" /\ rpc[h].pc \in {"put_get", "put_put", "put_abandoned"} =>
                  Latest(k).updated_at <= rpc[h].now /\ Latest(k).created_at <= rpc[h].now

TimesInv == TypeOK /\ Alone /\ Home /\ Past /\ \A h \in Handlers : KeptBy(h)

LEMMA TimesInit == Init => TimesInv
<1> SUFFICES ASSUME Init PROVE TimesInv
  OBVIOUS
<1>1. /\ \A b \in Backends, k \in Keys : store[b][k] = None
      /\ \A h \in Handlers : rpc[h] = NoRpc
      /\ "rocksdb" \in Backends /\ clock = 0
  BY DEF Init, Backends
<1>2. NoRpc.key \notin Keys /\ NoRpc.now = 0 /\ NoRpc.created_at = 0 /\ NoRpc.to = "kafka"
  BY ServiceAssumption DEF NoRpc
<1> QED
  BY <1>1, <1>2, ServiceTypeInit DEF TimesInv, Alone, Home, Past, KeptBy

\* Where the next call of h goes: to the backend of its last choice, or to RocksDB
\* after the failover.
LEMMA ChoiceAt ==
  ASSUME TypeOK, Home, NEW h \in Handlers, NEW b \in Choices(h)
  PROVE  /\ b \in Backends
         /\ b = "kafka" => rpc[h].to = "kafka"
         /\ active = "kafka" => b = "kafka"
         /\ rpc[h].to = "rocksdb" => b = "rocksdb"
  BY RpcFields DEF TypeOK, Home, Choices, Backends

\* A handler that a step leaves alone keeps what it knows, as long as the step
\* changes the entry of no other handler's uncontended key.
LEMMA KeptFrame ==
  ASSUME TimesInv, NEW g \in Handlers, rpc'[g] = rpc[g], ticked' = ticked,
         rpc[g].key \in Keys \ contended' =>
           /\ rpc[g].key \notin contended
           /\ \A b \in Backends : store'[b][rpc[g].key] = store[b][rpc[g].key]
  PROVE  KeptBy(g)'
<1> SUFFICES ASSUME rpc[g].key \in Keys \ contended' PROVE KeptBy(g)'
  BY DEF KeptBy
<1>1. Latest(rpc[g].key)' = Latest(rpc[g].key)
  BY DEF Latest, Backends
<1>2. store'["rocksdb"][rpc[g].key] = store["rocksdb"][rpc[g].key]
  BY DEF Backends
<1> QED
  BY <1>1, <1>2 DEF TimesInv, KeptBy

\* How the slot of h and the set contended change.
LEMMA EndOrGoto ==
  ASSUME TypeOK, Alone, NEW h \in Handlers, rpc[h] # NoRpc,
         NEW pc \in {"put_put", "put_abandoned", "put_count",
                     "delete_delete", "delete_abandoned", "delete_count"},
         NEW b \in Backends, End(h) \/ Goto(h, pc, b)
  PROVE  /\ \A g \in Handlers \ {h} : rpc'[g] = rpc[g]
         /\ \/ rpc'[h] = NoRpc
            \/ /\ rpc'[h].pc = pc /\ rpc'[h].key = rpc[h].key
               /\ rpc'[h].now = rpc[h].now /\ rpc'[h].created_at = rpc[h].created_at
               /\ rpc'[h].to = b
               /\ contended' = contended
         /\ \A k \in Keys : k \in contended /\ k \notin contended' =>
              \A g \in Handlers : rpc[g].key = k => g = h /\ rpc'[h] = NoRpc
         /\ contended' \subseteq contended
<1>0. rpc \in [Handlers -> Rpc]
  BY DEF TypeOK
<1>1. CASE End(h)
  BY <1>0, <1>1 DEF End, Mutating
<1>2. CASE Goto(h, pc, b)
  <2>1. /\ rpc' = [rpc EXCEPT ![h] = [[rpc[h] EXCEPT !.pc = pc] EXCEPT !.to = b]]
        /\ contended' = contended
    BY <1>0, <1>2 DEF Goto
  <2>2. LET r == [[rpc[h] EXCEPT !.pc = pc] EXCEPT !.to = b]
        IN  /\ r.pc = pc /\ r.key = rpc[h].key /\ r.now = rpc[h].now
            /\ r.created_at = rpc[h].created_at /\ r.to = b
    BY <1>0 DEF Rpc, NoRpc
  <2> QED
    BY <1>0, <2>1, <2>2
<1> QED
  BY <1>1, <1>2

\* What the end or the next step of a handler leaves of the invariant, with its
\* write or its removal of the entry in the backend b.
LEMMA TimesEndOrGoto ==
  ASSUME TimesInv, TypeOK', NEW h \in Handlers, rpc[h] # NoRpc,
         NEW pc \in {"put_abandoned", "put_count",
                     "delete_delete", "delete_abandoned", "delete_count"},
         NEW b \in Backends,
         b = "kafka" => rpc[h].to = "kafka", active = "kafka" => b = "kafka",
         End(h) \/ Goto(h, pc, b),
         clock' = clock, ticked' = ticked, active' = active,
         pc = "put_abandoned" => rpc[h].pc = "put_put" /\ store' = store /\ b = "rocksdb",
         \A c \in Backends, k \in Keys :
           \/ store'[c][k] = store[c][k]
           \/ k = rpc[h].key /\ c = b /\ store'[c][k] \in {None, NewEntry(h)}
  PROVE  TimesInv'
<1>0. /\ rpc \in [Handlers -> Rpc] /\ rpc' \in [Handlers -> Rpc]
      /\ rpc[h].key \in Keys /\ NoRpc.key \notin Keys
      /\ NoRpc.now = 0 /\ NoRpc.created_at = 0 /\ NoRpc.to = "kafka"
      /\ clock \in Nat
      /\ "rocksdb" \in Backends /\ "kafka" \in Backends
  BY RpcFields, ServiceAssumption DEF TimesInv, TypeOK, NoRpc, Time, Backends
<1>1. /\ \A g \in Handlers \ {h} : rpc'[g] = rpc[g]
      /\ \/ rpc'[h] = NoRpc
         \/ /\ rpc'[h].pc = pc /\ rpc'[h].key = rpc[h].key
            /\ rpc'[h].now = rpc[h].now /\ rpc'[h].created_at = rpc[h].created_at
            /\ rpc'[h].to = b
            /\ contended' = contended
      /\ \A k \in Keys : k \in contended /\ k \notin contended' =>
           \A g \in Handlers : rpc[g].key = k => g = h /\ rpc'[h] = NoRpc
      /\ contended' \subseteq contended
  BY EndOrGoto DEF TimesInv
<1>2. Alone'
  BY <1>0, <1>1 DEF Alone, TimesInv
<1>3. Past'
  <2>1. ASSUME ticked # "back", NEW g \in Handlers
        PROVE  rpc'[g].now <= clock /\ rpc'[g].created_at <= clock
    BY <1>0, <1>1, <2>1 DEF TimesInv, Past
  <2>2. ASSUME ticked # "back", NEW c \in Backends, NEW k \in Keys, store'[c][k] # None
        PROVE  store'[c][k].created_at <= clock /\ store'[c][k].updated_at <= clock
    <3>1. CASE store'[c][k] = store[c][k]
      BY <2>2, <3>1 DEF TimesInv, Past
    <3>2. CASE store'[c][k] = NewEntry(h)
      BY <2>2, <3>2 DEF TimesInv, Past, NewEntry
    <3> QED
      BY <2>2, <3>1, <3>2
  <2> QED
    BY <2>1, <2>2 DEF Past
<1>4. Home'
  BY <1>0, <1>1 DEF Home, TimesInv
<1>5. ASSUME NEW g \in Handlers \ {h} PROVE KeptBy(g)'
  <2>1. rpc[g].key \in Keys \ contended' =>
           /\ rpc[g].key \notin contended
           /\ \A c \in Backends : store'[c][rpc[g].key] = store[c][rpc[g].key]
    BY <1>0, <1>1, <1>5 DEF TimesInv, Alone
  <2> QED
    BY <1>1, <1>5, <2>1, KeptFrame
<1>6. KeptBy(h)'
  <2>1. CASE pc = "put_abandoned"
    <3>1. \A k \in Keys : Latest(k)' = Latest(k) /\ store'["rocksdb"][k] = store["rocksdb"][k]
      BY <2>1 DEF Latest
    <3> QED
      BY <1>0, <1>1, <2>1, <3>1 DEF KeptBy, TimesInv
  <2>2. CASE pc # "put_abandoned" /\ rpc'[h] # NoRpc
    <3>1. rpc'[h].pc \notin {"put_get", "put_put", "put_abandoned"}
      BY <1>1, <2>2
    <3>2. rpc'[h].key \in Keys \ contended' /\ rpc'[h].to = "kafka" =>
            store'["rocksdb"][rpc'[h].key] = None
      BY <1>0, <1>1, <2>2 DEF KeptBy, TimesInv
    <3> QED
      BY <3>1, <3>2 DEF KeptBy
  <2>3. CASE rpc'[h] = NoRpc
    BY <1>0, <2>3 DEF KeptBy
  <2> QED
    BY <2>1, <2>2, <2>3
<1> QED
  BY <1>2, <1>3, <1>4, <1>5, <1>6 DEF TimesInv

LEMMA TimesBegin ==
  ASSUME TimesInv, TypeOK', NEW h \in Handlers, NEW k \in Keys,
         NEW pc \in {"put_get", "delete_get"}, Begin(h, k, pc)
  PROVE  TimesInv'
<1>0. /\ rpc \in [Handlers -> Rpc] /\ clock \in Nat /\ active \in Backends
      /\ rpc[h].key \notin Keys
  BY RpcFields, ServiceAssumption DEF TimesInv, TypeOK, Time, Begin
<1>1. /\ \A g \in Handlers \ {h} : rpc'[g] = rpc[g]
      /\ rpc'[h] = [pc |-> pc, key |-> k, now |-> clock, created_at |-> 0, to |-> active]
      /\ store' = store /\ clock' = clock /\ ticked' = ticked /\ active' = active
      /\ contended' = IF Mutating(k) = {} THEN contended ELSE contended \cup {k}
  BY <1>0 DEF Begin, env_vars
<1>2. Alone'
  BY <1>1 DEF Alone, Mutating, TimesInv
<1>3. Past'
  BY <1>0, <1>1 DEF Past, TimesInv
<1>4. Home'
  BY <1>1 DEF Home, TimesInv
<1>5. ASSUME NEW g \in Handlers \ {h} PROVE KeptBy(g)'
  BY <1>1, <1>5, KeptFrame DEF TimesInv
<1>6. KeptBy(h)'
  <2>1. Latest(k)' = Latest(k) /\ Latest(k) \in {store["rocksdb"][k], store["kafka"][k]}
    BY <1>1 DEF Latest
  <2>2. "rocksdb" \in Backends /\ "kafka" \in Backends
    BY DEF Backends
  <2>3. ticked # "back" /\ Latest(k) # None =>
          Latest(k).updated_at <= clock /\ Latest(k).created_at <= clock
    BY <2>1, <2>2 DEF TimesInv, Past
  <2>4. active = "kafka" => store["rocksdb"][k] = None
    BY DEF TimesInv, Home
  <2> QED
    BY <1>1, <2>1, <2>3, <2>4 DEF KeptBy
<1> QED
  BY <1>2, <1>3, <1>4, <1>5, <1>6 DEF TimesInv

LEMMA TimesPutGet ==
  ASSUME TimesInv, TypeOK', NEW h \in Handlers, PutGet(h)
  PROVE  TimesInv'
<1> DEFINE k == rpc[h].key
           c(b) == IF store[b][k] = None THEN rpc[h].now ELSE store[b][k].created_at
<1>0. /\ rpc \in [Handlers -> Rpc] /\ clock \in Nat
      /\ rpc[h].pc = "put_get" /\ k \in Keys
      /\ "rocksdb" \in Backends /\ "kafka" \in Backends /\ active \in Backends
  BY RpcFields, ServiceAssumption DEF TimesInv, TypeOK, Time, PutGet, Backends
<1>1. PICK b \in Choices(h) :
        rpc' = [rpc EXCEPT ![h] = [pc |-> "put_put", key |-> k, now |-> rpc[h].now,
                                   created_at |-> c(b), to |-> active]]
  BY DEF PutGet
<1>2. /\ \A g \in Handlers \ {h} : rpc'[g] = rpc[g]
      /\ rpc'[h] = [pc |-> "put_put", key |-> k, now |-> rpc[h].now,
                    created_at |-> c(b), to |-> active]
      /\ store' = store /\ contended' = contended /\ clock' = clock /\ ticked' = ticked
      /\ active' = active
  BY <1>0, <1>1 DEF PutGet, env_vars
<1>3. /\ b \in Backends
      /\ b = "kafka" => rpc[h].to = "kafka"
      /\ active = "kafka" => b = "kafka"
  BY ChoiceAt DEF TimesInv
<1>4. Alone'
  BY <1>2 DEF Alone, TimesInv
<1>5. Past'
  <2>1. ticked # "back" => c(b) <= clock
    BY <1>0, <1>3 DEF Past, TimesInv
  <2> QED
    BY <1>2, <2>1 DEF Past, TimesInv
<1>6. Home'
  BY <1>2 DEF Home, TimesInv
<1>7. ASSUME NEW g \in Handlers \ {h} PROVE KeptBy(g)'
  BY <1>2, <1>7, KeptFrame
<1>8. KeptBy(h)'
  <2>1. Latest(k)' = Latest(k)
    BY <1>2 DEF Latest
  <2>2. SUFFICES ASSUME k \notin contended
                 PROVE  /\ active = "kafka" => store["rocksdb"][k] = None
                        /\ Latest(k) # None =>
                             /\ \/ c(b) = Latest(k).created_at
                                \/ /\ active = "rocksdb" /\ store["rocksdb"][k] = None
                                   /\ c(b) = rpc[h].now
                             /\ ticked # "back" => /\ Latest(k).updated_at <= rpc[h].now
                                                   /\ Latest(k).created_at <= rpc[h].now
    BY <1>2, <2>1 DEF KeptBy
  <2>3. KeptBy(h)
    BY DEF TimesInv
  <2>4. active = "kafka" => store["rocksdb"][k] = None
    BY <1>0 DEF TimesInv, Home
  <2>5. CASE b = "kafka"
    <3>1. store["rocksdb"][k] = None
      BY <1>0, <1>3, <2>2, <2>3, <2>5 DEF KeptBy
    <3> QED
      BY <1>0, <2>2, <2>3, <2>4, <2>5, <3>1 DEF KeptBy, Latest
  <2>6. CASE b = "rocksdb"
    <3>1. active = "rocksdb"
      BY <1>0, <1>3, <2>6 DEF Backends
    <3> QED
      BY <1>0, <2>2, <2>3, <2>6, <3>1 DEF KeptBy, Latest
  <2> QED
    BY <1>3, <2>5, <2>6 DEF Backends
<1> QED
  BY <1>4, <1>5, <1>6, <1>7, <1>8 DEF TimesInv

LEMMA TimesHandle ==
  ASSUME TimesInv, TypeOK', NEW h \in Handlers, Handle(h)
  PROVE  TimesInv'
<1>0. /\ rpc \in [Handlers -> Rpc] /\ TypeOK /\ Home
      /\ rpc[h].pc # "idle" => rpc[h] # NoRpc /\ rpc[h].key \in Keys
      /\ rpc[h] # NoRpc => rpc[h].key \in Keys
      /\ rpc[h].to \in Choices(h) /\ "rocksdb" \in Backends
  BY RpcFields DEF TimesInv, TypeOK, Choices, Backends
<1>1. NewEntry(h) \in Entry
  BY <1>0, RpcFields DEF NewEntry, Entry
<1>2. ASSUME NEW k \in Keys, PutBegin(h, k) \/ DeleteBegin(h, k) PROVE TimesInv'
  BY <1>2, TimesBegin DEF PutBegin, DeleteBegin
<1>3. CASE PutGet(h)
  BY <1>3, TimesPutGet
<1>4. CASE PutPut(h)
  <2>1. PICK b \in Choices(h) :
          /\ End(h) \/ Goto(h, "put_count", b)
          /\ store' = [store EXCEPT ![b][rpc[h].key] = NewEntry(h)]
    BY <1>4 DEF PutPut
  <2>2. /\ rpc[h] # NoRpc /\ rpc[h].key \in Keys
        /\ clock' = clock /\ ticked' = ticked /\ active' = active
    BY <1>0, <1>4 DEF PutPut, env_vars
  <2>3. /\ b \in Backends
        /\ b = "kafka" => rpc[h].to = "kafka"
        /\ active = "kafka" => b = "kafka"
    BY <1>0, ChoiceAt
  <2>4. \A c \in Backends, k \in Keys :
           \/ store'[c][k] = store[c][k]
           \/ k = rpc[h].key /\ c = b /\ store'[c][k] \in {None, NewEntry(h)}
    BY <1>0, <1>1, <2>1, <2>2, <2>3, StoreAt
  <2> QED
    BY <2>1, <2>2, <2>3, <2>4, TimesEndOrGoto
<1>5. CASE DeleteDelete(h)
  <2>1. /\ rpc[h] # NoRpc /\ rpc[h].key \in Keys
        /\ End(h) \/ Goto(h, "delete_count", rpc[h].to)
        /\ clock' = clock /\ ticked' = ticked /\ active' = active
        /\ store' = [store EXCEPT ![rpc[h].to][rpc[h].key] = None]
    BY <1>0, <1>5 DEF DeleteDelete, env_vars
  <2>2. rpc[h].to \in Backends /\ (active = "kafka" => rpc[h].to = "kafka")
    BY <1>0, ChoiceAt
  <2>3. \A c \in Backends, k \in Keys :
           \/ store'[c][k] = store[c][k]
           \/ k = rpc[h].key /\ c = rpc[h].to /\ store'[c][k] \in {None, NewEntry(h)}
    BY <1>0, <2>1, <2>2, StoreAt
  <2> QED
    BY <2>1, <2>2, <2>3, TimesEndOrGoto
<1>6. CASE PutCount(h) \/ DeleteCount(h) \/ DeleteGet(h) \/ Fail(h)
  <2>1. PICK pc \in {"put_abandoned", "delete_delete", "delete_abandoned"}, b \in Choices(h) :
          /\ End(h) \/ Goto(h, pc, b)
          /\ pc = "put_abandoned" /\ ~End(h) => rpc[h].pc = "put_put" /\ b = "rocksdb"
    BY <1>0, <1>6 DEF PutCount, DeleteCount, DeleteGet, Fail
  <2>2. /\ rpc[h] # NoRpc
        /\ store' = store /\ clock' = clock /\ ticked' = ticked /\ active' = active
    BY <1>0, <1>6 DEF PutCount, DeleteCount, DeleteGet, Fail, env_vars, NoRpc
  <2>3. /\ b \in Backends
        /\ b = "kafka" => rpc[h].to = "kafka"
        /\ active = "kafka" => b = "kafka"
    BY <1>0, ChoiceAt
  <2>4. CASE End(h)
    <3>1. End(h) \/ Goto(h, "delete_delete", b)
      BY <2>4
    <3> QED
      BY <2>2, <2>3, <2>4, <3>1, TimesEndOrGoto
  <2>5. CASE ~End(h)
    BY <2>1, <2>2, <2>3, <2>5, TimesEndOrGoto
  <2> QED
    BY <2>4, <2>5
<1> QED
  BY <1>2, <1>3, <1>4, <1>5, <1>6 DEF Handle

LEMMA TimesStep == TimesInv /\ [Next]_vars => TimesInv'
<1> SUFFICES ASSUME TimesInv, [Next]_vars PROVE TimesInv'
  OBVIOUS
<1>0. TypeOK'
  BY ServiceTypeStep DEF TimesInv
<1>1. ASSUME NEW h \in Handlers, Handle(h) PROVE TimesInv'
  BY <1>0, <1>1, TimesHandle
<1>2. ASSUME UNCHANGED <<store, active, clock, rpc, contended, ticked>> PROVE TimesInv'
  BY <1>0, <1>2 DEF TimesInv, Alone, Home, Past, KeptBy, Latest
<1>3. CASE Pass
  <2>1. /\ UNCHANGED <<store, active, rpc, contended>>
        /\ ticked' # "back" => ticked # "back" /\ clock <= clock'
        /\ clock \in Nat /\ clock' \in Nat
    BY <1>3, ServiceAssumption DEF Pass, TimesInv, TypeOK, Time
  <2>2. Past'
    <3>1. ASSUME NEW h \in Handlers PROVE rpc[h].now \in Nat /\ rpc[h].created_at \in Nat
      BY RpcFields, ServiceAssumption DEF TimesInv, Time
    <3>2. ASSUME NEW b \in Backends, NEW k \in Keys, store[b][k] # None
          PROVE  store[b][k].created_at \in Nat /\ store[b][k].updated_at \in Nat
      BY <3>2, ServiceAssumption DEF TimesInv, TypeOK, Entry, Time
    <3> QED
      BY <2>1, <3>1, <3>2 DEF TimesInv, Past
  <2>3. Alone' /\ Home' /\ \A h \in Handlers : KeptBy(h)'
    BY <2>1 DEF TimesInv, Alone, Home, KeptBy, Latest
  <2> QED
    BY <1>0, <2>2, <2>3 DEF TimesInv
<1>4. CASE FailOver
  <2>1. /\ UNCHANGED <<store, rpc, contended, clock, ticked>>
        /\ active' = "rocksdb"
    BY <1>4 DEF FailOver
  <2> QED
    BY <1>0, <2>1 DEF TimesInv, Alone, Home, Past, KeptBy, Latest
<1> QED
  BY <1>1, <1>2, <1>3, <1>4 DEF Next, Handle, Get, List, StatsBegin, StatsLoad, StatsAnswer,
     service_vars, env_vars, vars

\* A put that meets no other mutation of its key keeps created_at, unless it is
\* the first after the failover, and the times of its entry in order while the
\* clock goes forward: server.rs reads the entry it replaces in another step than
\* it writes.
THEOREM ServicePutKeepsTimes == Spec => SerialPutKeepsTimes
<1> DEFINE new(b, k) == store'[b][k]
           Keeps ==
      \A k \in Keys \ contended, b \in Backends : Overwrites(b, k) =>
        /\ \/ new(b, k).created_at = Latest(k).created_at
           \/ /\ b = "rocksdb" /\ store[b][k] = None
              /\ new(b, k).created_at = new(b, k).updated_at
        /\ ticked # "back" => /\ Latest(k).updated_at <= new(b, k).updated_at
                              /\ new(b, k).created_at <= new(b, k).updated_at
<1>1. TimesInv /\ [Next]_vars => Keeps
  <2> SUFFICES ASSUME TimesInv, [Next]_vars, NEW k \in Keys \ contended, NEW b \in Backends,
                      Overwrites(b, k)
               PROVE  /\ \/ new(b, k).created_at = Latest(k).created_at
                         \/ /\ b = "rocksdb" /\ store[b][k] = None
                            /\ new(b, k).created_at = new(b, k).updated_at
                      /\ ticked # "back" => /\ Latest(k).updated_at <= new(b, k).updated_at
                                            /\ new(b, k).created_at <= new(b, k).updated_at
    OBVIOUS
  <2>0. TypeOK /\ Home
    BY DEF TimesInv
  <2>1. store' # store
    BY DEF Overwrites
  <2>2. PICK h \in Handlers : PutPut(h) \/ DeleteDelete(h)
    BY <2>1 DEF Next, PutBegin, DeleteBegin, Begin, PutGet, PutCount, DeleteGet, DeleteCount,
       Fail, Get, List, Pass, FailOver, StatsBegin, StatsLoad, StatsAnswer, service_vars, vars
  <2>3. /\ rpc[h].key \in Keys /\ NewEntry(h) \in Entry /\ rpc[h].to \in Backends
        /\ rpc[h].now \in Nat /\ rpc[h].created_at \in Nat
    BY <2>0, <2>2, RpcFields, ServiceAssumption
       DEF PutPut, DeleteDelete, NewEntry, Entry, Time
  <2>4. CASE DeleteDelete(h)
    <3>1. store'[b][k] = store[b][k] \/ store'[b][k] = None
      BY <2>0, <2>3, <2>4, StoreAt DEF DeleteDelete
    <3> QED
      BY <3>1 DEF Overwrites
  <2>5. CASE PutPut(h)
    <3>1. PICK c \in Choices(h) : store' = [store EXCEPT ![c][rpc[h].key] = NewEntry(h)]
      BY <2>5 DEF PutPut
    <3>2. c \in Backends /\ (rpc[h].to = "rocksdb" => c = "rocksdb")
      BY <2>0, ChoiceAt
    <3>3. c = b /\ rpc[h].key = k /\ store'[b][k] = NewEntry(h)
      BY <2>0, <2>3, <3>1, <3>2, StoreAt DEF Overwrites
    <3>4. rpc[h].pc \in {"put_put", "put_abandoned"}
      BY <2>5 DEF PutPut
    <3>5. KeptBy(h) /\ Latest(k) # None
      BY DEF TimesInv, Overwrites
    <3> QED
      BY <2>3, <3>2, <3>3, <3>4, <3>5 DEF KeptBy, NewEntry
  <2> QED
    BY <2>2, <2>4, <2>5
<1>2. Spec => [][Keeps]_vars
  BY <1>1, TimesInit, TimesStep, PTL DEF Spec
<1> QED
  BY <1>2 DEF SerialPutKeepsTimes
=============================================================================
