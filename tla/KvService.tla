----------------------------- MODULE KvService -----------------------------
(***************************************************************************)
(* The put, get, delete and get_stats handlers (src/src/server.rs) over    *)
(* the operations and counters of StorageManager (src/src/storage/mod.rs   *)
(* and src/src/stats.rs).                                                  *)
(* A put is a read, then a write: created_at_unix_ms is taken from what    *)
(* the read found, and other handlers run between the two.  Each backend   *)
(* behaves as the module Storage says, and each call goes to the one that  *)
(* is active when it is made: after the failover that is RocksDB, which    *)
(* knows none of the entries that Kafka holds.  This is one process, from  *)
(* its start with Kafka on; what the next one drains is in StorageManager. *)
(*                                                                         *)
(* An entry is reduced to its two times: data and checksum come from the   *)
(* request alone and go into the entry together.                           *)
(***************************************************************************)
EXTENDS Naturals, FiniteSets

CONSTANTS
  Keys,      \* valid (namespace, id) pairs
  None,
  Handlers,  \* requests that may be in progress together
  MaxClock,  \* bound: the last millisecond explored
  MaxReads,  \* bound: reads counted
  MaxLists   \* bound: lists counted

ASSUME ServiceAssumption ==
  /\ IsFiniteSet(Handlers)
  /\ None \notin Keys
  /\ MaxClock \in Nat
  /\ MaxReads \in Nat
  /\ MaxLists \in Nat
  /\ None \notin [created_at : 0 .. MaxClock, updated_at : 0 .. MaxClock]

VARIABLES
  store,     \* store[b]: what the backend b holds
  active,    \* active_backend()
  clock,     \* now_unix_ms(), the time of the system
  counters,  \* StorageManager.counters
  rpc,       \* rpc[h]: the request of h and the locals of its handler
  stats,     \* a get_stats in progress: the counters when it began (history),
             \* those it has still to load, and what it has loaded
  contended, \* history: keys on which mutations have overlapped since it was idle
  ticked     \* history: what the clock has done, "back" once it ever stepped back

vars == <<store, active, clock, counters, rpc, stats, contended, ticked>>
service_vars == <<store, active, clock, counters, rpc, contended, ticked>>
env_vars == <<active, clock, stats, ticked>>

Backends == {"kafka", "rocksdb"}

Time == 0 .. MaxClock

Entry == [created_at : Time, updated_at : Time]

Counters == {"reads", "writes", "deletes", "lists"}

NoCounts == [f \in Counters |-> 0]

NoStats == [begun |-> NoCounts, left |-> {}, got |-> NoCounts]

NoRpc == [pc |-> "idle", key |-> None, now |-> 0, created_at |-> 0, to |-> "kafka"]

Rpc ==
  {NoRpc} \cup
  [pc : {"put_get", "put_put", "put_abandoned", "put_count",
         "delete_get", "delete_delete", "delete_abandoned", "delete_count"},
   key : Keys, now : Time, created_at : Time, to : Backends]

TypeOK ==
  /\ store \in [Backends -> [Keys -> Entry \cup {None}]]
  /\ active \in Backends
  /\ clock \in Time
  /\ counters \in [Counters -> Nat]
  /\ rpc \in [Handlers -> Rpc]
  /\ stats \in [begun : [Counters -> Nat], left : SUBSET Counters, got : [Counters -> Nat]]
  /\ contended \in SUBSET Keys
  /\ ticked \in {"not", "forward", "back"}

Init ==
  /\ store = [b \in Backends |-> [k \in Keys |-> None]]
  /\ active = "kafka"
  /\ clock = 0
  /\ counters = NoCounts
  /\ rpc = [h \in Handlers |-> NoRpc]
  /\ stats = NoStats
  /\ contended = {}
  /\ ticked = "not"

Mutating(k) == {h \in Handlers : rpc[h].key = k}

Count(field) == counters' = [counters EXCEPT ![field] = @ + 1]

Begin(h, k, pc) ==
  /\ rpc[h] = NoRpc
  /\ counters["reads"] < MaxReads
  /\ rpc' = [rpc EXCEPT ![h] = [pc |-> pc, key |-> k, now |-> clock, created_at |-> 0,
                                   to |-> active]]
  /\ contended' = IF Mutating(k) = {} THEN contended ELSE contended \cup {k}
  /\ UNCHANGED <<store, counters, env_vars>>

\* Variant: the slot of a finished handler is not cleared.
EndKeepsLocals(h) ==
  /\ rpc' = [rpc EXCEPT ![h].pc = "idle"]
  /\ UNCHANGED contended

\* The handler of h returns, or nobody waits for it and it has nothing to do.
End(h) ==
  /\ rpc' = [rpc EXCEPT ![h] = NoRpc]
  /\ contended' = IF Mutating(rpc[h].key) = {h} THEN contended \ {rpc[h].key} ELSE contended

Goto(h, pc, b) ==
  /\ rpc' = [rpc EXCEPT ![h].pc = pc, ![h].to = b]
  /\ UNCHANGED contended

\* The backends that the next call of h may go to: the flag is read at some time
\* after its last step.
Choices(h) == {rpc[h].to, active}
-----------------------------------------------------------------------------
(* put *)

PutBegin(h, k) == Begin(h, k, "put_get")

\* Variant: created_at is always the time of this put.
PutGetNow(h) ==
  /\ rpc[h].pc = "put_get"
  /\ rpc' = [rpc EXCEPT ![h].pc = "put_put", ![h].created_at = rpc[h].now, ![h].to = active]
  /\ Count("reads")
  /\ UNCHANGED <<store, contended, env_vars>>

\* Variant: the read is not counted when it finds nothing.
PutGetUncounted(h) ==
  /\ rpc[h].pc = "put_get"
  /\ LET found == store[active][rpc[h].key]
     IN  /\ rpc' = [rpc EXCEPT ![h].pc = "put_put", ![h].to = active,
                               ![h].created_at = IF found = None THEN rpc[h].now
                                                 ELSE found.created_at]
         /\ IF found = None THEN UNCHANGED counters ELSE Count("reads")
  /\ UNCHANGED <<store, contended, env_vars>>

\* storage.get: what it finds decides created_at.
PutGet(h) ==
  /\ rpc[h].pc = "put_get"
  /\ \E b \in Choices(h) :
       LET found == store[b][rpc[h].key]
       IN  rpc' = [rpc EXCEPT ![h] =
             [pc |-> "put_put", key |-> rpc[h].key, now |-> rpc[h].now,
              created_at |-> IF found = None THEN rpc[h].now ELSE found.created_at,
              to |-> active]]
  /\ Count("reads")
  /\ UNCHANGED <<store, contended, env_vars>>

NewEntry(h) == [created_at |-> rpc[h].created_at, updated_at |-> rpc[h].now]

\* storage.put takes effect; for a request that is gone a closure still may.
PutPut(h) ==
  /\ \E b \in Choices(h) :
       /\ \/ rpc[h].pc = "put_put" /\ Goto(h, "put_count", b)
          \/ rpc[h].pc = "put_abandoned" /\ b = rpc[h].to /\ End(h)
       /\ store' = [store EXCEPT ![b][rpc[h].key] = NewEntry(h)]
  /\ UNCHANGED <<counters, env_vars>>

PutCount(h) ==
  /\ rpc[h].pc = "put_count"
  /\ Count("writes")
  /\ End(h)
  /\ UNCHANGED <<store, env_vars>>
-----------------------------------------------------------------------------
(* delete and get *)

DeleteBegin(h, k) == Begin(h, k, "delete_get")

\* The backend looks for the key; without it the answer is deleted: false.
DeleteGet(h) ==
  /\ rpc[h].pc = "delete_get"
  /\ \E b \in Choices(h) :
       IF store[b][rpc[h].key] = None THEN End(h) ELSE Goto(h, "delete_delete", b)
  /\ UNCHANGED <<store, counters, env_vars>>

DeleteDelete(h) ==
  /\ \/ rpc[h].pc = "delete_delete" /\ Goto(h, "delete_count", rpc[h].to)
     \/ rpc[h].pc = "delete_abandoned" /\ End(h)
  /\ store' = [store EXCEPT ![rpc[h].to][rpc[h].key] = None]
  /\ UNCHANGED <<counters, env_vars>>

DeleteCount(h) ==
  /\ rpc[h].pc = "delete_count"
  /\ Count("deletes")
  /\ End(h)
  /\ UNCHANGED <<store, env_vars>>

\* The storage returns an error, or the client is gone: no answer, no count.
\* RocksDB's closures run on; a put or delete of Kafka's that nobody awaits leaves
\* the cache alone.
Fail(h) ==
  /\ rpc[h] # NoRpc
  /\ \/ End(h)
     \/ /\ rpc[h].pc = "put_put" /\ "rocksdb" \in Choices(h)
        /\ Goto(h, "put_abandoned", "rocksdb")
     \/ /\ rpc[h].pc = "delete_get" /\ "rocksdb" \in Choices(h)
        /\ Goto(h, "delete_abandoned", "rocksdb")
     \/ /\ rpc[h].pc = "delete_delete" /\ rpc[h].to = "rocksdb"
        /\ Goto(h, "delete_abandoned", "rocksdb")
  /\ UNCHANGED <<store, counters, env_vars>>

Get ==
  /\ counters["reads"] < MaxReads
  /\ Count("reads")
  /\ UNCHANGED <<store, rpc, contended, env_vars>>

List ==
  /\ counters["lists"] < MaxLists
  /\ Count("lists")
  /\ UNCHANGED <<store, rpc, contended, env_vars>>

\* SystemTime: the next reading may be an earlier one.
Pass ==
  /\ clock' \in Time \ {clock}
  /\ ticked' = IF ticked = "back" \/ clock' < clock THEN "back" ELSE "forward"
  /\ UNCHANGED <<store, active, counters, rpc, stats, contended>>

\* The health check has failed: the flag is down for the rest of the process.
FailOver ==
  /\ active = "kafka"
  /\ active' = "rocksdb"
  /\ UNCHANGED <<store, clock, counters, rpc, stats, contended, ticked>>
-----------------------------------------------------------------------------
(* get_stats: the four counters are loaded one by one, by relaxed loads and *)
(* so in any order, while the handlers go on moving them.                   *)

StatsBegin ==
  /\ stats = NoStats
  /\ stats' = [begun |-> counters, left |-> Counters, got |-> NoCounts]
  /\ UNCHANGED service_vars

\* Variant: two fields of the answer are swapped.
StatsLoadSwapped(f) ==
  /\ f \in stats.left
  /\ stats' = [stats EXCEPT !.left = @ \ {f},
       !.got[f] = counters[IF f = "writes" THEN "deletes"
                           ELSE IF f = "deletes" THEN "writes" ELSE f]]
  /\ UNCHANGED service_vars

StatsLoad(f) ==
  /\ f \in stats.left
  /\ stats' = [stats EXCEPT !.left = @ \ {f}, !.got[f] = counters[f]]
  /\ UNCHANGED service_vars

StatsAnswer ==
  /\ stats.left = {}
  /\ stats' = NoStats
  /\ UNCHANGED service_vars
-----------------------------------------------------------------------------
Next ==
  \/ \E h \in Handlers :
        \/ \E k \in Keys : PutBegin(h, k) \/ DeleteBegin(h, k)
        \/ PutGet(h) \/ PutPut(h) \/ PutCount(h)
        \/ DeleteGet(h) \/ DeleteDelete(h) \/ DeleteCount(h)
        \/ Fail(h)
  \/ Get \/ List
  \/ StatsBegin \/ (\E f \in Counters : StatsLoad(f)) \/ StatsAnswer
  \/ Pass \/ FailOver

Spec == Init /\ [][Next]_vars
-----------------------------------------------------------------------------
\* The entry of k that a drain would leave in Kafka.
Latest(k) == IF store["rocksdb"][k] # None THEN store["rocksdb"][k] ELSE store["kafka"][k]

\* A step writes an entry of k to the backend b, and there was one.
Overwrites(b, k) == store'[b][k] \notin {None, store[b][k]} /\ Latest(k) # None

\* A put that meets no other mutation of its key keeps created_at, unless it is
\* the first one after the failover and RocksDB does not know the key: then the
\* entry counts as created by it.  As long as the clock has not stepped back
\* it does not move updated_at back either, and leaves the two in order:
\* whatever earlier puts of the key, abandoned ones and overlapping ones
\* included, have done to it, in whichever backend.
SerialPutKeepsTimes ==
  [][\A k \in Keys \ contended, b \in Backends : Overwrites(b, k) =>
       /\ \/ store'[b][k].created_at = Latest(k).created_at
          \/ /\ b = "rocksdb" /\ store[b][k] = None
             /\ store'[b][k].created_at = store'[b][k].updated_at
       /\ ticked # "back" => /\ Latest(k).updated_at <= store'[b][k].updated_at
                             /\ store'[b][k].created_at <= store'[b][k].updated_at]_vars

\* What README.md says of Put: created_at is preserved across overwrites.
CreatedAtPreserved ==
  [][\A k \in Keys, b \in Backends : Overwrites(b, k) =>
       store'[b][k].created_at = Latest(k).created_at]_vars

\* Every put costs one read and one write: the writes counted, and those on
\* their way, are never more than the reads counted.
ReadsCoverWrites ==
  counters["writes"]
    + Cardinality({h \in Handlers :
                     rpc[h].pc \in {"put_put", "put_abandoned", "put_count"}})
  <= counters["reads"]

\* The four numbers of an answer may never have held together, but each of them
\* did at some time during the call: what was counted before it is in them.  So
\* more writes than reads are shown only if reads were counted meanwhile.
StatsFromTheCall ==
  stats # NoStats /\ stats.left = {} =>
    /\ \A f \in Counters : stats.begun[f] <= stats.got[f] /\ stats.got[f] <= counters[f]
    /\ stats.got["writes"] + stats.begun["reads"] <= stats.got["reads"] + counters["reads"]
=============================================================================
