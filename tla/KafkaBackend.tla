---------------------------- MODULE KafkaBackend ----------------------------
(***************************************************************************)
(* src/src/storage/kafka.rs: a topic of one partition, and an in-memory    *)
(* map that is rebuilt from it when the backend is opened and that every   *)
(* acknowledged write updates afterwards.                                  *)
(*                                                                         *)
(* The map is protected by a lock, but the lock is not held across the     *)
(* await of the produce call: between the broker's append and the update   *)
(* of the map any other caller may run.  The broker and the client library *)
(* are outside the repository.  They are modelled by what produce can mean *)
(* to its caller: the record is appended, or not, or later; the caller     *)
(* gets an acknowledgement, an error, or goes away before either.          *)
(***************************************************************************)
EXTENDS Topic, FiniteSets

CONSTANTS
  Callers,  \* the tasks that may have a call in the backend
  MaxLog    \* bound: the longest topic explored

ASSUME KafkaAssumption == MaxLog \in Nat

VARIABLES
  log,      \* the records of the partition, in offset order
  wire,     \* records on their way to the broker that nobody waits for
  opened,   \* does a KafkaBackend value exist in this process?
  cache,    \* KafkaBackend.cache
  call      \* call[c]: the produce call of caller c, if it has one

vars == <<log, wire, opened, cache, call>>

NoCall == [pc |-> "idle", record |-> [key |-> None, value |-> None]]

Call == {NoCall} \cup [pc : {"produce", "appended"}, record : Record]

TypeOK ==
  /\ log \in Seq(Record)
  /\ wire \in SUBSET Record
  /\ opened \in BOOLEAN
  /\ cache \in [Keys -> Values \cup {None}]
  /\ call \in [Callers -> Call]

Init ==
  /\ log = <<>>
  /\ wire = {}
  /\ opened = FALSE
  /\ cache = EmptyCache
  /\ call = [c \in Callers |-> NoCall]

InCall(c) == call[c].pc # "idle"

\* Variant: the end of a call leaves its record behind.
ReturnKeepsRecord(c) == call' = [call EXCEPT ![c].pc = "idle"]

\* The call of c ends, in whatever way.
Return(c) == call' = [call EXCEPT ![c] = NoCall]
-----------------------------------------------------------------------------
\* A successful open: connect, create the topic if missing, load the cache.
Open ==
  /\ ~opened
  /\ opened' = TRUE
  /\ cache' = Replay(log)
  /\ UNCHANGED <<log, wire, call>>

\* get: the entry under the read lock.
Get(k) == cache[k]

\* produce: the record is handed to the client library.
Produce(c, r) ==
  /\ opened
  /\ ~InCall(c)
  /\ Len(log) < MaxLog
  /\ call' = [call EXCEPT ![c] = [pc |-> "produce", record |-> r]]
  /\ UNCHANGED <<log, wire, opened, cache>>

\* put, up to its await.
Put(c, k, v) == Produce(c, [key |-> k, value |-> v])

\* Variant: the key is removed from the map before the tombstone is produced.
DeleteRemovesFirst(c, k) ==
  /\ opened
  /\ ~InCall(c)
  /\ cache[k] # None
  /\ Len(log) < MaxLog
  /\ call' = [call EXCEPT ![c] =
                [pc |-> "produce", record |-> [key |-> k, value |-> None]]]
  /\ cache' = [cache EXCEPT ![k] = None]
  /\ UNCHANGED <<log, wire, opened>>

\* delete, up to its await: contains_key decides, and a missing key is
\* answered with Ok(false) without a record.
Delete(c, k) ==
  /\ cache[k] # None
  /\ Produce(c, [key |-> k, value |-> None])

DeleteAbsent(k) == opened /\ cache[k] = None

\* Variants: the map is updated without waiting for the acknowledgement; an
\* acknowledged delete leaves the entry in the map.
AckedEarly(c) ==
  /\ InCall(c)
  /\ cache' = ApplyRecord(cache, call[c].record)
  /\ Return(c)
  /\ UNCHANGED <<log, wire, opened>>

AckedPutOnly(c) ==
  /\ call[c].pc = "appended"
  /\ cache' = IF call[c].record.value = None THEN cache
              ELSE ApplyRecord(cache, call[c].record)
  /\ Return(c)
  /\ UNCHANGED <<log, wire, opened>>

\* The produce call of c was acknowledged: put inserts the entry into the
\* cache, delete removes the key, and the call returns Ok.
Acked(c) ==
  /\ call[c].pc = "appended"
  /\ cache' = ApplyRecord(cache, call[c].record)
  /\ Return(c)
  /\ UNCHANGED <<log, wire, opened>>

\* Variant: the map is updated in spite of the error.
UnackedUpdates(c) ==
  /\ InCall(c)
  /\ cache' = ApplyRecord(cache, call[c].record)
  /\ Return(c)
  /\ UNCHANGED <<log, wire, opened>>

\* The produce call of c ends without an acknowledgement: it returned an
\* error, or the future that awaited it was dropped.  The cache is not
\* touched.  A record the broker has not appended may still reach it.
Unacked(c) ==
  /\ InCall(c)
  /\ Return(c)
  /\ \/ UNCHANGED wire
     \/ /\ call[c].pc = "produce"
        /\ wire' = wire \cup {call[c].record}
  /\ UNCHANGED <<log, opened, cache>>

\* The process ends: cache and calls are gone, records already sent are not.
Crash ==
  /\ opened' = FALSE
  /\ cache' = EmptyCache
  /\ call' = [c \in Callers |-> NoCall]
  /\ \E lost \in SUBSET {c \in Callers : call[c].pc = "produce"} :
        wire' = wire \cup {call[c].record : c \in lost}
  /\ UNCHANGED log
-----------------------------------------------------------------------------
\* The broker appends the record of c.
BrokerAppend(c) ==
  /\ call[c].pc = "produce"
  /\ Len(log) < MaxLog
  /\ log' = Append(log, call[c].record)
  /\ call' = [call EXCEPT ![c].pc = "appended"]
  /\ UNCHANGED <<wire, opened, cache>>

\* The acknowledgement is lost and the client library sends the record again.
Resend(c) ==
  /\ call[c].pc = "appended"
  /\ call' = [call EXCEPT ![c].pc = "produce"]
  /\ UNCHANGED <<log, wire, opened, cache>>

\* A record that nobody waits for any more reaches the broker.
LateAppend(r) ==
  /\ r \in wire
  /\ Len(log) < MaxLog
  /\ log' = Append(log, r)
  /\ wire' = wire \ {r}
  /\ UNCHANGED <<opened, cache, call>>
-----------------------------------------------------------------------------
Next ==
  \/ Open
  \/ Crash
  \/ \E c \in Callers :
        \/ \E k \in Keys, v \in Values : Put(c, k, v)
        \/ \E k \in Keys : Delete(c, k)
        \/ Acked(c)
        \/ Unacked(c)
        \/ BrokerAppend(c)
        \/ Resend(c)
  \/ \E r \in Record : LateAppend(r)

Spec == Init /\ [][Next]_vars
-----------------------------------------------------------------------------
\* An entry that a reader can see in the cache has been logged with exactly
\* that value: put inserts it only after produce was acknowledged, so that a
\* restart finds a record of everything that was ever served.
ReadsAreLogged ==
  opened => \A k \in Keys : Get(k) # None => Logged(log, k, Get(k))

\* While the backend is open, every change of the cache, the removal by a
\* delete included, is to a value that was in the topic before the step.
ChangesAreLogged ==
  [][opened /\ opened' =>
       \A k \in Keys : Get(k)' # Get(k) => Logged(log, k, Get(k)')]_vars

Contract == INSTANCE Storage WITH
  map <- cache, pending <- [c \in Callers |-> call[c].record], Durable <- FALSE

\* KafkaBackend implements the trait Storage: what readers find changes at most
\* once for every put and delete, as it was asked for, however often the client
\* library sends the record and whether or not others write between the
\* produce call and its acknowledgement.
ImplementsStorage == Contract!Spec
=============================================================================
