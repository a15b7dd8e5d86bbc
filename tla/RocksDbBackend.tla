--------------------------- MODULE RocksDbBackend ---------------------------
(***************************************************************************)
(* src/src/storage/rocksdb.rs: the embedded database.  Every operation is  *)
(* a closure handed to spawn_blocking; the request awaits it.  A request   *)
(* that is dropped stops waiting, but its closure runs on.  The database   *)
(* itself is outside the repository: a map that survives a crash of the    *)
(* process and whose single calls are atomic.  A delete is two of them.    *)
(***************************************************************************)
CONSTANTS
  Keys,     \* storage keys
  Values,   \* encoded entries
  None,     \* no entry
  Callers   \* the tasks that may have a closure running

ASSUME RocksAssumption == None \notin Keys \cup Values

VARIABLES
  db,       \* the entries on disk
  job       \* job[c]: the closure spawned by c, if there is one

vars == <<db, job>>

NoJob == [op |-> "none", pc |-> "idle", key |-> None, value |-> None, awaited |-> FALSE]

\* "probed": a delete has found the entry; "absent": it has found none, its
\* answer is Ok(false).  A get leaves the entry it found in the value field.
Job ==
  {NoJob} \cup
  [op : {"get", "put", "delete"}, pc : {"start", "probed", "done", "absent", "failed"},
   key : Keys, value : Values \cup {None}, awaited : BOOLEAN]

Ended == {"done", "absent", "failed"}

TypeOK ==
  /\ db \in [Keys -> Values \cup {None}]
  /\ job \in [Callers -> Job]

Init ==
  /\ db = [k \in Keys |-> None]
  /\ job = [c \in Callers |-> NoJob]

Idle(c) == job[c].pc = "idle"
-----------------------------------------------------------------------------
\* get, put and delete up to their await.
Spawn(c, op, k, v) ==
  /\ Idle(c)
  /\ job' = [job EXCEPT ![c] =
       [op |-> op, pc |-> "start", key |-> k, value |-> v, awaited |-> TRUE]]
  /\ UNCHANGED db

\* The closure of c ends; with nobody waiting its result is dropped.
Finish(c, pc, v) ==
  job' = [job EXCEPT ![c] =
            IF job[c].awaited THEN [job[c] EXCEPT !.pc = pc, !.value = v] ELSE NoJob]

RunGet(c) ==
  /\ job[c].op = "get" /\ job[c].pc = "start"
  /\ Finish(c, "done", db[job[c].key])
  /\ UNCHANGED db

RunPut(c) ==
  /\ job[c].op = "put" /\ job[c].pc = "start"
  /\ db' = [db EXCEPT ![job[c].key] = job[c].value]
  /\ Finish(c, "done", job[c].value)

\* delete: the existence probe ...
Probe(c) ==
  /\ job[c].op = "delete" /\ job[c].pc = "start"
  /\ IF db[job[c].key] = None
     THEN Finish(c, "absent", None)
     ELSE job' = [job EXCEPT ![c].pc = "probed"]
  /\ UNCHANGED db

\* ... and the removal, in a second call of the same closure.
RunDelete(c) ==
  /\ job[c].pc = "probed"
  /\ db' = [db EXCEPT ![job[c].key] = None]
  /\ Finish(c, "done", None)

\* A call of the database returns an error, or the closure panics.
JobFails(c) ==
  /\ job[c].pc \in {"start", "probed"}
  /\ Finish(c, "failed", None)
  /\ UNCHANGED db

Run(c) == RunGet(c) \/ RunPut(c) \/ Probe(c) \/ RunDelete(c) \/ JobFails(c)

\* Variant: the slot of a finished closure is not cleared.
JoinKeepsJob(c) ==
  /\ job[c].pc \in Ended
  /\ job' = [job EXCEPT ![c].pc = "idle"]
  /\ UNCHANGED db

\* The awaiting request takes the result.
Join(c) ==
  /\ job[c].pc \in Ended
  /\ job' = [job EXCEPT ![c] = NoJob]
  /\ UNCHANGED db

\* The request is dropped while it waits.
Abandon(c) ==
  /\ job[c].awaited
  /\ job' = [job EXCEPT ![c] =
               IF job[c].pc \in Ended THEN NoJob ELSE [job[c] EXCEPT !.awaited = FALSE]]
  /\ UNCHANGED db

\* Variant: what was written is only in memory.
CrashForgets ==
  /\ job' = [c \in Callers |-> NoJob]
  /\ db' = [k \in Keys |-> None]

\* The process ends in the middle of whatever its closures were doing.
Crash ==
  /\ job' = [c \in Callers |-> NoJob]
  /\ UNCHANGED db
-----------------------------------------------------------------------------
Next ==
  \/ Crash
  \/ \E c \in Callers :
        \/ \E k \in Keys :
              \/ Spawn(c, "get", k, None)
              \/ \E v \in Values : Spawn(c, "put", k, v)
              \/ Spawn(c, "delete", k, None)
        \/ Run(c)
        \/ Join(c)
        \/ Abandon(c)

Spec == Init /\ [][Next]_vars
-----------------------------------------------------------------------------
\* The write that the closure of c may still make.
PendingWrite(c) ==
  IF job[c].op \in {"put", "delete"} /\ job[c].pc \in {"start", "probed"}
  THEN [key |-> job[c].key, value |-> job[c].value]
  ELSE [key |-> None, value |-> None]

Contract == INSTANCE Storage WITH
  map <- db, pending <- [c \in Callers |-> PendingWrite(c)], Durable <- TRUE

\* RocksDbBackend implements the trait Storage: though a delete is two calls of
\* the database and a closure outlives its request, every write happens at most
\* once, as it was asked for, and only a call makes one.
ImplementsStorage == Contract!Spec
=============================================================================
