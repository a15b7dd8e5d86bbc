--------------------------- MODULE RocksTheorems ---------------------------
(***************************************************************************)
(* RocksDbBackend for any set of callers, keys and entries: the types, and *)
(* that closures which may be dropped, fail or run on beside each other    *)
(* implement the contract Storage.  And ServerProcess around it: the       *)
(* database keeps that contract through starts, shutdowns and kills, and   *)
(* requests exist only while the process is up.                            *)
(***************************************************************************)
EXTENDS ServerProcess, TLAPS

\* The inductive invariant: a delete writes None, and only a delete is ever
\* between its probe and its removal.
RocksInv ==
  /\ TypeOK
  /\ \A c \in Callers : /\ job[c].op = "delete" => job[c].value = None
                        /\ job[c].pc = "probed" => job[c].op = "delete"

LEMMA RocksInit == Init => RocksInv
  BY DEF Init, RocksInv, TypeOK, Job, NoJob

\* One slot of a step changes, to something that satisfies the invariant.
LEMMA RocksSlot ==
  ASSUME RocksInv, NEW c \in Callers, NEW j \in Job,
         job' = [job EXCEPT ![c] = j], db' \in [Keys -> Values \cup {None}],
         j.op = "delete" => j.value = None,
         j.pc = "probed" => j.op = "delete"
  PROVE  RocksInv'
  BY DEF RocksInv, TypeOK

\* The closure of c ends, awaited or not.
LEMMA RocksFinish ==
  ASSUME RocksInv, NEW c \in Callers, NEW pc \in Ended, NEW v \in Values \cup {None},
         job[c] # NoJob, job[c].op = "delete" => v = None,
         Finish(c, pc, v), db' \in [Keys -> Values \cup {None}]
  PROVE  RocksInv'
<1> DEFINE j == IF job[c].awaited THEN [job[c] EXCEPT !.pc = pc, !.value = v] ELSE NoJob
<1>1. job[c] \in Job /\ job[c] # NoJob
  BY DEF RocksInv, TypeOK
<1>2. j \in Job /\ (j.op = "delete" => j.value = None) /\ j.pc # "probed"
  BY <1>1 DEF Job, NoJob, Ended
<1>3. job' = [job EXCEPT ![c] = j]
  BY DEF Finish
<1> HIDE DEF j
<1> QED
  BY <1>2, <1>3, RocksSlot

LEMMA RocksStep == RocksInv /\ [Next]_vars => RocksInv'
<1> SUFFICES ASSUME RocksInv, [Next]_vars PROVE RocksInv'
  OBVIOUS
<1>0. /\ db \in [Keys -> Values \cup {None}]
      /\ \A c \in Callers : job[c] \in Job
      /\ NoJob \in Job
  BY DEF RocksInv, TypeOK, Job
<1>1. CASE Crash
  BY <1>0, <1>1 DEF Crash, RocksInv, TypeOK, NoJob
<1>2. ASSUME NEW c \in Callers, NEW op \in {"get", "put", "delete"}, NEW k \in Keys,
             NEW v \in Values \cup {None}, op = "delete" => v = None, Spawn(c, op, k, v)
      PROVE  RocksInv'
  <2> DEFINE j == [op |-> op, pc |-> "start", key |-> k, value |-> v, awaited |-> TRUE]
  <2>1. j \in Job /\ (j.op = "delete" => j.value = None) /\ j.pc # "probed"
    BY <1>2 DEF Job
  <2>2. job' = [job EXCEPT ![c] = j] /\ db' = db
    BY <1>2 DEF Spawn
  <2> HIDE DEF j
  <2> QED
    BY <1>0, <2>1, <2>2, RocksSlot
<1>3. ASSUME NEW c \in Callers, RunGet(c)
      PROVE  RocksInv'
  <2>1. job[c] # NoJob /\ job[c].key \in Keys /\ job[c].op = "get"
    BY <1>0, <1>3 DEF RunGet, Job, NoJob
  <2> QED
    BY <1>0, <1>3, <2>1, RocksFinish DEF RunGet, Ended
<1>4. ASSUME NEW c \in Callers, RunPut(c)
      PROVE  RocksInv'
  <2>1. job[c] # NoJob /\ job[c].op = "put" /\ job[c].value \in Values \cup {None}
    BY <1>0, <1>4 DEF RunPut, Job, NoJob
  <2>2. db' \in [Keys -> Values \cup {None}]
    BY <1>0, <1>4, <2>1 DEF RunPut
  <2> QED
    BY <1>4, <2>1, <2>2, RocksFinish DEF RunPut, Ended
<1>5. ASSUME NEW c \in Callers, Probe(c)
      PROVE  RocksInv'
  <2>1. job[c] # NoJob /\ job[c].op = "delete" /\ db' = db
    BY <1>5 DEF Probe, NoJob
  <2>2. CASE Finish(c, "absent", None)
    BY <1>0, <2>1, <2>2, RocksFinish DEF Ended
  <2>3. CASE job' = [job EXCEPT ![c].pc = "probed"]
    <3> DEFINE j == [job[c] EXCEPT !.pc = "probed"]
    <3>1. j \in Job /\ j.op = "delete" /\ j.value = None
      BY <1>0, <2>1 DEF Job, NoJob, RocksInv
    <3>2. job' = [job EXCEPT ![c] = j]
      BY <2>3
    <3> HIDE DEF j
    <3> QED
      BY <1>0, <2>1, <3>1, <3>2, RocksSlot
  <2> QED
    BY <1>5, <2>2, <2>3 DEF Probe
<1>6. ASSUME NEW c \in Callers, RunDelete(c)
      PROVE  RocksInv'
  <2>1. job[c] # NoJob
    BY <1>6 DEF RunDelete, NoJob
  <2>2. db' \in [Keys -> Values \cup {None}]
    BY <1>0, <1>6 DEF RunDelete
  <2> QED
    BY <1>6, <2>1, <2>2, RocksFinish DEF RunDelete, Ended
<1>7. ASSUME NEW c \in Callers, JobFails(c)
      PROVE  RocksInv'
  <2>1. job[c] # NoJob
    BY <1>7 DEF JobFails, NoJob
  <2> QED
    BY <1>0, <1>7, <2>1, RocksFinish DEF JobFails, Ended
<1>8. ASSUME NEW c \in Callers, Join(c)
      PROVE  RocksInv'
  <2>1. NoJob.op # "delete" /\ NoJob.pc # "probed"
    BY DEF NoJob
  <2>2. job' = [job EXCEPT ![c] = NoJob] /\ db' = db
    BY <1>8 DEF Join
  <2> QED
    BY <1>0, <2>1, <2>2, RocksSlot
<1>9. ASSUME NEW c \in Callers, Abandon(c)
      PROVE  RocksInv'
  <2> DEFINE j == IF job[c].pc \in Ended THEN NoJob ELSE [job[c] EXCEPT !.awaited = FALSE]
  <2>1. /\ j \in Job /\ (j.op = "delete" => j.value = None)
        /\ j.pc = "probed" => j.op = "delete"
    <3>1. CASE job[c].pc \in Ended
      BY <1>0, <3>1 DEF NoJob
    <3>2. CASE job[c].pc \notin Ended
      <4>1. job[c] # NoJob
        BY <1>9 DEF Abandon, NoJob
      <4>2. /\ j \in Job /\ j.op = job[c].op /\ j.value = job[c].value /\ j.pc = job[c].pc
        BY <1>0, <3>2, <4>1 DEF Job
      <4> QED
        BY <4>2 DEF RocksInv
    <3> QED
      BY <3>1, <3>2
  <2>2. job' = [job EXCEPT ![c] = j] /\ db' = db
    BY <1>9 DEF Abandon
  <2> HIDE DEF j
  <2> QED
    BY <1>0, <2>1, <2>2, RocksSlot
<1>10. CASE UNCHANGED vars
  BY <1>10 DEF vars, RocksInv, TypeOK
<1> QED
  BY <1>1, <1>2, <1>3, <1>4, <1>5, <1>6, <1>7, <1>8, <1>9, <1>10 DEF Next, Run

LEMMA RocksInvariant == Spec => []RocksInv
  BY RocksInit, RocksStep, PTL DEF Spec

\* The database and the closures keep their types.
THEOREM RocksTypeOK == Spec => []TypeOK
  BY RocksInvariant, PTL DEF RocksInv

\* The database implements the contract of the trait Storage, with a map that
\* outlives the process: a closure that has not written is a write that may
\* happen, also when its request is gone; its write is the effect; a probe that
\* finds nothing and an error end it without one.
THEOREM RocksImplementsStorage == Spec => ImplementsStorage
<1> DEFINE idle == [key |-> None, value |-> None]
           pending == [c \in Callers |-> PendingWrite(c)]
<1>1. Init => Contract!Init
  BY DEF Init, Contract!Init, Contract!Maps, Contract!Idle, PendingWrite, NoJob
<1>2. RocksInv /\ [Next]_vars => [Contract!Next]_Contract!vars
  <2> SUFFICES ASSUME RocksInv, [Next]_vars
               PROVE  Contract!Next \/ UNCHANGED <<db, pending>>
    BY DEF Contract!vars
  <2>0. /\ db \in [Keys -> Values \cup {None}]
        /\ job \in [Callers -> Job]
        /\ \A c \in Callers : job[c] \in Job
    BY DEF RocksInv, TypeOK
  <2>1. CASE Crash
    BY <2>1 DEF Crash, Contract!Next, Contract!Restart, Contract!Idle, PendingWrite, NoJob,
                RocksInv, TypeOK, Contract!Maps
  <2>2. ASSUME NEW c \in Callers, NEW j, job' = [job EXCEPT ![c] = j]
        PROVE  /\ pending' = [pending EXCEPT ![c] = PendingWrite(c)']
               /\ job'[c] = j
    BY <2>0, <2>2 DEF PendingWrite
  <2>3. ASSUME NEW c \in Callers, NEW k \in Keys, Spawn(c, "get", k, None)
        PROVE  UNCHANGED <<db, pending>>
    BY <2>0, <2>2, <2>3 DEF Spawn, Idle, PendingWrite
  <2>4. ASSUME NEW c \in Callers, NEW op \in {"put", "delete"}, NEW k \in Keys,
               NEW v \in Values \cup {None}, Spawn(c, op, k, v)
        PROVE  Contract!Call(c, k, v)
    <3>1. pending[c] = idle
      BY <2>4 DEF Spawn, Idle, PendingWrite
    <3>2. PendingWrite(c)' = [key |-> k, value |-> v]
      BY <2>0, <2>4 DEF Spawn, PendingWrite
    <3> QED
      BY <2>2, <2>4, <3>1, <3>2 DEF Spawn, Contract!Call, Contract!Idle
  <2>5. ASSUME NEW c \in Callers, NEW pc \in Ended, NEW v, Finish(c, pc, v)
        PROVE  pending' = [pending EXCEPT ![c] = idle]
    <3>1. PendingWrite(c)' = idle
      BY <2>0, <2>5 DEF Finish, PendingWrite, Ended, Job, NoJob
    <3> QED
      BY <2>2, <2>5, <3>1 DEF Finish
  <2>6. ASSUME NEW c \in Callers, RunGet(c)
        PROVE  Contract!NoEffect(c)
    BY <2>5, <2>6 DEF RunGet, Ended, Contract!NoEffect, Contract!Idle
  <2>7. ASSUME NEW c \in Callers, RunPut(c) \/ RunDelete(c)
        PROVE  Contract!Effect(c)
    <3>1. pending' = [pending EXCEPT ![c] = idle]
      BY <2>5, <2>7 DEF RunPut, RunDelete, Ended
    <3>2. /\ pending[c] = [key |-> job[c].key, value |-> job[c].value]
          /\ job[c].key \in Keys
      BY <2>0, <2>7 DEF RunPut, RunDelete, PendingWrite, RocksInv, Job, NoJob
    <3>3. db' = [db EXCEPT ![job[c].key] = job[c].value]
      BY <2>7 DEF RunPut, RunDelete, RocksInv
    <3>4. pending[c] # idle
      <4>1. job[c].key # None
        BY <3>2, RocksAssumption
      <4> QED
        BY <3>2, <4>1
    <3>5. /\ pending[c].key = job[c].key /\ pending[c].value = job[c].value
      BY <3>2
    <3> QED
      BY <3>1, <3>3, <3>4, <3>5, Zenon DEF Contract!Effect, Contract!Idle
  <2>8. ASSUME NEW c \in Callers, Probe(c)
        PROVE  Contract!NoEffect(c) \/ UNCHANGED <<db, pending>>
    <3>1. CASE Finish(c, "absent", None)
      BY <2>5, <2>8, <3>1 DEF Probe, Ended, Contract!NoEffect, Contract!Idle
    <3>2. CASE job' = [job EXCEPT ![c].pc = "probed"]
      <4>1. /\ job' = [job EXCEPT ![c] = [job[c] EXCEPT !.pc = "probed"]]
        BY <3>2
      <4>2. PendingWrite(c)' = PendingWrite(c)
        BY <2>0, <2>8, <4>1 DEF Probe, PendingWrite, Job, NoJob
      <4>3. pending' = [pending EXCEPT ![c] = PendingWrite(c)]
        BY <2>2, <4>1, <4>2
      <4> QED
        BY <2>8, <4>3 DEF Probe
    <3> QED
      BY <2>8, <3>1, <3>2 DEF Probe
  <2>9. ASSUME NEW c \in Callers, JobFails(c)
        PROVE  Contract!NoEffect(c)
    BY <2>5, <2>9 DEF JobFails, Ended, Contract!NoEffect, Contract!Idle
  <2>10. ASSUME NEW c \in Callers, Join(c) \/ Abandon(c)
         PROVE  UNCHANGED <<db, pending>>
    <3>1. PendingWrite(c)' = PendingWrite(c)
      BY <2>0, <2>10 DEF Join, Abandon, PendingWrite, Ended, Job, NoJob
    <3>2. PICK j : job' = [job EXCEPT ![c] = j]
      BY <2>10 DEF Join, Abandon
    <3>3. pending' = [pending EXCEPT ![c] = PendingWrite(c)]
      BY <2>2, <3>1, <3>2
    <3> QED
      BY <2>10, <3>3 DEF Join, Abandon
  <2>11. CASE UNCHANGED vars
    BY <2>11 DEF vars, PendingWrite
  <2> QED
    BY <2>1, <2>3, <2>4, <2>6, <2>7, <2>8, <2>9, <2>10, <2>11
       DEF Next, Run, Contract!Next
<1> QED
  BY <1>1, <1>2, RocksInvariant, PTL DEF Spec, ImplementsStorage, Contract!Spec
-----------------------------------------------------------------------------
(* The process around the database: ServerProcess *)

allvars == <<vars, svars>>

\* The steps of the process are steps of its database, or leave it alone.
LEMMA ServerRocksStep == [SNext]_allvars => [Next]_vars
<1> SUFFICES ASSUME [SNext]_allvars PROVE [Next]_vars
  OBVIOUS
<1>1. CASE Start \/ Load \/ Open \/ Bind \/ Signalled \/ TimerEnds \/ Drained
           \/ UNCHANGED allvars
  BY <1>1 DEF Start, Load, Open, Bind, Signalled, TimerEnds, Drained, Goto, allvars
<1>2. CASE StartFails \/ Exit \/ Killed
  BY <1>2 DEF StartFails, Exit, Killed, End, Next
<1>3. ASSUME NEW c \in Callers,
             \/ \E k \in Keys :
                  \/ Accept(c, "get", k, None)
                  \/ \E v \in Values : Accept(c, "put", k, v)
                  \/ Accept(c, "delete", k, None)
             \/ Closure(c) \/ Answer(c) \/ ClientLeaves(c)
      PROVE  Next
  BY <1>3 DEF Accept, Closure, Answer, ClientLeaves, Next
<1> QED
  BY <1>1, <1>2, <1>3 DEF SNext

\* Every behaviour of the process, seen through the database's variables, is
\* one of RocksDbBackend.
THEOREM ServerRunsRocks == SSpec => Spec
<1>1. SInit => Init
  BY DEF SInit
<1> QED
  BY <1>1, ServerRocksStep, PTL DEF SSpec, Spec, allvars

\* So the process as a whole keeps the contract of the trait Storage: no start,
\* shutdown or kill makes or repeats a write that was not asked for.
THEOREM ServerImplementsStorage == SSpec => ImplementsStorage
  BY ServerRunsRocks, RocksImplementsStorage, PTL

\* The inductive invariant: the types of the database are needed to follow the
\* slots of the closures.
ServerInv == RocksInv /\ ServerTypeOK

LEMMA ServerInit == SInit => ServerInv
  BY RocksInit DEF SInit, ServerInv, ServerTypeOK, Init, Up

\* A closure does not begin to be awaited by running, ending, or being left.
LEMMA ServerJobStep ==
  ASSUME ServerInv, NEW c \in Callers, Closure(c) \/ Answer(c) \/ ClientLeaves(c)
  PROVE  ServerTypeOK'
<1>0. job \in [Callers -> Job]
  BY DEF ServerInv, RocksInv, TypeOK
<1>1. /\ stage' = stage /\ exit' = exit
      /\ \A d \in Callers \ {c} : job'[d] = job[d]
      /\ job'[c].awaited => job[c].awaited
      /\ job[c] # NoJob
  BY <1>0 DEF Closure, Answer, ClientLeaves, Run, RunGet, RunPut, Probe, RunDelete,
              JobFails, Join, Abandon, Finish, Job, NoJob, Ended, svars
<1> QED
  BY <1>1 DEF ServerInv, ServerTypeOK

LEMMA ServerStep == ServerInv /\ [SNext]_allvars => ServerInv'
<1> SUFFICES ASSUME ServerInv, [SNext]_allvars PROVE ServerInv'
  OBVIOUS
<1>0. RocksInv'
  BY ServerRocksStep, RocksStep DEF ServerInv
<1>1. CASE Start \/ Load \/ Open \/ Bind \/ Signalled \/ TimerEnds
  BY <1>1, <1>0 DEF Start, Load, Open, Bind, Signalled, TimerEnds, Goto, ServerInv,
                    ServerTypeOK, Up, vars
<1>2. CASE Drained
  BY <1>2, <1>0 DEF Drained, Goto, ServerInv, ServerTypeOK, Up, vars
<1>3. CASE StartFails \/ Exit \/ Killed
  BY <1>3, <1>0 DEF StartFails, Exit, Killed, End, Crash, ServerInv, ServerTypeOK, Up
<1>4. ASSUME NEW c \in Callers, NEW op, NEW k, NEW v, Accept(c, op, k, v)
      PROVE  ServerInv'
  BY <1>4, <1>0 DEF Accept, ServerInv, ServerTypeOK, Up, svars
<1>5. ASSUME NEW c \in Callers, Closure(c) \/ Answer(c) \/ ClientLeaves(c)
      PROVE  ServerInv'
  BY <1>5, <1>0, ServerJobStep DEF ServerInv
<1>6. CASE UNCHANGED allvars
  BY <1>6, <1>0 DEF allvars, vars, svars, ServerInv, ServerTypeOK
<1> QED
  BY <1>1, <1>2, <1>3, <1>4, <1>5, <1>6 DEF SNext

\* Requests and closures exist only while the process is up, and none of them
\* is awaited once it is closing.
THEOREM ServerTypes == SSpec => []ServerTypeOK
  BY ServerInit, ServerStep, PTL DEF SSpec, ServerInv, allvars
=============================================================================
