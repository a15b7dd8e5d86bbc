--------------------------- MODULE KafkaTheorems ---------------------------
(***************************************************************************)
(* KafkaBackend for any set of callers, keys and entries, and a topic of   *)
(* any length: the type invariant, what readers see is in the topic, and   *)
(* the backend implements the contract Storage.  And KafkaCoherence: the   *)
(* map is what a restart would rebuild, for every key whose calls were     *)
(* acknowledged and did not overlap.                                       *)
(***************************************************************************)
EXTENDS KafkaCoherence, TopicTheorems

\* The inductive invariant.  The three middle conjuncts are what a step needs
\* to know: a topic has a last record of every key it has a record of, there
\* are no calls without a backend, and an acknowledgement is only given for a
\* record that is in the topic.
KafkaInv ==
  /\ TypeOK
  /\ \A k \in Keys : HasLast(log, 1, Len(log), k)
  /\ ~opened => \A c \in Callers : call[c] = NoCall
  /\ \A c \in Callers : call[c].pc = "appended" =>
       Logged(log, call[c].record.key, call[c].record.value)
  /\ ReadsAreLogged

\* A logged record is still logged when another record has been appended.
LEMMA LoggedAppend ==
  ASSUME NEW l \in Seq(Record), NEW r \in Record
  PROVE  /\ \A k, v : Logged(l, k, v) => Logged(Append(l, r), k, v)
         /\ Logged(Append(l, r), r.key, r.value)
<1>1. Logged(Append(l, r), r.key, r.value)
  <2>1. Append(l, r)[Len(l) + 1] = r /\ Len(Append(l, r)) = Len(l) + 1
    OBVIOUS
  <2>2. r = [key |-> r.key, value |-> r.value]
    BY DEF Record
  <2> QED
    BY <2>1, <2>2 DEF Logged
<1>2. ASSUME NEW k, NEW v, Logged(l, k, v)
      PROVE  Logged(Append(l, r), k, v)
  <2>1. PICK i \in 1 .. Len(l) : l[i] = [key |-> k, value |-> v]
    BY <1>2 DEF Logged
  <2>2. Append(l, r)[i] = l[i] /\ i \in 1 .. Len(Append(l, r))
    OBVIOUS
  <2> QED
    BY <2>1, <2>2 DEF Logged
<1> QED
  BY <1>1, <1>2

\* What a call in the backend looks like.
LEMMA CallType ==
  ASSUME TypeOK, NEW c \in Callers
  PROVE  /\ call[c] = NoCall \/ InCall(c)
         /\ InCall(c) => /\ call[c].pc \in {"produce", "appended"}
                         /\ call[c].record \in Record
                         /\ call[c].record.key \in Keys
                         /\ call[c].record.value \in Values \cup {None}
<1>1. call[c] \in Call
  BY DEF TypeOK
<1> QED
  BY <1>1 DEF Call, NoCall, InCall, Record

\* A call that goes on stays a call.
LEMMA SetPc ==
  ASSUME TypeOK, NEW c \in Callers, InCall(c), NEW pc \in {"produce", "appended"}
  PROVE  [call[c] EXCEPT !.pc = pc] \in Call
<1>1. call[c] \in [pc : {"produce", "appended"}, record : Record]
  <2>1. call[c] \in Call /\ call[c].pc # "idle"
    BY DEF TypeOK, InCall
  <2> QED
    BY <2>1 DEF Call, NoCall
<1> QED
  BY <1>1 DEF Call

\* Initially.
LEMMA KafkaInit == Init => KafkaInv
<1> SUFFICES ASSUME Init PROVE KafkaInv
  OBVIOUS
<1>1. TypeOK
  <2>1. log \in Seq(Record)
    BY DEF Init
  <2>5. wire \in SUBSET Record /\ opened \in BOOLEAN
    BY DEF Init
  <2>2. cache \in [Keys -> Values \cup {None}]
    BY DEF Init, EmptyCache
  <2>3. NoCall \in Call
    BY DEF Call
  <2>4. call \in [Callers -> Call]
    BY <2>3 DEF Init
  <2> QED
    BY <2>1, <2>2, <2>4, <2>5 DEF TypeOK
<1>2. ASSUME NEW k \in Keys PROVE HasLast(log, 1, Len(log), k)
  BY LastInEmpty DEF Init
<1>3. opened = FALSE /\ \A c \in Callers : call[c] = NoCall /\ call[c].pc = "idle"
  BY DEF Init, NoCall
<1>4. ReadsAreLogged
  BY <1>3 DEF ReadsAreLogged
<1> QED
  BY <1>1, <1>2, <1>3, <1>4 DEF KafkaInv

\* Every step of Next, and every step that leaves the variables alone.
LEMMA KafkaStep == KafkaInv /\ [Next]_vars => KafkaInv'
<1> SUFFICES ASSUME KafkaInv, [Next]_vars PROVE KafkaInv'
  OBVIOUS
<1> USE DEF KafkaInv
<1>1. CASE Open
  <2>1. log' = log /\ call' = call /\ wire' = wire /\ opened' = TRUE /\ cache' = Replay(log)
    BY <1>1 DEF Open
  <2>2. \A k \in Keys : LastWrite(log, k) \in Values \cup {None}
                        /\ (LastWrite(log, k) # None => Logged(log, k, LastWrite(log, k)))
    <3> SUFFICES ASSUME NEW k \in Keys
                 PROVE  LastWrite(log, k) \in Values \cup {None}
                        /\ (LastWrite(log, k) # None => Logged(log, k, LastWrite(log, k)))
      OBVIOUS
    <3>1. 1 \in Nat /\ Len(log) \in Nat /\ HasLast(log, 1, Len(log), k)
      BY DEF TypeOK
    <3> QED
      BY <3>1, LastInLogged, ZenonT(30) DEF LastWrite, Logged
  <2>3. cache' \in [Keys -> Values \cup {None}] /\ \A k \in Keys : cache'[k] = LastWrite(log, k)
    BY <2>1, <2>2 DEF Replay
  <2>4. TypeOK'
    BY <2>1, <2>3 DEF TypeOK
  <2>5. ReadsAreLogged'
    BY <2>1, <2>2, <2>3 DEF ReadsAreLogged, Get
  <2> QED
    BY <2>1, <2>4, <2>5
<1>2. CASE Crash
  <2>1. /\ log' = log /\ opened' = FALSE /\ cache' = EmptyCache
        /\ call' = [c \in Callers |-> NoCall]
    BY <1>2 DEF Crash
  <2>2. wire' \in SUBSET Record
    <3>1. PICK lost \in SUBSET {c \in Callers : call[c].pc = "produce"} :
            wire' = wire \cup {call[c].record : c \in lost}
      BY <1>2 DEF Crash
    <3>2. \A c \in lost : call[c].record \in Record
      BY CallType DEF InCall
    <3> QED
      BY <3>1, <3>2 DEF TypeOK
  <2>3. TypeOK'
    BY <2>1, <2>2 DEF TypeOK, EmptyCache, Call
  <2> QED
    BY <2>1, <2>3 DEF ReadsAreLogged, NoCall
<1>3. ASSUME NEW c \in Callers, NEW r \in Record, Produce(c, r)
      PROVE  KafkaInv'
  <2>1. /\ log' = log /\ wire' = wire /\ opened' = opened /\ opened /\ cache' = cache
        /\ call' = [call EXCEPT ![c] = [pc |-> "produce", record |-> r]]
    BY <1>3 DEF Produce
  <2>2. TypeOK'
    BY <2>1 DEF TypeOK, Call
  <2>3. \A d \in Callers : call'[d].pc = "appended" => call'[d] = call[d]
    BY <2>1 DEF TypeOK
  <2> QED
    BY <2>1, <2>2, <2>3 DEF ReadsAreLogged, Get
<1>4. ASSUME NEW c \in Callers, Acked(c)
      PROVE  KafkaInv'
  <2> DEFINE r == call[c].record
  <2>1. /\ log' = log /\ wire' = wire /\ opened' = opened
        /\ cache' = [cache EXCEPT ![r.key] = r.value]
        /\ call' = [call EXCEPT ![c] = NoCall]
        /\ call[c].pc = "appended"
    BY <1>4 DEF Acked, Return, ApplyRecord
  <2>2. r \in Record /\ r.key \in Keys /\ r.value \in Values \cup {None}
    BY <2>1, CallType DEF InCall
  <2>3. TypeOK'
    BY <2>1, <2>2 DEF TypeOK, Call
  <2>4. \A d \in Callers : call'[d].pc = "appended" => call'[d] = call[d]
    BY <2>1 DEF TypeOK, NoCall
  <2>5. Logged(log, r.key, r.value)
    BY <2>1
  <2>6. ReadsAreLogged'
    BY <2>1, <2>2, <2>5 DEF ReadsAreLogged, Get, TypeOK
  <2>7. opened' \/ \A d \in Callers : call'[d] = NoCall
    BY <2>1 DEF TypeOK
  <2> QED
    BY <2>1, <2>3, <2>4, <2>6, <2>7
<1>5. ASSUME NEW c \in Callers, Unacked(c)
      PROVE  KafkaInv'
  <2>1. /\ log' = log /\ opened' = opened /\ cache' = cache
        /\ call' = [call EXCEPT ![c] = NoCall]
        /\ wire' = wire \/ wire' = wire \cup {call[c].record}
        /\ InCall(c)
    BY <1>5 DEF Unacked, Return
  <2>2. TypeOK'
    BY <2>1, CallType DEF TypeOK, Call
  <2>3. \A d \in Callers : call'[d].pc = "appended" => call'[d] = call[d]
    BY <2>1 DEF TypeOK, NoCall
  <2>4. opened' \/ \A d \in Callers : call'[d] = NoCall
    BY <2>1 DEF TypeOK
  <2> QED
    BY <2>1, <2>2, <2>3, <2>4 DEF ReadsAreLogged, Get
<1>6. ASSUME NEW c \in Callers, BrokerAppend(c)
      PROVE  KafkaInv'
  <2> DEFINE r == call[c].record
  <2>1. /\ log' = Append(log, r) /\ wire' = wire /\ opened' = opened /\ cache' = cache
        /\ call' = [call EXCEPT ![c].pc = "appended"]
        /\ InCall(c)
    BY <1>6 DEF BrokerAppend, InCall
  <2>2. r \in Record /\ log \in Seq(Record)
    BY <2>1, CallType DEF TypeOK
  <2>3. TypeOK'
    <3>1. [call[c] EXCEPT !.pc = "appended"] \in Call
      BY <2>1, SetPc
    <3> QED
      BY <2>1, <2>2, <3>1 DEF TypeOK
  <2>4. \A k \in Keys : HasLast(log', 1, Len(log'), k)
    BY <2>1, <2>2, LastWriteAppend
  <2>5. \A d \in Callers : call'[d].record = call[d].record
                           /\ (call'[d].pc = "appended" => d = c \/ call[d].pc = "appended")
    BY <2>1 DEF TypeOK, Call, NoCall
  <2>6. \A d \in Callers : call'[d].pc = "appended" =>
          Logged(log', call'[d].record.key, call'[d].record.value)
    BY <2>1, <2>2, <2>5, LoggedAppend
  <2>7. ReadsAreLogged'
    BY <2>1, <2>2, LoggedAppend DEF ReadsAreLogged, Get
  <2>8. opened'
    BY <2>1 DEF NoCall, InCall
  <2> QED
    BY <2>3, <2>4, <2>6, <2>7, <2>8
<1>7. ASSUME NEW c \in Callers, Resend(c)
      PROVE  KafkaInv'
  <2>1. /\ log' = log /\ wire' = wire /\ opened' = opened /\ cache' = cache
        /\ call' = [call EXCEPT ![c].pc = "produce"]
        /\ InCall(c)
    BY <1>7 DEF Resend, InCall
  <2>2. TypeOK'
    <3>1. [call[c] EXCEPT !.pc = "produce"] \in Call
      BY <2>1, SetPc
    <3> QED
      BY <2>1, <3>1 DEF TypeOK
  <2>3. \A d \in Callers : call'[d].pc = "appended" => call'[d] = call[d]
    BY <2>1 DEF TypeOK, Call, NoCall
  <2>4. opened'
    BY <2>1 DEF NoCall, InCall
  <2> QED
    BY <2>1, <2>2, <2>3, <2>4 DEF ReadsAreLogged, Get
<1>8. ASSUME NEW r \in Record, LateAppend(r)
      PROVE  KafkaInv'
  <2>1. /\ log' = Append(log, r) /\ wire' = wire \ {r}
        /\ opened' = opened /\ cache' = cache /\ call' = call
    BY <1>8 DEF LateAppend
  <2>2. TypeOK' /\ log \in Seq(Record)
    BY <2>1 DEF TypeOK
  <2>3. \A k \in Keys : HasLast(log', 1, Len(log'), k)
    BY <2>1, <2>2, LastWriteAppend
  <2>4. ReadsAreLogged'
    BY <2>1, <2>2, LoggedAppend DEF ReadsAreLogged, Get
  <2> QED
    BY <2>1, <2>2, <2>3, <2>4, LoggedAppend
<1>9. CASE UNCHANGED vars
  BY <1>9 DEF vars, TypeOK, ReadsAreLogged, Get
<1>10. ASSUME NEW c \in Callers, NEW k \in Keys, NEW v \in Values, Put(c, k, v)
       PROVE  KafkaInv'
  BY <1>3, <1>10 DEF Put, Record
<1>11. ASSUME NEW c \in Callers, NEW k \in Keys, Delete(c, k)
       PROVE  KafkaInv'
  BY <1>3, <1>11 DEF Delete, Record
<1> HIDE DEF KafkaInv
<1> QED
  BY <1>1, <1>2, <1>4, <1>5, <1>6, <1>7, <1>8, <1>9, <1>10, <1>11 DEF Next

LEMMA KafkaInvariant == Spec => []KafkaInv
  BY KafkaInit, KafkaStep, PTL DEF Spec

\* The variables of the backend keep their types.
THEOREM KafkaTypeOK == Spec => []TypeOK
  BY KafkaInvariant, PTL DEF KafkaInv

\* put updates the map only after the acknowledgement, so every entry a reader
\* can see was logged, and a restart finds it in the topic.
THEOREM KafkaReadsAreLogged == Spec => []ReadsAreLogged
  BY KafkaInvariant, PTL DEF KafkaInv

\* Every change of what readers find, by a put or by a delete, is to a value that
\* was in the topic before: the step that changes the map is the one that
\* follows an acknowledgement.
THEOREM KafkaChangesAreLogged == Spec => ChangesAreLogged
<1> DEFINE Step == opened /\ opened' =>
             \A k \in Keys : Get(k)' # Get(k) => Logged(log, k, Get(k)')
<1>1. KafkaInv /\ [Next]_vars => [Step]_vars
  <2> SUFFICES ASSUME KafkaInv, Next, opened, opened',
                      NEW k \in Keys, Get(k)' # Get(k)
               PROVE  Logged(log, k, Get(k)')
    BY DEF vars, Get
  <2>1. PICK c \in Callers : Acked(c)
    BY DEF Next, Open, Crash, Put, Delete, Produce, Unacked, BrokerAppend, Resend,
           LateAppend, Get
  <2>2. /\ cache' = [cache EXCEPT ![call[c].record.key] = call[c].record.value]
        /\ Logged(log, call[c].record.key, call[c].record.value)
    BY <2>1 DEF Acked, ApplyRecord, KafkaInv
  <2> QED
    BY <2>2 DEF Get, KafkaInv, TypeOK
<1> QED
  BY <1>1, KafkaInvariant, PTL DEF Spec, ChangesAreLogged

\* The backend implements the contract of the trait Storage: a call that has
\* been handed to the client library is a write that may happen, Acked is its
\* effect, and everything the broker and the client library do in between is
\* invisible to readers.
THEOREM KafkaImplementsStorage == Spec => ImplementsStorage
<1> DEFINE P(c) == call[c].record
           pending == [c \in Callers |-> call[c].record]
           idle == [key |-> None, value |-> None]
<1>1. Init => Contract!Init
  BY KafkaInit DEF Init, Contract!Init, Contract!Maps, Contract!Idle, EmptyCache, NoCall
<1>2. KafkaInv /\ [Next]_vars => [Contract!Next]_Contract!vars
  <2> SUFFICES ASSUME KafkaInv, [Next]_vars
               PROVE  Contract!Next \/ UNCHANGED <<cache, pending>>
    BY DEF Contract!vars
  <2> USE DEF KafkaInv
  <2>1. CASE Open \/ Crash
    <3>1. pending' = [c \in Callers |-> idle]
      BY <2>1 DEF Open, Crash, NoCall
    <3>2. cache' \in [Keys -> Values \cup {None}]
      BY KafkaStep DEF TypeOK
    <3>3. Contract!Restart
      BY <3>1, <3>2 DEF Contract!Restart, Contract!Maps, Contract!Idle
    <3> QED
      BY <3>3 DEF Contract!Next
  <2>2. ASSUME NEW c \in Callers, NEW k \in Keys, NEW v \in Values \cup {None},
               Produce(c, [key |-> k, value |-> v])
        PROVE  Contract!Call(c, k, v)
    <3>1. call[c] = NoCall
      BY <2>2, CallType DEF Produce
    <3>2. pending[c] = idle
      BY <3>1 DEF NoCall
    <3>3. pending' = [pending EXCEPT ![c] = [key |-> k, value |-> v]]
      BY <2>2 DEF Produce, TypeOK
    <3> QED
      BY <2>2, <3>2, <3>3 DEF Contract!Call, Contract!Idle, Produce
  <2>3. ASSUME NEW c \in Callers, Acked(c)
        PROVE  Contract!Effect(c)
    <3>1. call[c].record.key \in Keys /\ call[c].record \in Record
      BY <2>3, CallType DEF Acked, InCall
    <3>2. pending[c] # idle
      <4>1. call[c].record.key # None
        BY <3>1, NoneAssumption
      <4> QED
        BY <4>1
    <3>3. pending' = [pending EXCEPT ![c] = idle]
      BY <2>3 DEF Acked, Return, TypeOK, NoCall
    <3> QED
      BY <2>3, <3>2, <3>3 DEF Contract!Effect, Contract!Idle, Acked, ApplyRecord
  <2>4. ASSUME NEW c \in Callers, Unacked(c)
        PROVE  Contract!NoEffect(c)
    <3>1. pending' = [pending EXCEPT ![c] = idle]
      BY <2>4 DEF Unacked, Return, TypeOK, NoCall
    <3> QED
      BY <2>4, <3>1 DEF Contract!NoEffect, Contract!Idle, Unacked
  <2>5. ASSUME NEW c \in Callers, BrokerAppend(c) \/ Resend(c)
        PROVE  UNCHANGED <<cache, pending>>
    <3>1. \A d \in Callers : call'[d].record = call[d].record
      BY <2>5 DEF BrokerAppend, Resend, TypeOK, Call, NoCall
    <3> QED
      BY <2>5, <3>1 DEF BrokerAppend, Resend
  <2>6. ASSUME NEW r \in Record, LateAppend(r)
        PROVE  UNCHANGED <<cache, pending>>
    BY <2>6 DEF LateAppend
  <2>7. CASE UNCHANGED vars
    BY <2>7 DEF vars
  <2> QED
    BY <2>1, <2>2, <2>3, <2>4, <2>5, <2>6, <2>7
       DEF Next, Put, Delete, Contract!Next
<1> QED
  BY <1>1, <1>2, KafkaInvariant, PTL DEF Spec, ImplementsStorage, Contract!Spec
-----------------------------------------------------------------------------
(* The map and the topic: KafkaCoherence *)

\* What is known of such a key while a call on it is in flight: there is only
\* one, nothing else of the key is on the wire, and the last record of the key
\* is the one that is being written or the one the map already has.
Settled(k) ==
  /\ \A c, d \in Callers : InCall(c) /\ InCall(d) /\ call[c].record.key = k
                           /\ call[d].record.key = k => c = d
  /\ \A r \in wire : r.key # k
  /\ (\A c \in Callers : ~(InCall(c) /\ call[c].record.key = k)) =>
        cache[k] = LastWrite(log, k)
  /\ \A c \in Callers : InCall(c) /\ call[c].record.key = k =>
        \/ LastWrite(log, k) = call[c].record.value
        \/ call[c].pc = "produce" /\ LastWrite(log, k) = cache[k]

CoherenceInv ==
  opened => \A k \in Keys \ (overlapped \cup unsettled) : Settled(k)

\* The history variables observe KafkaBackend and do not restrict it.
LEMMA HistoryOnly == HSpec => Spec
<1>1. HInit => Init
  BY DEF HInit
<1>2. [HNext]_<<vars, hvars>> => [Next]_vars
  <2> SUFFICES ASSUME HNext PROVE Next
    BY DEF vars, hvars
  <2> QED
    BY DEF HNext, Next, HOpen, HProduce, HUnacked
<1> QED
  BY <1>1, <1>2, PTL DEF HSpec, Spec

\* The steps that keep k settled: all but a call that overlaps with another on
\* k, a call on k that ends unacknowledged, and a restart.
Quiet(k) ==
  \/ \E c \in Callers, r \in Record :
        /\ Produce(c, r)
        /\ r.key = k => \A d \in Callers : ~(InCall(d) /\ call[d].record.key = k)
  \/ \E c \in Callers : Unacked(c) /\ call[c].record.key # k
  \/ \E c \in Callers : Acked(c) \/ BrokerAppend(c) \/ Resend(c)
  \/ \E r \in Record : LateAppend(r)

LEMMA SettledStep ==
  ASSUME KafkaInv, NEW k \in Keys, Settled(k), Quiet(k)
  PROVE  Settled(k)'
<1> DEFINE On(c) == InCall(c) /\ call[c].record.key = k
<1>0. TypeOK /\ HasLast(log, 1, Len(log), k)
  BY DEF KafkaInv
<1>1. ASSUME NEW c \in Callers, NEW r \in Record, Produce(c, r),
             r.key = k => \A d \in Callers : ~On(d)
      PROVE  Settled(k)'
  <2>1. /\ log' = log /\ wire' = wire /\ cache' = cache /\ ~InCall(c)
        /\ call' = [call EXCEPT ![c] = [pc |-> "produce", record |-> r]]
    BY <1>1 DEF Produce
  <2>2. /\ \A d \in Callers : d # c => call'[d] = call[d]
        /\ call'[c].pc = "produce" /\ call'[c].record = r
    BY <1>0, <2>1 DEF TypeOK
  <2>3. CASE r.key = k
    <3>1. \A d \in Callers : ~On(d)
      BY <1>1, <2>3
    <3>2. cache[k] = LastWrite(log, k)
      BY <3>1 DEF Settled
    <3> QED
      BY <2>1, <2>2, <2>3, <3>1, <3>2 DEF Settled, InCall
  <2>4. CASE r.key # k
    BY <2>1, <2>2, <2>4 DEF Settled, InCall
  <2> QED
    BY <2>3, <2>4
<1>2. ASSUME NEW c \in Callers, Acked(c)
      PROVE  Settled(k)'
  <2> DEFINE r == call[c].record
  <2>1. /\ log' = log /\ wire' = wire /\ call[c].pc = "appended"
        /\ cache' = [cache EXCEPT ![r.key] = r.value]
        /\ call' = [call EXCEPT ![c] = NoCall]
    BY <1>2 DEF Acked, Return, ApplyRecord
  <2>2. InCall(c) /\ r.key \in Keys
    BY <1>0, <2>1, CallType DEF InCall
  <2>3. /\ \A d \in Callers : d # c => call'[d] = call[d]
        /\ call'[c].pc = "idle"
    BY <1>0, <2>1 DEF TypeOK, NoCall
  <2>4. CASE r.key = k
    <3>1. \A d \in Callers : d # c => ~On(d)
      BY <2>2, <2>4 DEF Settled
    <3>2. LastWrite(log, k) = r.value
      BY <2>1, <2>2, <2>4 DEF Settled
    <3>3. cache'[k] = r.value
      BY <1>0, <2>1, <2>4 DEF TypeOK
    <3> QED
      BY <2>1, <2>3, <3>1, <3>2, <3>3 DEF Settled, InCall
  <2>5. CASE r.key # k
    <3>1. cache'[k] = cache[k]
      BY <1>0, <2>1, <2>5 DEF TypeOK
    <3>2. \A d \in Callers : On(d) => d # c
      BY <2>5
    <3> QED
      BY <2>1, <2>3, <2>5, <3>1, <3>2 DEF Settled, InCall
  <2> QED
    BY <2>4, <2>5
<1>3. ASSUME NEW c \in Callers, Unacked(c), call[c].record.key # k
      PROVE  Settled(k)'
  <2> DEFINE r == call[c].record
  <2>1. /\ log' = log /\ cache' = cache /\ r.key # k
        /\ call' = [call EXCEPT ![c] = NoCall]
        /\ wire' = wire \/ wire' = wire \cup {r}
    BY <1>3 DEF Unacked, Return
  <2>2. /\ \A d \in Callers : d # c => call'[d] = call[d]
        /\ call'[c].pc = "idle"
    BY <1>0, <2>1 DEF TypeOK, NoCall
  <2> QED
    BY <2>1, <2>2 DEF Settled, InCall
<1>4. ASSUME NEW r \in Record, NEW l, l = Append(log, r)
      PROVE  LastWrite(l, k) = IF r.key = k THEN r.value ELSE LastWrite(log, k)
  <2>1. log \in Seq(Record)
    BY <1>0 DEF TypeOK
  <2> QED
    BY <1>0, <1>4, <2>1, LastWriteAppend
<1>5. ASSUME NEW c \in Callers, BrokerAppend(c)
      PROVE  Settled(k)'
  <2> DEFINE r == call[c].record
  <2>1. /\ log' = Append(log, r) /\ cache' = cache /\ wire' = wire
        /\ call' = [call EXCEPT ![c].pc = "appended"]
        /\ call[c].pc = "produce"
    BY <1>5 DEF BrokerAppend
  <2>2. InCall(c) /\ r \in Record
    BY <1>0, <2>1, CallType DEF InCall
  <2>3. /\ \A d \in Callers : call'[d].record = call[d].record
        /\ \A d \in Callers : d # c => call'[d] = call[d]
        /\ call'[c].pc = "appended"
    BY <1>0, <2>1 DEF TypeOK, Call, NoCall
  <2>4. \A d \in Callers : InCall(d)' <=> InCall(d)
    BY <2>2, <2>3 DEF InCall
  <2>5. LastWrite(log', k) = IF r.key = k THEN r.value ELSE LastWrite(log, k)
    BY <2>1, <2>2, <1>4
  <2>6. CASE r.key = k
    <3>1. \A d \in Callers : On(d) => d = c
      BY <2>2, <2>6 DEF Settled
    <3> QED
      BY <2>1, <2>2, <2>3, <2>4, <2>5, <2>6, <3>1 DEF Settled
  <2>7. CASE r.key # k
    BY <2>1, <2>2, <2>3, <2>4, <2>5, <2>7 DEF Settled
  <2> QED
    BY <2>6, <2>7
<1>6. ASSUME NEW c \in Callers, Resend(c)
      PROVE  Settled(k)'
  <2>1. /\ log' = log /\ cache' = cache /\ wire' = wire
        /\ call' = [call EXCEPT ![c].pc = "produce"]
        /\ call[c].pc = "appended"
    BY <1>6 DEF Resend
  <2>2. /\ \A d \in Callers : call'[d].record = call[d].record
        /\ \A d \in Callers : d # c => call'[d] = call[d]
        /\ call'[c].pc = "produce"
    BY <1>0, <2>1 DEF TypeOK, Call, NoCall
  <2>3. \A d \in Callers : InCall(d)' <=> InCall(d)
    BY <2>1, <2>2 DEF InCall
  <2> QED
    BY <2>1, <2>2, <2>3 DEF Settled
<1>7. ASSUME NEW r \in Record, LateAppend(r)
      PROVE  Settled(k)'
  <2>1. /\ log' = Append(log, r) /\ cache' = cache /\ call' = call
        /\ wire' = wire \ {r} /\ r \in wire
    BY <1>7 DEF LateAppend
  <2>2. LastWrite(log', k) = LastWrite(log, k)
    BY <2>1, <1>4 DEF Settled
  <2> QED
    BY <2>1, <2>2 DEF Settled, InCall
<1> QED
  BY <1>1, <1>2, <1>3, <1>5, <1>6, <1>7 DEF Quiet

\* Initially there is no backend.
LEMMA CoherenceInit == HInit => CoherenceInv /\ HistoryTypeOK
<1> SUFFICES ASSUME HInit PROVE CoherenceInv /\ HistoryTypeOK
  OBVIOUS
<1>1. Init /\ overlapped = {} /\ unsettled = {}
  BY DEF HInit
<1>2. TypeOK
  BY <1>1, KafkaInit DEF KafkaInv
<1>3. ~opened
  BY <1>1 DEF Init
<1> QED
  BY <1>1, <1>2, <1>3 DEF CoherenceInv, HistoryTypeOK

\* Every step of HNext, and every step that leaves all variables alone.
LEMMA CoherenceStep ==
  KafkaInv /\ KafkaInv' /\ HistoryTypeOK /\ CoherenceInv /\ [HNext]_<<vars, hvars>>
    => HistoryTypeOK' /\ CoherenceInv'
<1> SUFFICES ASSUME KafkaInv, KafkaInv', HistoryTypeOK, CoherenceInv, [HNext]_<<vars, hvars>>
             PROVE  HistoryTypeOK' /\ CoherenceInv'
  OBVIOUS
<1>0. TypeOK /\ TypeOK' /\ overlapped \subseteq Keys /\ unsettled \subseteq Keys
  BY DEF KafkaInv, HistoryTypeOK
<1>1. CASE HOpen
  <2>1. /\ Open /\ opened' /\ log' = log /\ wire' = wire /\ call' = call
        /\ cache' = Replay(log)
        /\ overlapped' = {} /\ unsettled' = {r.key : r \in wire}
    BY <1>1 DEF HOpen, Open
  <2>2. \A c \in Callers : ~InCall(c)'
    BY <2>1 DEF KafkaInv, Open, InCall, NoCall
  <2>3. ASSUME NEW k \in Keys, k \notin unsettled'
        PROVE  Settled(k)'
    <3>1. cache'[k] = LastWrite(log, k)
      BY <2>1 DEF Replay
    <3>2. \A r \in wire : r.key # k
      BY <2>1, <2>3
    <3> QED
      BY <2>1, <2>2, <3>1, <3>2 DEF Settled
  <2>4. unsettled' \subseteq Keys
    BY <1>0, <2>1 DEF TypeOK, Record
  <2> QED
    BY <1>0, <2>1, <2>3, <2>4 DEF CoherenceInv, HistoryTypeOK
<1>2. CASE Crash /\ UNCHANGED hvars
  BY <1>0, <1>2 DEF Crash, CoherenceInv, HistoryTypeOK, hvars
<1>3. ASSUME NEW c \in Callers, NEW j \in Keys, HProduce(c, j)
      PROVE  HistoryTypeOK' /\ CoherenceInv'
  <2>1. PICK r \in Record : r.key = j /\ Produce(c, r)
    BY <1>3 DEF HProduce, Put, Delete, Record
  <2>2. /\ unsettled' = unsettled /\ opened
        /\ overlapped' = IF InFlight(j) = {} THEN overlapped ELSE overlapped \cup {j}
    BY <1>3, <2>1 DEF HProduce, Produce
  <2>3. ASSUME NEW k \in Keys, k \notin overlapped' \cup unsettled'
        PROVE  Settled(k)'
    <3>1. Settled(k)
      BY <2>2, <2>3 DEF CoherenceInv
    <3>2. k = j => \A d \in Callers : ~(InCall(d) /\ call[d].record.key = k)
      BY <2>2, <2>3 DEF InFlight
    <3> QED
      BY <2>1, <3>1, <3>2, SettledStep DEF Quiet
  <2> QED
    BY <1>0, <2>2, <2>3 DEF CoherenceInv, HistoryTypeOK
<1>4. ASSUME NEW c \in Callers, HUnacked(c)
      PROVE  HistoryTypeOK' /\ CoherenceInv'
  <2>1. /\ Unacked(c) /\ opened' = opened /\ overlapped' = overlapped
        /\ unsettled' = unsettled \cup {call[c].record.key}
    BY <1>4 DEF HUnacked, Unacked
  <2>2. call[c].record.key \in Keys
    BY <1>0, <2>1, CallType DEF Unacked
  <2>3. ASSUME NEW k \in Keys, k \notin overlapped' \cup unsettled', opened'
        PROVE  Settled(k)'
    <3>1. Settled(k) /\ call[c].record.key # k
      BY <2>1, <2>3 DEF CoherenceInv
    <3> QED
      BY <2>1, <3>1, SettledStep DEF Quiet
  <2> QED
    BY <1>0, <2>1, <2>2, <2>3 DEF CoherenceInv, HistoryTypeOK
<1>5. ASSUME UNCHANGED hvars,
             \/ \E c \in Callers : Acked(c) \/ BrokerAppend(c) \/ Resend(c)
             \/ \E r \in Record : LateAppend(r)
      PROVE  HistoryTypeOK' /\ CoherenceInv'
  <2>1. overlapped' = overlapped /\ unsettled' = unsettled /\ opened' = opened
    BY <1>5 DEF hvars, Acked, BrokerAppend, Resend, LateAppend
  <2>2. \A k \in Keys : Settled(k) => Settled(k)'
    BY <1>5, SettledStep DEF Quiet
  <2> QED
    BY <1>0, <2>1, <2>2 DEF CoherenceInv, HistoryTypeOK
<1>6. CASE UNCHANGED <<vars, hvars>>
  BY <1>0, <1>6 DEF vars, hvars, CoherenceInv, HistoryTypeOK, Settled, InCall
<1> QED
  BY <1>1, <1>2, <1>3, <1>4, <1>5, <1>6 DEF HNext

LEMMA CoherenceInvariant == HSpec => [](KafkaInv /\ HistoryTypeOK /\ CoherenceInv)
<1>1. HSpec => []KafkaInv
  BY HistoryOnly, KafkaInvariant, PTL
<1> QED
  BY <1>1, CoherenceInit, CoherenceStep, PTL DEF HSpec

\* The types, those of the history included.
THEOREM KafkaHistoryTypeOK == HSpec => []HistoryTypeOK
  BY CoherenceInvariant, PTL

\* The map is the replay of the topic for every key whose calls did not overlap
\* and were all acknowledged, whatever the callers of other keys, the client
\* library and the broker do meanwhile: what README.md calls the single writer
\* is needed for each key on its own, and is enough.
THEOREM KafkaSerialKeysCoherent == HSpec => []SerialKeysCoherent
<1>1. CoherenceInv => SerialKeysCoherent
  BY DEF CoherenceInv, SerialKeysCoherent, Settled, Coherent, InFlight, Get
<1> QED
  BY <1>1, CoherenceInvariant, PTL
=============================================================================
