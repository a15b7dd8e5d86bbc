--------------------------- MODULE KafkaCoherence ---------------------------
(***************************************************************************)
(* When is the cache of KafkaBackend what a restart would rebuild?  This   *)
(* module adds two history variables to KafkaBackend, which the code does  *)
(* not have, to say for which keys the answer is "whenever no call on the  *)
(* key is in flight".                                                      *)
(***************************************************************************)
EXTENDS KafkaBackend

VARIABLES
  overlapped,  \* keys on which two calls were in flight together since Open
  unsettled    \* keys with a record whose fate no caller was told since Open

hvars == <<overlapped, unsettled>>

InFlight(k) == {c \in Callers : InCall(c) /\ call[c].record.key = k}

HistoryTypeOK ==
  /\ TypeOK
  /\ overlapped \in SUBSET Keys
  /\ unsettled \in SUBSET Keys

HInit == Init /\ overlapped = {} /\ unsettled = {}

HOpen ==
  /\ Open
  /\ overlapped' = {}
  /\ unsettled' = {r.key : r \in wire}

HProduce(c, k) ==
  /\ \/ \E v \in Values : Put(c, k, v)
     \/ Delete(c, k)
  /\ overlapped' = IF InFlight(k) = {} THEN overlapped ELSE overlapped \cup {k}
  /\ UNCHANGED unsettled

HUnacked(c) ==
  /\ Unacked(c)
  /\ unsettled' = unsettled \cup {call[c].record.key}
  /\ UNCHANGED overlapped

HNext ==
  \/ HOpen
  \/ Crash /\ UNCHANGED hvars
  \/ \E c \in Callers :
        \/ \E k \in Keys : HProduce(c, k)
        \/ Acked(c) /\ UNCHANGED hvars
        \/ HUnacked(c)
        \/ BrokerAppend(c) /\ UNCHANGED hvars
        \/ Resend(c) /\ UNCHANGED hvars
  \/ \E r \in Record : LateAppend(r) /\ UNCHANGED hvars

HSpec == HInit /\ [][HNext]_<<vars, hvars>>
-----------------------------------------------------------------------------
\* With no call on k in flight, the cache holds the last logged write of k:
\* a restart would rebuild the same entry.
Coherent(k) == InFlight(k) = {} => Get(k) = LastWrite(log, k)

\* The cache equals the replay of the topic for every key whose writes came
\* one after the other and were all acknowledged, whatever happens to the
\* other keys and however often the client library sends a record again.
SerialKeysCoherent ==
  opened => \A k \in Keys \ (overlapped \cup unsettled) : Coherent(k)

\* What the module comment of kafka.rs promises of a single writer: the cache
\* follows the topic once every write was acknowledged, overlapping or not.
AckedKeysCoherent ==
  opened => \A k \in Keys \ unsettled : Coherent(k)
=============================================================================
