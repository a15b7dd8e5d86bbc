------------------------------ MODULE Storage ------------------------------
(***************************************************************************)
(* The trait Storage (src/src/storage/mod.rs), as far as its writes go:    *)
(* what StorageManager relies on, whichever backend it calls.  A put or a  *)
(* delete changes the map at most once, at its own key, to its own value,  *)
(* after it began; it may end without a change; nothing else changes the   *)
(* map while the process lives.                                            *)
(***************************************************************************)
CONSTANTS
  Keys,
  Values,
  None,
  Callers,
  Durable  \* does the map itself outlive the process?

VARIABLES
  map,     \* the entries a read finds
  pending  \* pending[c]: the write of c that may still happen

vars == <<map, pending>>

Idle == [key |-> None, value |-> None]

Maps == [Keys -> Values \cup {None}]

Init ==
  /\ map \in Maps
  /\ pending = [c \in Callers |-> Idle]

\* put is called with an entry, delete with None.
Call(c, k, v) ==
  /\ pending[c] = Idle
  /\ pending' = [pending EXCEPT ![c] = [key |-> k, value |-> v]]
  /\ UNCHANGED map

Effect(c) ==
  /\ pending[c] # Idle
  /\ map' = [map EXCEPT ![pending[c].key] = pending[c].value]
  /\ pending' = [pending EXCEPT ![c] = Idle]

\* There was nothing to delete, or an error, or nobody waits any more.
NoEffect(c) ==
  /\ pending' = [pending EXCEPT ![c] = Idle]
  /\ UNCHANGED map

Restart ==
  /\ pending' = [c \in Callers |-> Idle]
  /\ map' \in Maps
  /\ Durable => map' = map

Next ==
  \/ Restart
  \/ \E c \in Callers :
        \/ \E k \in Keys, v \in Values \cup {None} : Call(c, k, v)
        \/ Effect(c)
        \/ NoEffect(c)

Spec == Init /\ [][Next]_vars
=============================================================================
