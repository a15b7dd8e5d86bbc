------------------------ MODULE AvailabilityManager ------------------------
(***************************************************************************)
(* src/src/storage/availability.rs: the flag that says whether Kafka is    *)
(* the active backend, and the task that watches the broker.  The answer   *)
(* of a probe is a parameter: the broker is part of StorageManager.        *)
(***************************************************************************)
VARIABLES
  kafka_available,  \* the shared AtomicBool; FALSE as well when no manager exists
  watcher           \* the health task: "none", "ticking" or "probing"

vars == <<kafka_available, watcher>>

TypeOK ==
  /\ kafka_available \in BOOLEAN
  /\ watcher \in {"none", "ticking", "probing"}

Init == kafka_available = FALSE /\ watcher = "none"

Disabled == kafka_available' = FALSE /\ watcher' = "none"

Watching == kafka_available' = TRUE /\ watcher' = "ticking"

\* Variant: every tick gives Kafka another chance.
TickRearms ==
  /\ watcher = "ticking"
  /\ kafka_available' = TRUE
  /\ watcher' = "probing"

\* A tick of the interval.  With the flag already off there is nothing to do.
Tick ==
  /\ watcher = "ticking"
  /\ kafka_available
  /\ watcher' = "probing"
  /\ UNCHANGED kafka_available

\* Variant: a failed probe is logged and nothing else.
ProbedLogsOnly(ok) ==
  /\ watcher = "probing"
  /\ watcher' = "ticking"
  /\ UNCHANGED kafka_available

\* check_connection answers.
Probed(ok) ==
  /\ watcher = "probing"
  /\ kafka_available' = (kafka_available /\ ok)
  /\ watcher' = "ticking"

\* The process ends.
Stop == kafka_available' = FALSE /\ watcher' = "none"

Next == Disabled \/ Watching \/ Tick \/ (\E ok \in BOOLEAN : Probed(ok)) \/ Stop

Spec == Init /\ [][Next]_vars
=============================================================================
