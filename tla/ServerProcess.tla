---------------------------- MODULE ServerProcess ----------------------------
(***************************************************************************)
(* src/src/main.rs: the life of the process, from the configuration to the *)
(* exit code, around the requests it serves and their closures.  This is   *)
(* the process without Kafka: its storage is RocksDbBackend; the start     *)
(* with Kafka and its drain are in StorageManager.                         *)
(*                                                                         *)
(* The handlers of SIGINT and SIGTERM are installed when tonic first polls *)
(* the future of shutdown_signal, after the listener is bound: before that *)
(* a signal kills the process, after the first one it is ignored.  When    *)
(* main has returned, the runtime is dropped: a blocking closure that has  *)
(* begun is waited for, one that is still queued never runs.               *)
(***************************************************************************)
EXTENDS RocksDbBackend

VARIABLES
  stage,  \* how far main has come
  exit    \* how the last process ended, if one has

svars == <<stage, exit>>

Up == {"serving", "signalled", "draining", "closing"}

\* Requests and closures are there only in a process that has begun to serve,
\* and nobody waits for an answer from one that is about to exit.
ServerTypeOK ==
  /\ stage \in {"down", "loading", "opening", "binding"} \cup Up
  /\ exit \in {"none", "success", "failure", "killed"}
  /\ stage \notin Up => \A c \in Callers : job[c] = NoJob
  /\ stage = "closing" => \A c \in Callers : ~job[c].awaited

SInit == Init /\ stage = "down" /\ exit = "none"

End(how) == stage' = "down" /\ exit' = how /\ Crash

Goto(from, to) == stage = from /\ stage' = to /\ UNCHANGED <<exit, vars>>
-----------------------------------------------------------------------------
(* Starting: each step but the first may fail and end main. *)

Start == Goto("down", "loading")

\* Config::load: defaults without a file; unreadable or malformed, an error.
Load == Goto("loading", "opening")

\* StorageManager::new with Kafka disabled: RocksDbBackend::open.
Open == Goto("opening", "binding")

\* The reflection service, the address and the listener.
Bind == Goto("binding", "serving")

StartFails == stage \in {"loading", "opening", "binding"} /\ End("failure")
-----------------------------------------------------------------------------
(* Requests: accepted until tonic knows of the shutdown, the five seconds  *)
(* after the signal included; those accepted run on in every later stage.  *)

\* Variant: the listener stays open during the drain.
AcceptWhileDraining(c, op, k, v) ==
  /\ stage \in {"serving", "signalled", "draining"}
  /\ Spawn(c, op, k, v)
  /\ UNCHANGED svars

Accept(c, op, k, v) ==
  /\ stage \in {"serving", "signalled"}
  /\ Spawn(c, op, k, v)
  /\ UNCHANGED svars

Closure(c) == Run(c) /\ UNCHANGED svars

Answer(c) == Join(c) /\ UNCHANGED svars

ClientLeaves(c) == Abandon(c) /\ UNCHANGED svars
-----------------------------------------------------------------------------
(* Stopping *)

\* A signal, or a handler that could not be installed.
Signalled == Goto("serving", "signalled")

\* shutdown_signal returns: its log says "forcing termination", but tonic only
\* begins to drain, without any further limit.
TimerEnds == Goto("signalled", "draining")

\* Variant: the end of the timer does force termination.
DrainedAtOnce == Goto("draining", "closing")

\* Every connection is closed: no accepted request waits for its answer.
Drained == (\A c \in Callers : ~job[c].awaited) /\ Goto("draining", "closing")

\* tokio drops the runtime only when no blocking closure is running.
RuntimeIdle == \A c \in Callers : job[c].pc # "probed"

\* main has returned Ok.
Exit == stage = "closing" /\ RuntimeIdle /\ End("success")

\* SIGKILL, an abort, or a signal before the handlers are there.
Killed == stage # "down" /\ End("killed")
-----------------------------------------------------------------------------
SNext ==
  \/ Start \/ Load \/ Open \/ Bind \/ StartFails
  \/ \E c \in Callers :
        \/ \E k \in Keys :
              \/ Accept(c, "get", k, None)
              \/ \E v \in Values : Accept(c, "put", k, v)
              \/ Accept(c, "delete", k, None)
        \/ Closure(c) \/ Answer(c) \/ ClientLeaves(c)
  \/ Signalled \/ TimerEnds \/ Drained \/ Exit
  \/ Killed

SSpec == SInit /\ [][SNext]_<<vars, svars>>

\* The timer fires, tonic and the runtime notice when there is nothing left to
\* wait for, closures run and the requests that await them go on.  Nobody is
\* obliged to start a process, to stop one, or to leave it alone.
SFairSpec ==
  /\ SSpec
  /\ WF_<<vars, svars>>(TimerEnds)
  /\ WF_<<vars, svars>>(Drained)
  /\ WF_<<vars, svars>>(Exit)
  /\ \A c \in Callers :
        WF_<<vars, svars>>(Closure(c)) /\ WF_<<vars, svars>>(Answer(c))
-----------------------------------------------------------------------------
\* A process that was signalled ends, though it goes on accepting requests for
\* five seconds and sets no limit to the drain: nothing that it waits for can
\* be added to for ever.
ShutdownEnds == stage \in {"signalled", "draining", "closing"} ~> stage = "down"
=============================================================================
