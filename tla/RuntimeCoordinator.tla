------------------------- MODULE RuntimeCoordinator --------------------------
(***************************************************************************)
(* One process: RuntimeCoordinator starts its workers in order and, on a   *)
(* signal, a close, a fatal worker or a failed start, stops them in        *)
(* reverse, all at once, drains them for a grace period and closes the     *)
(* application (the container with its database pool).                     *)
(*                                                                         *)
(* A worker's start or stop may succeed, fail or never return.  A start    *)
(* that the abort meets, or that is invoked after it, does not bring the   *)
(* worker up.                                                              *)
(***************************************************************************)
EXTENDS Naturals, Sequences, SequencesExt

CONSTANT Workers        \* in start order

ASSUME WorkersAssumption == Workers \in Seq(STRING) /\ IsInjective(Workers)

VARIABLES
  lifecycle,    \* state
  starting,     \* startWorkers: none, running, returned or failed
  attempted,    \* how many workers startWorkers has pushed
  up,           \* a worker: none, starting, running, ended or failed
  stopping,     \* its stop: none, pending, done or failed
  drained,      \* stopAll: no, drained or timeout
  closing,      \* applicationClose: none, pending, done or failed
  expired,      \* the grace period is over
  signals       \* none, first, second: the latter ends the process

coordVars == <<lifecycle, starting, attempted, up, stopping, drained, closing,
               expired, signals>>

Worker == ToSet(Workers)
Attempted == {Workers[i] : i \in 1..attempted}

CoordTypeOK ==
  /\ lifecycle \in {"idle", "starting", "running", "stopping", "stopped", "exited"}
  /\ starting \in {"none", "running", "returned", "failed"}
  /\ attempted \in 0..Len(Workers)
  /\ up \in [Worker -> {"none", "starting", "running", "ended", "failed"}]
  /\ stopping \in [Worker -> {"none", "pending", "done", "failed"}]
  /\ drained \in {"no", "drained", "timeout"}
  /\ closing \in {"none", "pending", "done", "failed"}
  /\ expired \in BOOLEAN /\ signals \in {"none", "first", "second"}

CoordInit ==
  /\ lifecycle = "idle" /\ starting = "none" /\ attempted = 0
  /\ up = [w \in Worker |-> "none"] /\ stopping = [w \in Worker |-> "none"]
  /\ drained = "no" /\ closing = "none" /\ expired = FALSE /\ signals = "none"

Aborted == lifecycle \in {"stopping", "stopped", "exited"}

(* requestStop: once.  The abort and the stops of the workers attempted so  *)
(* far are one synchronous stretch.                                         *)
RequestStop ==
  IF Aborted THEN UNCHANGED <<lifecycle, stopping>>
  ELSE /\ lifecycle' = "stopping"
       /\ stopping' = [w \in Worker |-> IF w \in Attempted THEN "pending" ELSE "none"]

-----------------------------------------------------------------------------
(* Start *)

Start ==
  /\ lifecycle = "idle" /\ lifecycle' = "starting" /\ starting' = "running"
  /\ UNCHANGED <<attempted, up, stopping, drained, closing, expired, signals>>

(* Mutant: the abort signal is not looked at between two workers. *)
StartWorkerAnyway ==
  /\ starting = "running" /\ \A w \in Attempted : up[w] # "starting"
  /\ IF attempted = Len(Workers)
     THEN /\ starting' = "returned"
          /\ lifecycle' = IF lifecycle = "starting" THEN "running" ELSE lifecycle
          /\ UNCHANGED <<attempted, up>>
     ELSE /\ attempted' = attempted + 1
          /\ up' = [up EXCEPT ![Workers[attempted + 1]] = "starting"]
          /\ UNCHANGED <<starting, lifecycle>>
  /\ UNCHANGED <<stopping, drained, closing, expired, signals>>

(* The next worker is pushed and its start invoked. *)
StartWorker ==
  /\ starting = "running" /\ \A w \in Attempted : up[w] # "starting"
  /\ IF Aborted \/ attempted = Len(Workers)
     THEN /\ starting' = "returned"
          /\ lifecycle' = IF lifecycle = "starting" THEN "running" ELSE lifecycle
          /\ UNCHANGED <<attempted, up>>
     ELSE /\ attempted' = attempted + 1
          /\ up' = [up EXCEPT ![Workers[attempted + 1]] = "starting"]
          /\ UNCHANGED <<starting, lifecycle>>
  /\ UNCHANGED <<stopping, drained, closing, expired, signals>>

WorkerStarts(w) ==
  /\ up[w] = "starting"
  /\ up' = [up EXCEPT ![w] = IF Aborted THEN "ended" ELSE "running"]
  /\ UNCHANGED <<lifecycle, starting, attempted, stopping, drained, closing,
                 expired, signals>>

(* A failed start is a stop request. *)
WorkerFailsToStart(w) ==
  /\ up[w] = "starting" /\ starting = "running"
  /\ up' = [up EXCEPT ![w] = "failed"] /\ starting' = "failed" /\ RequestStop
  /\ UNCHANGED <<attempted, drained, closing, expired, signals>>

-----------------------------------------------------------------------------
(* Stop *)

(* reportFatal of a worker that breaks while it runs. *)
ReportFatal(w) ==
  /\ up[w] = "running" /\ up' = [up EXCEPT ![w] = "failed"] /\ RequestStop
  /\ UNCHANGED <<starting, attempted, drained, closing, expired, signals>>

CoordinatorClose ==
  /\ lifecycle \in {"starting", "running"} /\ RequestStop
  /\ UNCHANGED <<starting, attempted, up, drained, closing, expired, signals>>

(* Mutant: signals after the first are counted and ignored. *)
SignalCounted ==
  /\ lifecycle \in {"starting", "running", "stopping"} /\ signals # "third"
  /\ signals' = CASE signals = "none" -> "first" [] signals = "first" -> "second"
                  [] OTHER -> "third"
  /\ RequestStop
  /\ UNCHANGED <<starting, attempted, up, drained, closing, expired>>

(* The second signal ends the process, unless all is stopped already. *)
Signal ==
  /\ lifecycle \in {"starting", "running", "stopping"}
  /\ CASE signals = "none" -> signals' = "first" /\ RequestStop
       [] signals = "first" ->
            signals' = "second" /\ lifecycle' = "exited" /\ UNCHANGED stopping
       [] OTHER -> FALSE
  /\ UNCHANGED <<starting, attempted, up, drained, closing, expired>>

WorkerStops(w) ==
  /\ stopping[w] = "pending" /\ lifecycle # "exited"
  /\ \/ /\ stopping' = [stopping EXCEPT ![w] = "done"]
        /\ up' = [up EXCEPT ![w] = IF @ = "running" THEN "ended" ELSE @]
     \/ stopping' = [stopping EXCEPT ![w] = "failed"] /\ UNCHANGED up
  /\ UNCHANGED <<lifecycle, starting, attempted, drained, closing, expired, signals>>

GraceEnds ==
  /\ lifecycle = "stopping" /\ ~expired /\ expired' = TRUE
  /\ UNCHANGED <<lifecycle, starting, attempted, up, stopping, drained, closing,
                 signals>>

(* Mutant: the stops are not waited for. *)
SettledStarts == starting # "running"

Settled ==
  /\ starting # "running"
  /\ \A w \in Worker : stopping[w] # "pending"

(* Either everything drained or the time is up; then the application is     *)
(* closed.                                                                  *)
CloseApplication ==
  /\ lifecycle = "stopping" /\ drained = "no"
  /\ \/ Settled /\ drained' = "drained"
     \/ expired /\ drained' = "timeout"
  /\ closing' = "pending"
  /\ UNCHANGED <<lifecycle, starting, attempted, up, stopping, expired, signals>>

ApplicationCloses ==
  /\ closing = "pending" /\ lifecycle # "exited"
  /\ \E how \in {"done", "failed"} : closing' = how
  /\ UNCHANGED <<lifecycle, starting, attempted, up, stopping, drained, expired,
                 signals>>

(* Mutant: the close of the application is waited for without end. *)
StopAllEndsClosed ==
  /\ lifecycle = "stopping" /\ drained # "no" /\ closing # "pending"
  /\ lifecycle' = "stopped"
  /\ UNCHANGED <<starting, attempted, up, stopping, drained, closing, expired, signals>>

StopAllEnds ==
  /\ lifecycle = "stopping" /\ drained # "no"
  /\ closing # "pending" \/ expired
  /\ lifecycle' = "stopped"
  /\ UNCHANGED <<starting, attempted, up, stopping, drained, closing, expired, signals>>

CoordNext ==
  \/ Start \/ StartWorker \/ CoordinatorClose \/ Signal \/ GraceEnds
  \/ CloseApplication \/ ApplicationCloses \/ StopAllEnds
  \/ \E w \in Worker : \/ WorkerStarts(w) \/ WorkerFailsToStart(w)
                       \/ ReportFatal(w) \/ WorkerStops(w)

CoordSpec == CoordInit /\ [][CoordNext]_coordVars

(* The event loop goes on and the timer of the grace period fires; workers  *)
(* need not return.                                                         *)
CoordFairness ==
  /\ WF_coordVars(GraceEnds) /\ WF_coordVars(CloseApplication)
  /\ WF_coordVars(StopAllEnds)

CoordFairSpec == CoordSpec /\ CoordFairness

-----------------------------------------------------------------------------
(* What the coordinator promises *)

(* The database pool is not closed under a worker: while the grace period   *)
(* lasts every worker has ended by then or had its stop or start fail.      *)
PoolOutlivesWorkers ==
  closing # "none" /\ drained = "drained" =>
    \A w \in Worker : up[w] = "running" => stopping[w] = "failed"

(* Every worker whose start was invoked is asked to stop, those under way   *)
(* when the stop came included, and none is started after it.               *)
EveryStartIsStopped ==
  lifecycle \in {"stopping", "stopped"} =>
    \A w \in Attempted : stopping[w] # "none"

(* A stop ends, whether or not workers and the application return. *)
StopEnds == []<>(lifecycle # "stopping")

(* A stop reaches every worker and comes before the pool is closed.         *)
CoordinatorPromise == PoolOutlivesWorkers /\ EveryStartIsStopped
=============================================================================
