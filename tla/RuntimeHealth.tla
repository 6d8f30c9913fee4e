---------------------------- MODULE RuntimeHealth ----------------------------
(***************************************************************************)
(* Readiness: the file each RuntimeHealthWorker publishes on a path that   *)
(* runtimes may share, and checkRuntimeHealth, which takes the file for a  *)
(* claim and confirms it.                                                  *)
(*                                                                         *)
(* A runtime has the poller lease when its health worker starts and may    *)
(* lose it later.  Publishes of a worker are serialized; each is one       *)
(* rename.  Runtimes have process ids of their own.                        *)
(***************************************************************************)
EXTENDS Naturals, Sequences

CONSTANTS
  Runtimes, Nobody,
  MaxHealthFaults       \* bound on failed writes and processes that die

ASSUME HealthAssumption == Nobody \notin Runtimes /\ MaxHealthFaults \in Nat

VARIABLES
  file,         \* the readiness file
  pollerLease,  \* the runtime the unexpired lease row names
  health,       \* the health workers
  probe,        \* one probe
  healthFaults

healthVars == <<file, pollerLease, health, probe, healthFaults>>

(* at: starting publishes first, serving has its heartbeat; stop goes       *)
(* through settle (await publishing), mark (owns the file? publish          *)
(* stopping), remove (owns it still?) and unlink, to stopped, where the     *)
(* rest of its process still drains, until it is gone; dead is a crash.     *)
(* chain: publishes that wait; spoiled: a write, a read or the unlink of it *)
(* failed (history).                                                        *)
Draining == {"settle", "mark", "marked", "unlink"}
NoFile == [of |-> Nobody, state |-> "none"]

HealthTypeOK ==
  /\ file \in [of : Runtimes, state : {"ready", "stopping"}] \cup {NoFile}
  /\ pollerLease \in Runtimes \cup {Nobody}
  /\ \A r \in Runtimes :
       /\ health[r].at \in {"down", "starting", "serving", "stopped", "gone", "dead"} \cup Draining
       /\ health[r].chain \in {<<>>, <<"ready">>, <<"stopping">>}
       /\ health[r].published \in BOOLEAN /\ health[r].spoiled \in BOOLEAN
  /\ probe.at \in {"idle", "read", "lease", "healthy", "unhealthy"}
  /\ healthFaults \in 0..MaxHealthFaults

HealthInit ==
  /\ file = NoFile /\ pollerLease = Nobody
  /\ health = [r \in Runtimes |->
       [at |-> "down", chain |-> <<>>, published |-> FALSE, spoiled |-> FALSE]]
  /\ probe = [at |-> "idle", of |-> Nobody, gone |-> {}]
  /\ healthFaults = 0

HealthFault ==
  healthFaults < MaxHealthFaults /\ healthFaults' = healthFaults + 1

StepsTo(r, point) == health' = [health EXCEPT ![r].at = point]
Owns(r) == file.of = r
Alive(r) == health[r].at \notin {"down", "gone", "dead"}

(* ownsPublishedFile: a file that cannot be read is left alone. *)
IfOwned(r, next) ==
  \/ StepsTo(r, IF Owns(r) THEN next ELSE "stopped") /\ UNCHANGED healthFaults
  \/ /\ HealthFault
     /\ health' = [health EXCEPT ![r].at = "stopped", ![r].spoiled = TRUE]

-----------------------------------------------------------------------------
(* A runtime *)

(* The poller, which starts first, has its lease. *)
StartHealth(r) ==
  /\ health[r].at = "down" /\ pollerLease = Nobody /\ pollerLease' = r
  /\ health' = [health EXCEPT ![r].at = "starting", ![r].chain = <<"ready">>]
  /\ UNCHANGED <<file, probe, healthFaults>>

(* write: a temporary file and a rename, or a failure that is tolerated. *)
WriteSnapshot(r) ==
  /\ health[r].chain # <<>> /\ health[r].at # "dead"
  /\ \/ /\ file' = [of |-> r, state |-> Head(health[r].chain)]
        /\ health' = [health EXCEPT ![r].chain = Tail(@), ![r].published = TRUE]
        /\ UNCHANGED healthFaults
     \/ /\ HealthFault /\ UNCHANGED file
        /\ health' = [health EXCEPT ![r].chain = Tail(@), ![r].spoiled = TRUE]
  /\ UNCHANGED <<pollerLease, probe>>

(* start goes on after its publish, unless stop came in between. *)
BeginHeartbeat(r) ==
  /\ health[r].at = "starting" /\ health[r].chain = <<>>
  /\ StepsTo(r, "serving")
  /\ UNCHANGED <<file, pollerLease, probe, healthFaults>>

(* Mutant: a publish is not waited for. *)
HeartbeatOverlapping(r) ==
  /\ health[r].at = "serving" /\ Len(health[r].chain) < 2
  /\ health' = [health EXCEPT ![r].chain = Append(@, "ready")]
  /\ UNCHANGED <<file, pollerLease, probe, healthFaults>>

(* Mutant: what has been published is there. *)
HeartbeatOnce(r) ==
  /\ health[r].at = "serving" /\ health[r].chain = <<>> /\ ~health[r].published
  /\ health' = [health EXCEPT ![r].chain = <<"ready">>]
  /\ UNCHANGED <<file, pollerLease, probe, healthFaults>>

Heartbeat(r) ==
  /\ health[r].at = "serving" /\ health[r].chain = <<>>
  /\ health' = [health EXCEPT ![r].chain = <<"ready">>]
  /\ UNCHANGED <<file, pollerLease, probe, healthFaults>>

StopHealth(r) ==
  /\ health[r].at \in {"starting", "serving"} /\ StepsTo(r, "settle")
  /\ UNCHANGED <<file, pollerLease, probe, healthFaults>>

(* Mutant: the publish under way is not waited for. *)
SettleAtOnce(r) ==
  /\ health[r].at = "settle"
  /\ IF health[r].published THEN IfOwned(r, "mark")
     ELSE StepsTo(r, "stopped") /\ UNCHANGED healthFaults
  /\ UNCHANGED <<file, pollerLease, probe>>

(* await publishing; a worker that never published leaves the file alone. *)
SettlePublishing(r) ==
  /\ health[r].at = "settle" /\ health[r].chain = <<>>
  /\ IF health[r].published THEN IfOwned(r, "mark")
     ELSE StepsTo(r, "stopped") /\ UNCHANGED healthFaults
  /\ UNCHANGED <<file, pollerLease, probe>>

(* The answer of ownsPublishedFile may be old when it is acted on. *)
PublishStopping(r) ==
  /\ health[r].at = "mark"
  /\ health' = [health EXCEPT ![r].at = "marked", ![r].chain = <<"stopping">>]
  /\ UNCHANGED <<file, pollerLease, probe, healthFaults>>

CheckOwnership(r) ==
  /\ health[r].at = "marked" /\ health[r].chain = <<>> /\ IfOwned(r, "unlink")
  /\ UNCHANGED <<file, pollerLease, probe>>

UnlinkFile(r) ==
  /\ health[r].at = "unlink"
  /\ \/ file' = NoFile /\ StepsTo(r, "stopped") /\ UNCHANGED healthFaults
     \/ /\ HealthFault /\ UNCHANGED file
        /\ health' = [health EXCEPT ![r].at = "stopped", ![r].spoiled = TRUE]
  /\ UNCHANGED <<pollerLease, probe>>

(* The process ends: with its drain, or before. *)
RuntimeDies(r) ==
  /\ Alive(r)
  /\ \/ health[r].at = "stopped" /\ StepsTo(r, "gone") /\ UNCHANGED healthFaults
     \/ health[r].at # "stopped" /\ StepsTo(r, "dead") /\ HealthFault
  /\ UNCHANGED <<file, pollerLease, probe>>

(* Released by the poller, expired or taken over. *)
PollerLeaseEnds ==
  /\ pollerLease # Nobody /\ health[pollerLease].at # "starting"
  /\ pollerLease' = Nobody
  /\ UNCHANGED <<file, health, probe, healthFaults>>

-----------------------------------------------------------------------------
(* checkRuntimeHealth: the file, then the process, then the lease. *)

Judge(verdict) == probe' = [probe EXCEPT !.at = verdict]

ReadReadiness ==
  /\ probe.at \in {"idle", "healthy", "unhealthy"}
  /\ probe' = [at |-> IF file.state = "ready" THEN "read" ELSE "unhealthy",
               of |-> file.of, gone |-> {r \in Runtimes : ~Alive(r)}]
  /\ UNCHANGED <<file, pollerLease, health, healthFaults>>

(* Mutant: the process is taken for alive. *)
ProcessAssumedAlive ==
  /\ probe.at = "read" /\ Judge("lease")
  /\ UNCHANGED <<file, pollerLease, health, healthFaults>>

(* The heartbeat or the last poll may be too old. *)
IsProcessAlive ==
  /\ probe.at = "read"
  /\ \/ Judge("unhealthy")
     \/ Alive(probe.of) /\ Judge("lease")
  /\ UNCHANGED <<file, pollerLease, health, healthFaults>>

ReadPipelineLease ==
  /\ probe.at = "lease"
  /\ Judge(IF pollerLease = probe.of THEN "healthy" ELSE "unhealthy")
  /\ UNCHANGED <<file, pollerLease, health, healthFaults>>

WorkerStep(r) ==
  \/ WriteSnapshot(r) \/ BeginHeartbeat(r) \/ SettlePublishing(r)
  \/ PublishStopping(r) \/ CheckOwnership(r) \/ UnlinkFile(r)

HealthNext ==
  \/ \E r \in Runtimes :
       \/ StartHealth(r) \/ WorkerStep(r) \/ Heartbeat(r) \/ StopHealth(r)
       \/ RuntimeDies(r)
  \/ PollerLeaseEnds \/ ReadReadiness \/ IsProcessAlive \/ ReadPipelineLease

HealthSpec == HealthInit /\ [][HealthNext]_healthVars

HealthFairness ==
  \A r \in Runtimes : WF_healthVars(WorkerStep(r)) /\ WF_healthVars(Heartbeat(r))

HealthFairSpec == HealthSpec /\ HealthFairness

-----------------------------------------------------------------------------
(* What readiness promises *)

(* A worker that stopped leaves no file of its own behind, not even from a  *)
(* publish that was under way, unless the disk refused it.                  *)
StoppedLeavesNothing ==
  \A r \in Runtimes :
    health[r].at \in {"stopped", "gone"} /\ ~health[r].spoiled => file.of # r

(* A runtime whose process was gone before a probe began is never called    *)
(* healthy, whatever file it left.                                          *)
GoneIsNotHealthy == probe.at = "healthy" => probe.of \notin probe.gone

(* Two runtimes may overwrite and remove one another's file; the one that   *)
(* goes on serving alone is visible in the end.                             *)
Alone(r) ==
  /\ health[r].at = "serving"
  /\ \A q \in Runtimes \ {r} : health[q].at \in {"down", "stopped", "gone", "dead"}

ServingIsVisible ==
  []<>(\A r \in Runtimes : Alone(r) => file = [of |-> r, state |-> "ready"])

(* Nobody calls itself ready who has stopped, or is called so once gone.    *)
ReadinessPromise == StoppedLeavesNothing /\ GoneIsNotHealthy
=============================================================================
