--------------------------- MODULE TelegramUpdates ---------------------------
(***************************************************************************)
(* Telegram update polling (src/telegram/telegram-polling-worker.ts), the  *)
(* claim envelope each update is handled in                                *)
(* (application/handle-telegram-control-update.use-case.ts) and the ledger *)
(* they share, telegram_updates.                                           *)
(*                                                                         *)
(* Pollers are processes.  One holds the polling lease, asks Telegram for  *)
(* the updates from its in-memory offset and handles them in order; asking *)
(* from an offset makes Telegram forget every update below it.  Processes  *)
(* crash, stop and stall; a poller that lost its lease fails, while the    *)
(* handler it was waiting for goes on (detached) until it sees the abort   *)
(* signal or the process ends.                                             *)
(*                                                                         *)
(* A claim token is its poller: a process handles one update at a time and *)
(* starts its next only when the last is over.  A lease left by a dead     *)
(* process is Dead's.  Time is what the functions compare: a claim is      *)
(* stale or not, a lease is held or gone.  Routing of an update is a step  *)
(* with any outcome; module TelegramReview fills it in for review buttons. *)
(***************************************************************************)
EXTENDS Naturals, FiniteSetsExt

CONSTANTS
  Pollers,            \* polling processes
  None, Dead,         \* SQL null, the owner id of a process that is gone
  LastUpdate,         \* updates are 1..LastUpdate, in Telegram's order
  Kind,               \* what each update is
  MaxAttempts,        \* TELEGRAM_CONTROL_POLLER_MAX_UPDATE_ATTEMPTS
  MaxLedgerAttempts,  \* ..._MAX_FAILURE_LEDGER_ATTEMPTS
  MaxFaults           \* bound on crashes, stops, stalls and failed calls

Updates == 1..LastUpdate
Kinds == {"control", "foreign", "malformed"}

ASSUME TelegramUpdatesAssumption ==
  /\ None \notin Pollers \cup {Dead} /\ Dead \notin Pollers
  /\ LastUpdate \in Nat /\ Kind \in [Updates -> Kinds]
  /\ MaxAttempts \in Nat \ {0} /\ MaxLedgerAttempts \in Nat \ {0}
  /\ MaxFaults \in Nat

VARIABLES
  arrived, confirmed,   \* Telegram: updates up to arrived exist, those below
                        \*   confirmed are forgotten
  ledger,               \* telegram_updates
  leaseOwner,           \* the polling lease
  poller,               \* the memory of each process
  answered,             \* updates whose use case had an outcome and the
                        \*   message it requires, if any, arrived (history)
  refused,              \* updates refused for good (history)
  faults

telegramVars == <<arrived, confirmed>>
historyVars == <<answered, refused>>
updateVars == <<telegramVars, ledger, leaseOwner, poller, historyVars, faults>>

Closed == {"completed", "quarantined"}
Handling == {"route", "present", "finish", "settle", "foreign"}

Row == [status : {"absent", "processing", "failed"} \cup Closed,
        claimant : Pollers \cup {None}, stale : BOOLEAN,
        failures : 0..MaxAttempts]
NoRow == [status |-> "absent", claimant |-> None, stale |-> FALSE,
          failures |-> 0]

(* at: point; offset: cursor; batch: updates in hand; verdict: the error on *)
(* its way out of the handler; tries: failureLedgerAttempt; lost, stopping: *)
(* the two abort signals; detached: the loop has failed, the handler runs.  *)
Process == [at : {"down", "acquire", "poll", "update", "ledger"} \cup Handling,
            offset : 0..LastUpdate + 1, batch : SUBSET Updates,
            verdict : {"none", "terminal", "retry"},
            tries : 0..MaxLedgerAttempts,
            lost : BOOLEAN, stopping : BOOLEAN, detached : BOOLEAN]
Down == [at |-> "down", offset |-> 0, batch |-> {}, verdict |-> "none",
         tries |-> 0, lost |-> FALSE, stopping |-> FALSE, detached |-> FALSE]

UpdatesTypeOK ==
  /\ arrived \in 0..LastUpdate /\ confirmed \in 0..LastUpdate + 1
  /\ ledger \in [Updates -> Row]
  /\ leaseOwner \in Pollers \cup {None, Dead}
  /\ poller \in [Pollers -> Process]
  /\ answered \subseteq Updates /\ refused \subseteq Updates
  /\ faults \in 0..MaxFaults

UpdatesInit ==
  /\ arrived = 0 /\ confirmed = 0
  /\ ledger = [u \in Updates |-> NoRow]
  /\ leaseOwner = None
  /\ poller = [p \in Pollers |-> Down]
  /\ answered = {} /\ refused = {}
  /\ faults = 0

-----------------------------------------------------------------------------
(* The ledger's functions *)

Write(u, s, p) ==
  ledger' = [ledger EXCEPT ![u].status = s, ![u].claimant = p, ![u].stale = FALSE]

(* classifyTelegramUpdate: two bodies, or one without its shape.            *)
IsMalformed(u) == Kind[u] = "malformed"

(* parseTelegramControlUpdate: a command to this bot, a button of its       *)
(* messages, or a reply to one of them.                                     *)
IsControl(u) == Kind[u] = "control"

(* Mutant: a claim is never taken over. *)
ClaimableOnce(u) == ledger[u].status \in {"absent", "failed"}

(* claim_telegram_update: a row that is new, failed, or claimed too long ago. *)
Claimable(u) ==
  \/ ledger[u].status \in {"absent", "failed"}
  \/ ledger[u].status = "processing" /\ ledger[u].stale

(* finish_telegram_update and its guard. *)
Holds(p, u) == ledger[u].status = "processing" /\ ledger[u].claimant = p

FinishTelegramUpdate(p, u, s) ==
  IF Holds(p, u) THEN Write(u, s, None) ELSE UNCHANGED ledger

(* Mutant: a failure is recorded unless the row is being handled. *)
RecordableClosed(u) == ledger[u].status # "processing"

(* record_telegram_update_failure with a null claim token: a new or failed  *)
(* row counts one more failure, any other is only reported.                 *)
Recordable(u) == ledger[u].status \in {"absent", "failed"}

(* Mutant: one attempt too many. *)
QuarantinesLate(u, v) == v = "terminal" \/ ledger[u].failures + 1 > MaxAttempts

Quarantines(u, v) == v = "terminal" \/ ledger[u].failures + 1 >= MaxAttempts

RecordTelegramUpdateFailure(u, v) ==
  IF Recordable(u)
  THEN ledger' = [ledger EXCEPT ![u] = [NoRow EXCEPT
         !.status = IF Quarantines(u, v) THEN "quarantined" ELSE "failed",
         !.failures = ledger[u].failures + 1]]
  ELSE UNCHANGED ledger

-----------------------------------------------------------------------------
(* The poll loop *)

At(p, point) == poller[p].at = point
Go(p, point) == poller' = [poller EXCEPT ![p].at = point]
GoWith(p, point, v) ==
  poller' = [poller EXCEPT ![p].at = point, ![p].verdict = v]
Current(p) == Min(poller[p].batch)
Aborted(p) == poller[p].lost \/ poller[p].stopping
Fault == faults < MaxFaults /\ faults' = faults + 1

(* The worker is started with its process: a new offset, a new owner id. *)
Start(p) ==
  /\ At(p, "down") /\ Go(p, "acquire")
  /\ UNCHANGED <<telegramVars, ledger, leaseOwner, historyVars, faults>>

(* Pollers leave by giving the lease back; the process ends. *)
Leave(p) ==
  /\ poller' = [poller EXCEPT ![p] = Down]
  /\ leaseOwner' = IF leaseOwner = p THEN None ELSE leaseOwner

(* Take the lease, or leave when told to stop meanwhile or after waiting too *)
(* long for its holder.                                                      *)
Acquire(p) ==
  /\ At(p, "acquire")
  /\ \/ /\ leaseOwner = None /\ ~Aborted(p)
        /\ leaseOwner' = p /\ Go(p, "poll")
     \/ /\ Aborted(p) \/ leaseOwner # None
        /\ Leave(p)
  /\ UNCHANGED <<telegramVars, ledger, historyVars, faults>>

(* The loop fails or ends between two updates. *)
LeaveLoop(p) ==
  /\ \/ poller[p].at \in {"poll", "update"} /\ Aborted(p)
     \/ At(p, "ledger") /\ poller[p].lost
  /\ Leave(p)
  /\ UNCHANGED <<telegramVars, ledger, historyVars, faults>>

(* Lease loss wins the race against the handler, which is left running. *)
Detach(p) ==
  /\ poller[p].at \in Handling \ {"foreign"} /\ poller[p].lost /\ ~poller[p].detached
  /\ poller' = [poller EXCEPT ![p].detached = TRUE]
  /\ leaseOwner' = IF leaseOwner = p THEN None ELSE leaseOwner
  /\ UNCHANGED <<telegramVars, ledger, historyVars, faults>>

(* getUpdates: Telegram forgets what is below the offset and answers with   *)
(* what is left, unless the answer is lost on its way.                      *)
GetUpdates(p) ==
  LET from == Max({confirmed, poller[p].offset})
      pending == {u \in Updates : from <= u /\ u <= arrived}
  IN /\ At(p, "poll") /\ ~Aborted(p)
     /\ confirmed' = from
     /\ \/ /\ pending # {}
           /\ poller' = [poller EXCEPT ![p].at = "update", ![p].batch = pending]
           /\ UNCHANGED faults
        \/ /\ pending = {}
           /\ UNCHANGED <<poller, faults>>
        \/ /\ pending # {} /\ Fault
           /\ UNCHANGED poller
     /\ UNCHANGED <<arrived, ledger, leaseOwner, historyVars>>

(* Telegram answers 409 to one of two pollers that ask at once. *)
Conflict(p) ==
  /\ At(p, "poll") /\ \E q \in Pollers \ {p} : At(q, "poll")
  /\ Leave(p)
  /\ UNCHANGED <<telegramVars, ledger, historyVars, faults>>

(* The update in hand is dealt with: the cursor moves past it. *)
Acknowledge(p) ==
  poller' = [poller EXCEPT ![p] = [@ EXCEPT
    !.at = IF poller[p].batch = {Current(p)} THEN "poll" ELSE "update",
    !.offset = Max({poller[p].offset, Current(p) + 1}),
    !.batch = poller[p].batch \ {Current(p)},
    !.verdict = "none", !.tries = 0]]

(* Mutant: the cursor moves past what is still to be tried again. *)
PollAgainPast(p, tries) == Acknowledge(p)

(* The rest of the batch is dropped and asked for again. *)
PollAgain(p, tries) ==
  poller' = [poller EXCEPT ![p] = [@ EXCEPT
    !.at = "poll", !.batch = {}, !.verdict = "none", !.tries = tries]]

(* A handler that ends: with its update dealt with, with a failure to       *)
(* record, or with nobody waiting for it any more.                          *)
HandlerEnds(p, acknowledged) ==
  IF poller[p].detached \/ (poller[p].stopping /\ ~acknowledged)
  THEN Leave(p)
  ELSE /\ IF acknowledged THEN Acknowledge(p) ELSE GoWith(p, "ledger", "retry")
       /\ UNCHANGED leaseOwner

-----------------------------------------------------------------------------
(* Handling one update *)

(* classifyTelegramUpdate, then the claim.  What is busy is asked for again  *)
(* if it is control, else a terminal failure; a call that fails, or whose   *)
(* answer is lost, is a failure to record.                                  *)
Malformed(p) ==
  /\ At(p, "update") /\ ~Aborted(p) /\ IsMalformed(Current(p))
  /\ GoWith(p, "ledger", "terminal")
  /\ UNCHANGED <<telegramVars, ledger, leaseOwner, historyVars, faults>>

ClaimTelegramUpdate(p) ==
  LET u == Current(p)
  IN /\ At(p, "update") /\ ~Aborted(p) /\ ~IsMalformed(u)
     /\ \/ /\ Claimable(u)
           /\ Write(u, "processing", p)
           /\ Go(p, IF IsControl(u) THEN "route" ELSE "foreign")
           /\ UNCHANGED faults
        \/ /\ ledger[u].status \in Closed
           /\ Acknowledge(p) /\ UNCHANGED <<ledger, faults>>
        \/ /\ ledger[u].status = "processing" /\ ~ledger[u].stale
           /\ IF IsControl(u) THEN PollAgain(p, poller[p].tries)
                              ELSE GoWith(p, "ledger", "terminal")
           /\ UNCHANGED <<ledger, faults>>
        \/ /\ Fault /\ GoWith(p, "ledger", "retry")
           /\ \/ UNCHANGED ledger
              \/ Claimable(u) /\ Write(u, "processing", p)
     /\ UNCHANGED <<telegramVars, leaseOwner, historyVars>>

(* safeClaim: an update nobody handles is completed as it is; a claim that  *)
(* was lost is busy, and a call that fails is a failure to record.          *)
FinishForeign(p) ==
  LET u == Current(p)
  IN /\ At(p, "foreign")
     /\ \/ /\ FinishTelegramUpdate(p, u, "completed") /\ UNCHANGED faults
           /\ IF Holds(p, u) \/ poller[p].stopping
              THEN HandlerEnds(p, Holds(p, u))
              ELSE PollAgain(p, poller[p].tries) /\ UNCHANGED leaseOwner
        \/ /\ Fault /\ HandlerEnds(p, FALSE)
           /\ (FinishTelegramUpdate(p, u, "completed") \/ UNCHANGED ledger)
     /\ UNCHANGED <<telegramVars, historyVars>>

(* Authorisation and the routed use case.  It succeeds, is refused for good *)
(* or throws what may be tried again; an abort makes any of them the last.  *)
Route(p, r) ==
  LET result == IF Aborted(p) THEN "retry" ELSE r
  IN /\ At(p, "route")
     /\ refused' = IF result = "terminal"
                   THEN refused \cup {Current(p)} ELSE refused
     /\ IF result = "ok" THEN Go(p, "present") ELSE GoWith(p, "settle", result)
     /\ UNCHANGED <<telegramVars, ledger, leaseOwner, answered, faults>>

(* Mutant: no answer has to arrive. *)
PresentBestEffort(p, must, got) ==
  /\ At(p, "present")
  /\ answered' = answered \cup {Current(p)}
  /\ IF Aborted(p) THEN GoWith(p, "settle", "retry") ELSE Go(p, "finish")
  /\ UNCHANGED <<telegramVars, ledger, leaseOwner, refused, faults>>

(* present(outcome).  Most outcomes have a message that must arrive: its    *)
(* send fails although the admin got it, or not, or is not begun after an   *)
(* abort.  An outcome without a text and the notice that the policy blocked *)
(* a press ask for none: whatever becomes of them, the update is finished.  *)
Present(p, must, got) ==
  /\ At(p, "present")
  /\ answered' = IF got \/ ~must THEN answered \cup {Current(p)} ELSE answered
  /\ \/ /\ got \/ ~must
        /\ IF Aborted(p) THEN GoWith(p, "settle", "retry") ELSE Go(p, "finish")
        /\ UNCHANGED faults
     \/ /\ must /\ (Fault \/ (Aborted(p) /\ UNCHANGED faults))
        /\ GoWith(p, "settle", "retry")
  /\ UNCHANGED <<telegramVars, ledger, leaseOwner, refused>>

(* The happy end; a claim that was lost, or no answer, is an error. *)
Finish(p) ==
  LET u == Current(p)
  IN /\ At(p, "finish")
     /\ \/ /\ FinishTelegramUpdate(p, u, "completed") /\ UNCHANGED faults
           /\ IF Holds(p, u)
              THEN HandlerEnds(p, TRUE)
              ELSE GoWith(p, "settle", "retry") /\ UNCHANGED leaseOwner
        \/ /\ Fault /\ GoWith(p, "settle", "retry")
           /\ (FinishTelegramUpdate(p, u, "completed") \/ UNCHANGED ledger)
           /\ UNCHANGED leaseOwner
     /\ UNCHANGED <<telegramVars, historyVars>>

(* The catch: a terminal error completes the row, any other fails it; when  *)
(* that cannot be done the error becomes update_claim_lost.                 *)
SettleAs(p) ==
  IF poller[p].verdict = "terminal" /\ ~Aborted(p) THEN "completed" ELSE "failed"

Settle(p) ==
  LET u == Current(p)
  IN /\ At(p, "settle")
     /\ \/ /\ FinishTelegramUpdate(p, u, SettleAs(p)) /\ UNCHANGED faults
           /\ HandlerEnds(p, SettleAs(p) = "completed" /\ Holds(p, u))
        \/ /\ Fault /\ HandlerEnds(p, FALSE)
           /\ (FinishTelegramUpdate(p, u, SettleAs(p)) \/ UNCHANGED ledger)
     /\ UNCHANGED <<telegramVars, historyVars>>

(* recordTelegramUpdateFailure: the cursor moves when the row is closed,    *)
(* else the update is asked for again; a ledger that stays unavailable      *)
(* fails the worker.                                                        *)
RecordFailure(p) ==
  LET u == Current(p)
  IN /\ At(p, "ledger") /\ ~poller[p].lost
     /\ RecordTelegramUpdateFailure(u, poller[p].verdict)
     /\ IF ledger'[u].status \in Closed THEN Acknowledge(p) ELSE PollAgain(p, 0)
     /\ UNCHANGED <<telegramVars, leaseOwner, historyVars, faults>>

LedgerUnavailable(p) ==
  LET tries == poller[p].tries + 1
  IN /\ At(p, "ledger") /\ ~poller[p].lost /\ Fault
     /\ \/ RecordTelegramUpdateFailure(Current(p), poller[p].verdict)
        \/ UNCHANGED ledger
     /\ IF tries >= MaxLedgerAttempts
        THEN Leave(p)
        ELSE PollAgain(p, tries) /\ UNCHANGED leaseOwner
     /\ UNCHANGED <<telegramVars, historyVars>>

-----------------------------------------------------------------------------
(* The heartbeat, time, and what goes wrong *)

Heartbeat(p) ==
  /\ poller[p].at \notin {"down", "acquire"} /\ ~poller[p].detached
  /\ leaseOwner # p /\ ~Aborted(p)
  /\ poller' = [poller EXCEPT ![p].lost = TRUE]
  /\ UNCHANGED <<telegramVars, ledger, leaseOwner, historyVars, faults>>

(* A dead holder's lease expires; a live one's only if it stalls. *)
LeaseExpires ==
  /\ leaseOwner # None /\ leaseOwner' = None
  /\ IF leaseOwner = Dead THEN UNCHANGED faults ELSE Fault
  /\ UNCHANGED <<telegramVars, ledger, poller, historyVars>>

(* Is a claim's handler still there to outlive it? *)
Alive(p, u) == p # None /\ poller[p].at \in Handling /\ Current(p) = u

Stale(u) ==
  /\ ledger[u].status = "processing" /\ ~ledger[u].stale
  /\ ledger' = [ledger EXCEPT ![u].stale = TRUE]
  /\ UNCHANGED <<telegramVars, leaseOwner, poller, historyVars>>

ClaimGoesStale(u) == ~Alive(ledger[u].claimant, u) /\ Stale(u) /\ UNCHANGED faults

HandlerStalls(u) == Alive(ledger[u].claimant, u) /\ Stale(u) /\ Fault

Crash(p) ==
  /\ ~At(p, "down") /\ Fault
  /\ poller' = [poller EXCEPT ![p] = Down]
  /\ leaseOwner' = IF leaseOwner = p THEN Dead ELSE leaseOwner
  /\ UNCHANGED <<telegramVars, ledger, historyVars>>

Stop(p) ==
  /\ ~At(p, "down") /\ ~Aborted(p) /\ Fault
  /\ poller' = [poller EXCEPT ![p].stopping = TRUE]
  /\ UNCHANGED <<telegramVars, ledger, leaseOwner, historyVars>>

Arrive ==
  /\ arrived < LastUpdate /\ arrived' = arrived + 1
  /\ UNCHANGED <<confirmed, ledger, leaseOwner, poller, historyVars, faults>>

Presents(p) == \E must, got \in BOOLEAN : Present(p, must, got)

PollerStep(p) ==
  \/ Start(p) \/ Acquire(p) \/ LeaveLoop(p) \/ Detach(p) \/ GetUpdates(p)
  \/ Malformed(p) \/ ClaimTelegramUpdate(p) \/ FinishForeign(p)
  \/ Presents(p) \/ Finish(p) \/ Settle(p) \/ RecordFailure(p)
  \/ LedgerUnavailable(p)

Outside ==
  \/ Arrive \/ LeaseExpires
  \/ \E u \in Updates : ClaimGoesStale(u) \/ HandlerStalls(u)
  \/ \E p \in Pollers : Heartbeat(p) \/ Conflict(p) \/ Crash(p) \/ Stop(p)

Routes(p) == \E r \in {"ok", "terminal", "retry"} : Route(p, r)

UpdatesNext == Outside \/ \E p \in Pollers : PollerStep(p) \/ Routes(p)

UpdatesSpec == UpdatesInit /\ [][UpdatesNext]_updateVars

(* Processes run and are restarted (compose.yaml restarts the service),     *)
(* heartbeats beat, and what a dead process left expires.                   *)
UpdatesFairness ==
  /\ \A p \in Pollers :
       /\ WF_updateVars(PollerStep(p) \/ Routes(p))
       /\ WF_updateVars(Heartbeat(p))
  /\ WF_updateVars(leaseOwner = Dead /\ LeaseExpires)
  /\ \A u \in Updates : WF_updateVars(ClaimGoesStale(u))

UpdatesFairSpec == UpdatesSpec /\ UpdatesFairness

-----------------------------------------------------------------------------
(* What the poller promises *)

(* "Required semantic outcomes are delivered before the update claim is     *)
(* completed" (transport/telegram-bot-api.gateway.ts:244).  Whatever        *)
(* crashes, stalls or overlaps, an update Telegram has forgotten was not    *)
(* swallowed: its use case had an outcome, and the message that outcome     *)
(* requires, if it requires one, arrived; or it was refused for good, is of *)
(* no interest, or is quarantined, malformed or after all its attempts.     *)
ForgottenIsAccountedFor ==
  \A u \in Updates : u < confirmed =>
    \/ /\ ledger[u].status = "completed"
       /\ IsControl(u) => u \in answered \cup refused
    \/ /\ ledger[u].status = "quarantined"
       /\ ledger[u].failures >= MaxAttempts \/ IsMalformed(u)

(* A closed row is closed for good: no late handler, second poller or       *)
(* recorded failure reopens or rewrites it.                                 *)
ClosedForGood ==
  [][\A u \in Updates :
       ledger[u].status \in Closed => ledger'[u] = ledger[u]]_updateVars

(* Every update that arrives is closed in the end, and Telegram forgets it: *)
(* again and again there is none that is not.                               *)
EveryUpdateIsClosed ==
  []<>(\A u \in 1..arrived : ledger[u].status \in Closed /\ confirmed > u)

(* Nothing is swallowed and nothing closed is opened: what Telegram has     *)
(* forgotten is accounted for by rows that stay as they are.                *)
UpdatesPromise == []ForgottenIsAccountedFor /\ ClosedForGood
=============================================================================
