------------------------------ MODULE Scheduler ------------------------------
(***************************************************************************)
(* The news scheduler: occurrences of one channel's schedule, executed by  *)
(* RunScheduledNewsOnceUseCase                                             *)
(* (src/scheduler/application/run-scheduled-news-once.use-case.ts) over    *)
(* the channel's news_bot_settings row.                                    *)
(*                                                                         *)
(* A worker is one scheduler loop; it executes one occurrence at a time    *)
(* under a fresh claim token.  Because a worker has one execution, the     *)
(* token is the worker: when it is idle, a row still carrying its token    *)
(* was left by an execution that crashed or gave up.  A shutdown signal    *)
(* stops an execution as a crash does: the claim is left behind.           *)
(*                                                                         *)
(* Time is abstracted to what the functions compare: next_run_at is in the *)
(* past or not, a claim is stale or not, a lease is expired (gone) or not, *)
(* and it is or is not quiet hours.  The night pause is taken as enabled;  *)
(* without quiet hours it is as if it were disabled.  Publication of a     *)
(* draft is module Publication seen from the caller.                       *)
(***************************************************************************)
EXTENDS Naturals, FiniteSets

CONSTANTS
  Drafts,           \* drafts research may create
  Workers,          \* scheduler loops, in one or several processes
  None,             \* SQL null
  Other,            \* a pipeline run that is not the scheduler's
  MaxRuns,          \* bound on occurrences
  MaxFaults,        \* bound on crashes, failed calls and lost heartbeats
  MaxChanges,       \* bound on settings changes
  NewsReviews,      \* do /news jobs ask for reviews too?
  Stalls,           \* may a live worker's claim and lease go stale?
  SkewedClock       \* may the worker's clock disagree with the database's?

ASSUME SchedulerAssumption ==
  /\ None \notin Drafts \cup Workers \cup {Other, "manual", "automatic"}
  /\ Other \notin Workers
  /\ MaxRuns \in Nat /\ MaxFaults \in Nat /\ MaxChanges \in Nat
  /\ NewsReviews \in BOOLEAN /\ Stalls \in BOOLEAN /\ SkewedClock \in BOOLEAN

VARIABLES
  interval,         \* schedule_interval_minutes is set
  next,             \* next_run_at
  policy,           \* approval_policy
  token,            \* schedule_claim_token
  stale,            \* schedule_claimed_at is older than the threshold
  run,              \* schedule_run_id, numbered; 0 is null
  snapshot,         \* schedule_settings_snapshot: its approval policy
  draft,            \* schedule_draft_id
  receipt,          \* schedule_publication_message_id, by its draft
  lastStatus,       \* last_run_status
  runs,             \* occurrences begun
  leaseOwner,       \* owner of the pipeline lease, None when free or expired
  draftStatus,      \* drafts.status; "blocked" is a policy rejection
  session,          \* review session of a draft: "pending" until it is decided
                    \* or its expires_at passes
  newsReview,       \* an unexpired review asked for by a /news job is open
  byOthers,         \* drafts someone else is publishing
  sentFor,          \* the run a worker published the draft for, 0 if none did
  quiet,            \* it is quiet hours
  pc, mine, doc, outcome,   \* of each worker: point, claimed row, checkpoint,
                            \* status to finish with
  faults, changes

rowVars    == <<interval, next, policy, token, stale, run, snapshot, draft,
                receipt, lastStatus, runs>>
draftVars  == <<draftStatus, session, newsReview, byOthers, sentFor>>
workerVars == <<pc, mine, doc, outcome>>
boundVars  == <<faults, changes>>
vars == <<rowVars, leaseOwner, draftVars, quiet, workerVars, boundVars>>

Policies == {"manual", "automatic"}
Statuses == {"none", "quiet_hours_deferred", "skipped_pending_review",
             "no_candidates", "awaiting_approval", "review_already_resolved",
             "blocked_by_policy", "published", "failed",
             "publication_unresolved"}
Points == {"idle", "early", "pending", "acquire", "research", "checkpoint",
           "lost", "release", "late", "renew", "final", "deliver", "approve",
           "publish", "send", "record", "finish", "pause"}

(* The CHECK constraints of news_bot_settings: every statement below must   *)
(* leave a row the table accepts.                                          *)
IntervalCheck == interval <=> next # "none"
RunChecks ==
  /\ stale => token # None
  /\ run = 0 => snapshot = None /\ draft = None
  /\ run # 0 => snapshot # None
  /\ draft = None => receipt = None
RowChecks == IntervalCheck /\ RunChecks

(* Each column and each execution holds a value of its type, and no        *)
(* statement of the scheduler is refused by the table.                     *)
TypeOK ==
  /\ RowChecks
  /\ interval \in BOOLEAN /\ stale \in BOOLEAN /\ quiet \in BOOLEAN
  /\ next \in {"none", "later", "due"}
  /\ policy \in Policies
  /\ token \in Workers \cup {None}
  /\ run \in 0..MaxRuns /\ runs \in 0..MaxRuns
  /\ snapshot \in Policies \cup {None}
  /\ draft \in Drafts \cup {None} /\ receipt \in Drafts \cup {None}
  /\ lastStatus \in Statuses
  /\ leaseOwner \in Workers \cup {None, Other}
  /\ draftStatus \in [Drafts -> {"absent", "review", "approved", "publishing",
                                 "published", "rejected", "blocked"}]
  /\ session \in [Drafts -> {"none", "pending", "expired", "resolved"}]
  /\ newsReview \in BOOLEAN
  /\ byOthers \subseteq Drafts
  /\ sentFor \in [Drafts -> 0..MaxRuns]
  /\ pc \in [Workers -> Points]
  /\ mine \in [Workers -> [run : 0..MaxRuns, policy : Policies \cup {None},
                           receipt : Drafts \cup {None}]]
  /\ doc \in [Workers -> Drafts \cup {None}]
  /\ outcome \in [Workers -> Statuses]
  /\ faults \in 0..MaxFaults /\ changes \in 0..MaxChanges

NoClaim == [run |-> 0, policy |-> None, receipt |-> None]

Init ==
  /\ interval = TRUE /\ next = "later" /\ policy \in Policies
  /\ token = None /\ stale = FALSE /\ run = 0 /\ runs = 0
  /\ snapshot = None /\ draft = None /\ receipt = None /\ lastStatus = "none"
  /\ leaseOwner = None
  /\ draftStatus = [d \in Drafts |-> "absent"]
  /\ session = [d \in Drafts |-> "none"]
  /\ newsReview = FALSE
  /\ byOthers = {}
  /\ sentFor = [d \in Drafts |-> 0]
  /\ quiet = FALSE
  /\ pc = [w \in Workers |-> "idle"]
  /\ mine = [w \in Workers |-> NoClaim]
  /\ doc = [w \in Workers |-> None]
  /\ outcome = [w \in Workers |-> "none"]
  /\ faults = 0 /\ changes = 0

-----------------------------------------------------------------------------
(* Control of one execution *)

Goto(w, point) == pc' = [pc EXCEPT ![w] = point] /\ UNCHANGED <<mine, doc, outcome>>

(* An execution that ends forgets what it claimed.                         *)
End(w) ==
  /\ pc' = [pc EXCEPT ![w] = "idle"]
  /\ mine' = [mine EXCEPT ![w] = NoClaim]
  /\ doc' = [doc EXCEPT ![w] = None]
  /\ outcome' = [outcome EXCEPT ![w] = "none"]

FinishAs(w, status) ==
  /\ pc' = [pc EXCEPT ![w] = "finish"]
  /\ outcome' = [outcome EXCEPT ![w] = status]
  /\ UNCHANGED <<mine, doc>>

(* The catch of execute(): the error's code decides whether the row is     *)
(* paused, left claimed for a stale takeover, or finished as failed.       *)
Throw(w, code) ==
  CASE code = "publication_unresolved" -> Goto(w, "pause")
    [] code \in {"claim_lost", "review_delivery_failed"} -> End(w)
    [] OTHER -> FinishAs(w, "failed")

Owns(w) == token = w

-----------------------------------------------------------------------------
(* The row's functions *)

(* claim_due_news_schedule starts with this update: due work of the night  *)
(* is moved to the morning, claimed or not, unless the claim is fresh.     *)
MoveDueToMorning ==
  /\ interval /\ next = "due" /\ quiet
  /\ token = None \/ stale
  /\ next' = "later"
  /\ lastStatus' = "quiet_hours_deferred"
  /\ UNCHANGED <<interval, policy, token, stale, run, snapshot, draft, receipt,
                 runs, leaseOwner, draftVars, quiet, workerVars, boundVars>>

(* Mutant: a claim is never taken over.                                    *)
ClaimableUnclaimed ==
  /\ interval /\ next = "due" /\ ~quiet
  /\ leaseOwner = None
  /\ token = None

Claimable ==
  /\ interval /\ next = "due" /\ ~quiet
  /\ leaseOwner = None
  /\ token = None \/ stale

(* Mutants: a resumed run takes a new snapshot; a resumed run starts over.  *)
TakeSnapshotAnew == snapshot' = policy /\ UNCHANGED <<draft, receipt>>
TakeSnapshotOnly ==
  /\ snapshot' = (IF run = 0 THEN policy ELSE snapshot)
  /\ draft' = None /\ receipt' = None

(* coalesce(schedule_settings_snapshot, ...): a resumed run keeps its       *)
(* snapshot and its checkpoints.                                           *)
TakeSnapshot ==
  /\ snapshot' = (IF run = 0 THEN policy ELSE snapshot)
  /\ UNCHANGED <<draft, receipt>>

ClaimDueNewsSchedule(w) ==
  /\ pc[w] = "idle"
  /\ Claimable
  /\ run # 0 \/ runs < MaxRuns
  /\ token' = w /\ stale' = FALSE
  /\ run' = (IF run = 0 THEN runs + 1 ELSE run)
  /\ runs' = (IF run = 0 THEN runs + 1 ELSE runs)
  /\ TakeSnapshot
  /\ pc' = [pc EXCEPT ![w] = "early"]
  /\ mine' = [mine EXCEPT ![w] =
                [run |-> run', policy |-> snapshot', receipt |-> receipt']]
  /\ doc' = [doc EXCEPT ![w] = draft']
  /\ UNCHANGED <<interval, next, policy, lastStatus, leaseOwner, draftVars,
                 quiet, outcome, boundVars>>

(* Mutant: the checkpoints survive the run.                                *)
ClearRunOnly == run' = 0 /\ snapshot' = None /\ UNCHANGED <<draft, receipt>>

ClearRun == run' = 0 /\ snapshot' = None /\ draft' = None /\ receipt' = None

(* finish_news_schedule under the claim token.                             *)
FinishNewsSchedule(status) ==
  /\ next' = (IF interval THEN "later" ELSE "none")
  /\ token' = None /\ stale' = FALSE
  /\ ClearRun
  /\ lastStatus' = status
  /\ UNCHANGED <<interval, policy, runs>>

(* defer_news_schedule_for_quiet_hours keeps the run and its checkpoint.    *)
DeferForQuietHours ==
  /\ next' = (IF interval THEN "later" ELSE "none")
  /\ token' = None /\ stale' = FALSE
  /\ lastStatus' = "quiet_hours_deferred"
  /\ UNCHANGED <<interval, policy, run, snapshot, draft, receipt, runs>>

(* pause_news_schedule_unresolved keeps the run for after reconciliation.   *)
PauseUnresolved ==
  /\ interval' = FALSE /\ next' = "none"
  /\ token' = None /\ stale' = FALSE
  /\ lastStatus' = "publication_unresolved"
  /\ UNCHANGED <<policy, run, snapshot, draft, receipt, runs>>

-----------------------------------------------------------------------------
(* Steps of executeClaim() *)

(* deferIfQuiet at its three places: before anything, after the checkpoint *)
(* and right before delivery.  The worker reads its own clock, and the row  *)
(* is deferred only if the database agrees.                                *)
DeferIfQuiet(w, here, onward) ==
  /\ pc[w] = here
  /\ \/ /\ ~quiet \/ SkewedClock
        /\ Goto(w, onward)
        /\ UNCHANGED rowVars
     \/ /\ quiet \/ SkewedClock
        /\ Owns(w) /\ quiet
        /\ DeferForQuietHours
        /\ End(w)
     \/ /\ quiet \/ SkewedClock
        /\ ~(Owns(w) /\ quiet)
        /\ Throw(w, "claim_lost")
        /\ UNCHANGED rowVars
  /\ UNCHANGED <<leaseOwner, draftVars, quiet, boundVars>>

EarlyDeferral(w) == DeferIfQuiet(w, "early", "pending")
DeliveryDeferral(w) ==
  DeferIfQuiet(w, "late", IF mine[w].policy = "automatic" /\ mine[w].receipt # None
                          THEN "record" ELSE "renew")
RenewedDeferral(w) ==
  DeferIfQuiet(w, "final",
               IF mine[w].policy = "manual" THEN "deliver" ELSE "approve")

ReviewPending(d) == session[d] = "pending" /\ draftStatus[d] = "review"

(* An undecided review of the channel that has not expired, whoever asked    *)
(* for it.                                                                 *)
HasPendingReview == newsReview \/ \E d \in Drafts : ReviewPending(d)

(* Mutant: a pending review does not hold up the next one.                 *)
SkipForPendingNever(w) == FALSE
SkipForPending(w) == mine[w].policy = "manual" /\ HasPendingReview

HasPendingTelegramReview(w) ==
  /\ pc[w] = "pending"
  /\ IF SkipForPending(w)
     THEN FinishAs(w, "skipped_pending_review")
     ELSE Goto(w, IF doc[w] # None THEN "late" ELSE "acquire")
  /\ UNCHANGED <<rowVars, leaseOwner, draftVars, quiet, boundVars>>

AcquireLease(w) ==
  /\ pc[w] = "acquire"
  /\ \/ leaseOwner = None /\ leaseOwner' = w /\ Goto(w, "research")
     \/ leaseOwner # None /\ Throw(w, "pipeline_busy") /\ UNCHANGED leaseOwner
  /\ UNCHANGED <<rowVars, draftVars, quiet, boundVars>>

(* The news workflow: a selection is drafted under the lease, or no tier    *)
(* has a candidate, or create_review_draft finds the lease gone.           *)
RunWorkflow(w) ==
  /\ pc[w] = "research"
  /\ \/ \E d \in Drafts :
          /\ draftStatus[d] = "absent"
          /\ leaseOwner = w
          /\ draftStatus' = [draftStatus EXCEPT ![d] = "review"]
          /\ doc' = [doc EXCEPT ![w] = d]
          /\ pc' = [pc EXCEPT ![w] = "checkpoint"]
          /\ UNCHANGED <<mine, outcome>>
     \/ Goto(w, "release") /\ UNCHANGED draftStatus
     \/ leaseOwner # w /\ Goto(w, "lost") /\ UNCHANGED draftStatus
  /\ UNCHANGED <<rowVars, leaseOwner, session, newsReview, byOthers, sentFor,
                 quiet, boundVars>>

SaveNewsScheduleDraft(w) ==
  /\ pc[w] = "checkpoint"
  /\ \/ /\ Owns(w) /\ draft \in {None, doc[w]}
        /\ draft' = doc[w] /\ stale' = FALSE
        /\ Goto(w, "release")
     \/ /\ ~(Owns(w) /\ draft \in {None, doc[w]})
        /\ Goto(w, "lost")
        /\ UNCHANGED <<draft, stale>>
  /\ UNCHANGED <<interval, next, policy, token, run, snapshot, receipt,
                 lastStatus, runs, leaseOwner, draftVars, quiet, boundVars>>

(* The finally of the pipeline section, and what follows it.  A worker      *)
(* whose heartbeat saw the lease go ends as claim_lost even with its draft  *)
(* checkpointed.                                                           *)
ReleaseLease(w) ==
  /\ pc[w] \in {"release", "lost"}
  /\ leaseOwner' = (IF leaseOwner = w THEN None ELSE leaseOwner)
  /\ \/ pc[w] = "lost" /\ Throw(w, "claim_lost")
     \/ pc[w] = "release" /\ leaseOwner # w /\ Throw(w, "claim_lost")
     \/ pc[w] = "release" /\ doc[w] = None /\ FinishAs(w, "no_candidates")
     \/ pc[w] = "release" /\ doc[w] # None /\ Goto(w, "late")
  /\ UNCHANGED <<rowVars, draftVars, quiet, boundVars>>

(* scheduleHeartbeat.renew() right before a delivery.                      *)
RenewClaim(w) ==
  /\ pc[w] = "renew"
  /\ \/ Owns(w) /\ stale' = FALSE /\ Goto(w, "final")
     \/ ~Owns(w) /\ UNCHANGED stale /\ Throw(w, "claim_lost")
  /\ UNCHANGED <<interval, next, policy, token, run, snapshot, draft, receipt,
                 lastStatus, runs, leaseOwner, draftVars, quiet, boundVars>>

(* The session after a delivery: a new one, or one that ran out renewed     *)
(* while its draft is still in review.                                     *)
Opened(d) ==
  IF session[d] = "none" \/ (session[d] = "expired" /\ draftStatus[d] = "review")
  THEN "pending" ELSE session[d]

DeliverReview(w) ==
  LET d == doc[w] IN
  /\ pc[w] = "deliver"
  /\ session' = [session EXCEPT ![d] = Opened(d)]
  /\ FinishAs(w, IF Opened(d) = "pending" THEN "awaiting_approval"
                 ELSE "review_already_resolved")
  /\ UNCHANGED <<rowVars, leaseOwner, draftStatus, newsReview, byOthers, sentFor,
                 quiet, boundVars>>

ApproveCheckpoint(w) ==
  LET d == doc[w] IN
  /\ pc[w] = "approve"
  /\ draftStatus' = [draftStatus EXCEPT ![d] = IF @ = "review" THEN "approved" ELSE @]
  /\ Goto(w, "publish")
  /\ UNCHANGED <<rowVars, leaseOwner, session, newsReview, byOthers, sentFor,
                 quiet, boundVars>>

(* publishApprovedDraft up to the claim.  A draft that is already            *)
(* publishing is 'not_publishable', an error errorCode() does not know.    *)
ClaimPublication(w) ==
  LET d == doc[w] IN
  /\ pc[w] = "publish"
  /\ \/ /\ draftStatus[d] = "approved"
        /\ draftStatus' = [draftStatus EXCEPT ![d] = "publishing"]
        /\ sentFor' = [sentFor EXCEPT ![d] = mine[w].run]
        /\ Goto(w, "send")
     \/ /\ draftStatus[d] = "approved"
        /\ draftStatus' = [draftStatus EXCEPT ![d] = "blocked"]
        /\ FinishAs(w, "blocked_by_policy")
        /\ UNCHANGED sentFor
     \/ /\ draftStatus[d] = "blocked" /\ FinishAs(w, "blocked_by_policy")
        /\ UNCHANGED <<draftStatus, sentFor>>
     \/ /\ draftStatus[d] = "published" /\ Goto(w, "record")
        /\ UNCHANGED <<draftStatus, sentFor>>
     \/ /\ draftStatus[d] \in {"review", "publishing", "rejected"}
        /\ Throw(w, "scheduled_run_failed")
        /\ UNCHANGED <<draftStatus, sentFor>>
  /\ UNCHANGED <<rowVars, leaseOwner, session, newsReview, byOthers, quiet,
                 boundVars>>

(* The send and what Publication makes of it: published, released after a  *)
(* rejection, or unresolved (its receipt stored or not).                   *)
SendPublication(w) ==
  LET d == doc[w]
      Becomes(s) == draftStatus[d] = "publishing"
                    /\ draftStatus' = [draftStatus EXCEPT ![d] = s] IN
  /\ pc[w] = "send"
  /\ \/ Becomes("published") /\ Goto(w, "record") /\ UNCHANGED <<sentFor, faults>>
     \/ /\ faults < MaxFaults /\ faults' = faults + 1
        /\ \/ /\ Becomes("approved") /\ Throw(w, "scheduled_run_failed")
              /\ sentFor' = [sentFor EXCEPT ![d] = 0]
           \/ /\ Becomes("published") \/ UNCHANGED draftStatus
              /\ Throw(w, "publication_unresolved")
              /\ UNCHANGED sentFor
  /\ UNCHANGED <<rowVars, leaseOwner, session, newsReview, byOthers, quiet,
                 changes>>

(* saveNewsSchedulePublication, skipped when the claim came with a receipt. *)
SaveNewsSchedulePublication(w) ==
  /\ pc[w] = "record"
  /\ \/ /\ mine[w].receipt # None
        /\ FinishAs(w, "published") /\ UNCHANGED <<receipt, stale>>
     \/ /\ mine[w].receipt = None /\ Owns(w) /\ draft = doc[w]
        /\ receipt' = doc[w] /\ stale' = FALSE
        /\ FinishAs(w, "published")
     \/ /\ mine[w].receipt = None /\ ~(Owns(w) /\ draft = doc[w])
        /\ Throw(w, "claim_lost") /\ UNCHANGED <<receipt, stale>>
  /\ UNCHANGED <<interval, next, policy, token, run, snapshot, draft,
                 lastStatus, runs, leaseOwner, draftVars, quiet, boundVars>>

(* Mutant: whoever gets there finishes the run.                            *)
FinishUnfenced(w) ==
  /\ pc[w] = "finish"
  /\ run # 0 /\ FinishNewsSchedule(outcome[w])
  /\ End(w)
  /\ UNCHANGED <<leaseOwner, draftVars, quiet, boundVars>>

Finish(w) ==
  /\ pc[w] = "finish"
  /\ \/ Owns(w) /\ FinishNewsSchedule(outcome[w])
     \/ ~Owns(w) /\ UNCHANGED rowVars
  /\ End(w)
  /\ UNCHANGED <<leaseOwner, draftVars, quiet, boundVars>>

Pause(w) ==
  /\ pc[w] = "pause"
  /\ \/ Owns(w) /\ PauseUnresolved
     \/ ~Owns(w) /\ UNCHANGED rowVars
  /\ End(w)
  /\ UNCHANGED <<leaseOwner, draftVars, quiet, boundVars>>

(* A call fails, a heartbeat fails, or delivery of the review fails (its     *)
(* session may have been stored); inside the pipeline section the lease is *)
(* released on the way out, if the release does not fail too.  When         *)
(* finishing fails, the catch tries to finish as failed; when that or       *)
(* pausing fails, the claim stays.                                         *)
Fault(w) ==
  /\ pc[w] \notin {"idle", "send"} /\ faults < MaxFaults
  /\ faults' = faults + 1
  /\ \/ pc[w] \in {"finish", "pause"} /\ End(w) /\ UNCHANGED session
     \/ pc[w] = "finish" /\ outcome[w] # "failed" /\ FinishAs(w, "failed")
        /\ UNCHANGED session
     \/ pc[w] = "deliver" /\ Throw(w, "review_delivery_failed")
        /\ session' \in {session, [session EXCEPT ![doc[w]] = Opened(doc[w])]}
     \/ /\ pc[w] \notin {"finish", "pause", "deliver"}
        /\ \/ Throw(w, "scheduled_run_failed")
           \/ Throw(w, "claim_lost")
        /\ UNCHANGED session
  /\ leaseOwner' \in {leaseOwner, IF leaseOwner = w THEN None ELSE leaseOwner}
  /\ UNCHANGED <<rowVars, draftStatus, newsReview, byOthers, sentFor, quiet,
                 changes>>

Crash(w) ==
  /\ pc[w] # "idle" /\ faults < MaxFaults
  /\ faults' = faults + 1
  /\ End(w)
  /\ UNCHANGED <<rowVars, leaseOwner, draftVars, quiet, changes>>

-----------------------------------------------------------------------------
(* Everything else *)

UpdateNewsSettings ==
  /\ changes < MaxChanges /\ changes' = changes + 1
  /\ \E on \in BOOLEAN, p \in Policies :
       /\ interval' = on /\ policy' = p
       /\ next' = (IF ~on THEN "none"
                   ELSE IF run # 0 /\ ~quiet THEN "due" ELSE "later")
  /\ UNCHANGED <<token, stale, run, snapshot, draft, receipt, lastStatus, runs,
                 leaseOwner, draftVars, quiet, workerVars, faults>>

(* A reviewer presses a button: the draft is approved or rejected.          *)
DecideReview(d) ==
  /\ session[d] = "pending" /\ draftStatus[d] = "review"
  /\ session' = [session EXCEPT ![d] = "resolved"]
  /\ \E s \in {"approved", "rejected"} :
       draftStatus' = [draftStatus EXCEPT ![d] = s]
  /\ UNCHANGED <<rowVars, leaseOwner, newsReview, byOthers, sentFor, quiet,
                 workerVars, boundVars>>

(* The review button's or the CLI's own publication of an approved draft.   *)
OtherPublication(d) ==
  /\ \/ /\ draftStatus[d] = "approved"
        /\ draftStatus' = [draftStatus EXCEPT ![d] = "publishing"]
        /\ byOthers' = byOthers \cup {d}
     \/ /\ d \in byOthers
        /\ \E s \in {"published", "publishing"} :
             draftStatus' = [draftStatus EXCEPT ![d] = s]
        /\ byOthers' = byOthers \ {d}
  /\ UNCHANGED <<rowVars, leaseOwner, session, newsReview, sentFor, quiet, workerVars,
                 boundVars>>

Held(d) == d \in byOthers \/ \E w \in Workers : pc[w] = "send" /\ doc[w] = d

Reconcile(d) ==
  /\ draftStatus[d] = "publishing" /\ ~Held(d)
  /\ \/ /\ draftStatus' = [draftStatus EXCEPT ![d] = "published"]
        /\ UNCHANGED sentFor
     \/ /\ draftStatus' = [draftStatus EXCEPT ![d] = "approved"]
        /\ sentFor' = [sentFor EXCEPT ![d] = 0]
  /\ UNCHANGED <<rowVars, leaseOwner, session, newsReview, byOthers, quiet,
                 workerVars, boundVars>>

(* A /news job delivers the draft it made, an operator's override that asks *)
(* nobody; its review is decided, or expires.                              *)
NewsReviewOpensOrEnds ==
  /\ NewsReviews /\ newsReview' = ~newsReview
  /\ UNCHANGED <<rowVars, leaseOwner, draftStatus, session, byOthers, sentFor,
                 quiet, workerVars, boundVars>>

OtherPipeline ==
  /\ \/ leaseOwner = None /\ leaseOwner' = Other
     \/ leaseOwner = Other /\ leaseOwner' = None
  /\ UNCHANGED <<rowVars, draftVars, quiet, workerVars, boundVars>>

NextRunIsDue ==
  /\ next = "later" /\ next' = "due"
  /\ UNCHANGED <<interval, policy, token, stale, run, snapshot, draft, receipt,
                 lastStatus, runs, leaseOwner, draftVars, quiet, workerVars,
                 boundVars>>

(* The heartbeat of a live execution keeps its claim and its lease fresh.   *)
ClaimGoesStale ==
  /\ token # None /\ ~stale
  /\ Stalls \/ pc[token] = "idle"
  /\ stale' = TRUE
  /\ UNCHANGED <<interval, next, policy, token, run, snapshot, draft, receipt,
                 lastStatus, runs, leaseOwner, draftVars, quiet, workerVars,
                 boundVars>>

LeaseExpires ==
  /\ leaseOwner \in Workers
  /\ Stalls \/ pc[leaseOwner] \notin {"research", "checkpoint", "lost", "release"}
  /\ leaseOwner' = None
  /\ UNCHANGED <<rowVars, draftVars, quiet, workerVars, boundVars>>

(* expires_at is 24 hours from the delivery.                               *)
ReviewExpires(d) ==
  /\ session[d] = "pending"
  /\ session' = [session EXCEPT ![d] = "expired"]
  /\ UNCHANGED <<rowVars, leaseOwner, draftStatus, newsReview, byOthers, sentFor,
                 quiet, workerVars, boundVars>>

NightFalls == ~quiet /\ quiet' = TRUE
              /\ UNCHANGED <<rowVars, leaseOwner, draftVars, workerVars, boundVars>>
MorningComes == quiet /\ quiet' = FALSE
              /\ UNCHANGED <<rowVars, leaseOwner, draftVars, workerVars, boundVars>>

-----------------------------------------------------------------------------

ExecutionStep(w) ==
  \/ EarlyDeferral(w)
  \/ HasPendingTelegramReview(w)
  \/ AcquireLease(w)
  \/ RunWorkflow(w)
  \/ SaveNewsScheduleDraft(w)
  \/ ReleaseLease(w)
  \/ DeliveryDeferral(w)
  \/ RenewClaim(w)
  \/ RenewedDeferral(w)
  \/ DeliverReview(w)
  \/ ApproveCheckpoint(w)
  \/ ClaimPublication(w)
  \/ SendPublication(w)
  \/ SaveNewsSchedulePublication(w)
  \/ Finish(w)
  \/ Pause(w)

PeopleStep ==
  \/ UpdateNewsSettings
  \/ \E d \in Drafts : DecideReview(d) \/ OtherPublication(d) \/ Reconcile(d)
  \/ NewsReviewOpensOrEnds
  \/ OtherPipeline

ClockStep ==
  \/ NextRunIsDue
  \/ ClaimGoesStale
  \/ LeaseExpires
  \/ \E d \in Drafts : ReviewExpires(d)
  \/ NightFalls
  \/ MorningComes

Next ==
  \/ \E w \in Workers : ClaimDueNewsSchedule(w) \/ ExecutionStep(w)
                        \/ Fault(w) \/ Crash(w)
  \/ MoveDueToMorning
  \/ PeopleStep
  \/ ClockStep

Spec == Init /\ [][Next]_vars

(* An execution goes on; clocks move; another pipeline ends or expires; the *)
(* loop polls every 30 seconds, so a row that is claimable again and again  *)
(* is claimed.                                                             *)
Fairness ==
  /\ \A w \in Workers : WF_vars(ExecutionStep(w))
  /\ WF_vars(NextRunIsDue) /\ WF_vars(ClaimGoesStale) /\ WF_vars(LeaseExpires)
  /\ WF_vars(MorningComes)
  /\ WF_vars(leaseOwner = Other /\ OtherPipeline)
  /\ SF_vars(\E w \in Workers : ClaimDueNewsSchedule(w))

FairSpec == Spec /\ Fairness

-----------------------------------------------------------------------------
(* Properties *)

(* "A run takes one immutable settings snapshot" (docs/architecture.md:87)  *)
(* and a committed checkpoint is never lost: while a run lasts, whoever     *)
(* resumes it, its policy, its draft and its receipt stay.                 *)
OccurrenceImmutable ==
  [][run # 0 /\ run' = run =>
       /\ snapshot' = snapshot
       /\ draft # None => draft' = draft
       /\ receipt # None => receipt' = receipt]_vars

(* "A crash resumes that exact draft instead of researching and publishing  *)
(* another one" (docs/operations.md:283): no occurrence sends two drafts.  *)
OneArticlePerRun ==
  \A d, e \in Drafts : sentFor[d] # 0 /\ sentFor[d] = sentFor[e] => d = e

(* A run recorded as published, blocked or empty is so, even when its        *)
(* worker was overtaken: the schedule row tells the operator the truth.    *)
HonestStatus ==
  [][run # 0 /\ run' = 0 =>
       /\ lastStatus' = "published" =>
            draft # None /\ draftStatus[draft] = "published"
       /\ lastStatus' = "blocked_by_policy" =>
            draft # None /\ draftStatus[draft] = "blocked"
       /\ lastStatus' = "no_candidates" => draft = None]_vars

(* The scheduler "will not create another manual draft for the channel      *)
(* while an unexpired review is pending" (docs/operations.md:278-280):      *)
(* however its occurrences are deferred, resumed and cut short, and however *)
(* reviews run out and are renewed, two drafts of its own never wait for a  *)
(* decision at once.  The review of a /news job may, beside one: a job asks *)
(* when an operator says so, also between an occurrence's check and its     *)
(* delivery.  A worker that stalls may ask twice; the run that checks this  *)
(* has none.                                                               *)
OneReviewAtATime ==
  \A d, e \in Drafts : ReviewPending(d) /\ ReviewPending(e) => d = e

(* Every occurrence ends: however its executions fail, it is resumed until  *)
(* it is finished, or the schedule is switched off or paused.  Nights that  *)
(* interrupt it again and again are set aside.                             *)
RunsEnd == <>[]~quiet => (run # 0 ~> run = 0 \/ ~interval)

(* "Ambiguous sends pause recurrence until an operator reconciles the       *)
(* publication" (docs/architecture.md:94): an occurrence that claimed the   *)
(* publication of its draft itself does not end, and give way to the next, *)
(* while that publication is unresolved.                                   *)
UnresolvedPauses ==
  [][run # 0 /\ run' = 0 /\ draft # None /\ draft \notin byOthers
       /\ sentFor[draft] = run => draftStatus[draft] # "publishing"]_vars
=============================================================================
