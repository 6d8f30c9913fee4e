------------------------------- MODULE NewsJobs -------------------------------
(***************************************************************************)
(* The durable /news queue: telegram_news_jobs and its functions           *)
(* (db/migrations/20260814090000_add_telegram_news_jobs.sql), driven by    *)
(* TelegramNewsJobWorker (src/telegram/telegram-news-job-worker.ts) with   *)
(* TypedNewsJobWorkflowAdapter and TypedNewsJobDeliveryAdapter.            *)
(*                                                                         *)
(* A worker executes one job at a time under a fresh claim token, so the   *)
(* token and the lease owner id are the worker: when it is idle, a row     *)
(* still carrying its token was left by an execution that crashed or gave  *)
(* up, and a lease a dead process left is nobody's (Other).  A shutdown    *)
(* signal stops an execution as a crash does.  A job is named by its       *)
(* request, the Telegram update, which is unique to it.                    *)
(*                                                                         *)
(* Time is abstracted to what the functions compare: a claim is stale or   *)
(* not, a job is backing off or not, a lease is expired (gone) or not.     *)
(* Publication of a draft is module Publication seen from the caller.      *)
(***************************************************************************)
EXTENDS Naturals, FiniteSets

CONSTANTS
  Jobs,             \* /news requests
  Channel,          \* the channel a request is for
  Workers,          \* job workers, one to a process
  Drafts,           \* drafts research may create
  None,             \* SQL null
  Other,            \* a pipeline run that is not a live job worker's
  MaxExecutions,    \* maxExecutionAttempts
  MaxDeliveries,    \* maxDeliveryAttempts
  MaxFaults,        \* bound on crashes and failed or unanswered calls
  Stalls            \* may a live worker's claim and lease go stale?

ASSUME NewsJobsAssumption ==
  /\ None \notin Drafts \cup Jobs \cup Workers \cup {Other}
  /\ Other \notin Workers
  /\ MaxExecutions \in Nat \ {0} /\ MaxDeliveries \in Nat \ {0}
  /\ MaxFaults \in Nat
  /\ Stalls \in BOOLEAN

VARIABLES
  status, token,    \* of each job's row
  executions,       \* execution_attempt_count
  deliveries,       \* delivery_attempt_count
  outcome,          \* outcome_status, "none" for null
  result,           \* draft_id
  automatic,        \* settings_snapshot: is the approval policy automatic?
  stale,            \* jobs whose claimed_at is older than the threshold
  backingOff,       \* jobs whose available_at is in the future
  checkpoint,       \* telegram_news_request_checkpoints by request
  leaseOwner,       \* owner of the pipeline lease, None when free or expired
  draftStatus,      \* drafts.status; "blocked" is a policy rejection
  session,          \* review session of a draft
  madeFor,          \* the request a draft was made for
  told,             \* what the admin was told, by request
  pc, job, doc,     \* of each worker: point, claimed job, draft in hand
  found,            \*   outcome to checkpoint or record
  failure,          \*   the error on its way to execute()'s catch
  faults

rowVars    == <<status, token, executions, deliveries, outcome, result,
                automatic, stale, backingOff>>
draftVars  == <<draftStatus, session, madeFor>>
workerVars == <<pc, job, doc, found, failure>>
vars == <<rowVars, checkpoint, leaseOwner, draftVars, told, workerVars, faults>>

Active   == {"queued", "processing", "outcome_ready", "delivering"}
Claimed  == {"processing", "delivering"}
Ended    == {"completed", "failed", "suppressed"}
WithDraft == {"review_ready", "published", "blocked_by_policy"}
Results  == WithDraft \cup {"no_candidates"}
Answers  == Results \cup {"failed", "review_resolved"}
Points   == {"idle", "look", "acquire", "research", "release", "save",
             "approve", "publish", "send", "mark", "record", "retry",
             "deliver", "complete", "redeliver"}
NoCheckpoint == [status |-> "none", draft |-> None]

(* The CHECK constraints and the partial unique indexes of the table: every *)
(* statement below must leave rows it accepts.                             *)
RowChecks ==
  /\ \A i, j \in Jobs :
       /\ status[i] \in Claimed /\ status[j] \in Claimed => i = j
       /\ /\ status[i] \in Active /\ status[j] \in Active
          /\ Channel[i] = Channel[j]
          => i = j
  /\ \A j \in Jobs :
       /\ status[j] \in Claimed <=> token[j] # None
       /\ status[j] = "suppressed" <=> outcome[j] = "already_running"
       /\ result[j] # None <=> outcome[j] \in WithDraft

(* Each column and each execution holds a value of its type, and no        *)
(* statement of the queue is refused by the table.                         *)
TypeOK ==
  /\ RowChecks
  /\ status \in [Jobs -> {"absent"} \cup Active \cup Ended]
  /\ token \in [Jobs -> Workers \cup {None}]
  /\ executions \in [Jobs -> 0..MaxExecutions]
  /\ deliveries \in [Jobs -> 0..MaxDeliveries]
  /\ outcome \in [Jobs -> Results \cup {"none", "failed", "already_running"}]
  /\ result \in [Jobs -> Drafts \cup {None}]
  /\ automatic \in [Jobs -> BOOLEAN]
  /\ stale \subseteq Jobs /\ backingOff \subseteq Jobs
  /\ checkpoint \in [Jobs -> [status : Results \cup {"none"},
                              draft : Drafts \cup {None}]]
  /\ leaseOwner \in Workers \cup {None, Other}
  /\ draftStatus \in [Drafts -> {"absent", "review", "approved", "publishing",
                                 "published", "rejected", "blocked"}]
  /\ session \in [Drafts -> {"none", "pending", "resolved"}]
  /\ madeFor \in [Drafts -> Jobs \cup {None}]
  /\ told \in [Jobs -> SUBSET Answers]
  /\ pc \in [Workers -> Points]
  /\ job \in [Workers -> Jobs \cup {None}]
  /\ doc \in [Workers -> Drafts \cup {None}]
  /\ found \in [Workers -> Results \cup {"none"}]
  /\ failure \in [Workers -> {"none", "unresolved", "other"}]
  /\ faults \in 0..MaxFaults

Init ==
  /\ status = [j \in Jobs |-> "absent"]
  /\ token = [j \in Jobs |-> None]
  /\ executions = [j \in Jobs |-> 0] /\ deliveries = [j \in Jobs |-> 0]
  /\ outcome = [j \in Jobs |-> "none"]
  /\ result = [j \in Jobs |-> None]
  /\ automatic \in [Jobs -> BOOLEAN]
  /\ stale = {} /\ backingOff = {}
  /\ checkpoint = [j \in Jobs |-> NoCheckpoint]
  /\ leaseOwner = None
  /\ draftStatus = [d \in Drafts |-> "absent"]
  /\ session = [d \in Drafts |-> "none"]
  /\ madeFor = [d \in Drafts |-> None]
  /\ told = [j \in Jobs |-> {}]
  /\ pc = [w \in Workers |-> "idle"]
  /\ job = [w \in Workers |-> None]
  /\ doc = [w \in Workers |-> None]
  /\ found = [w \in Workers |-> "none"]
  /\ failure = [w \in Workers |-> "none"]
  /\ faults = 0

-----------------------------------------------------------------------------
(* Control of one worker *)

Goto(w, point) ==
  pc' = [pc EXCEPT ![w] = point] /\ UNCHANGED <<job, doc, found, failure>>

(* Go on with a finding about draft d.                                     *)
Find(w, r, d, point) ==
  /\ pc' = [pc EXCEPT ![w] = point]
  /\ found' = [found EXCEPT ![w] = r]
  /\ doc' = [doc EXCEPT ![w] = d]
  /\ UNCHANGED <<job, failure>>

Fail(w, kind, point) ==
  /\ pc' = [pc EXCEPT ![w] = point]
  /\ failure' = [failure EXCEPT ![w] = kind]
  /\ UNCHANGED <<job, doc, found>>

(* The catch of execute(): the error becomes a retry.                      *)
Throw(w, kind) == Fail(w, kind, "retry")

End(w) ==
  /\ pc' = [pc EXCEPT ![w] = "idle"]
  /\ job' = [job EXCEPT ![w] = None]
  /\ doc' = [doc EXCEPT ![w] = None]
  /\ found' = [found EXCEPT ![w] = "none"]
  /\ failure' = [failure EXCEPT ![w] = "none"]

Faulty == faults < MaxFaults /\ faults' = faults + 1

(* A call that took effect is answered, or its answer is lost.             *)
Answered(ok, lost) == (ok /\ UNCHANGED faults) \/ (lost /\ Faulty)

(* Every statement of a worker is fenced by phase and claim token.         *)
Holds(w, phase) == status[job[w]] = phase /\ token[job[w]] = w

SetStatus(j, s) == status' = [status EXCEPT ![j] = s]
Unclaim(j) == token' = [token EXCEPT ![j] = None] /\ stale' = stale \ {j}

-----------------------------------------------------------------------------
(* The queue *)

(* Mutant: a request is queued behind the active one of its channel.       *)
ChannelBusyNever(j) == FALSE
ChannelBusy(j) ==
  \E i \in Jobs : status[i] \in Active /\ Channel[i] = Channel[j]

(* Enqueueing the same update again finds its row and changes nothing.     *)
EnqueueTelegramNewsJob(j) ==
  /\ status[j] = "absent"
  /\ \/ /\ ChannelBusy(j)
        /\ SetStatus(j, "suppressed")
        /\ outcome' = [outcome EXCEPT ![j] = "already_running"]
     \/ /\ ~ChannelBusy(j)
        /\ SetStatus(j, "queued")
        /\ UNCHANGED outcome
  /\ UNCHANGED <<token, executions, deliveries, result, automatic, stale,
                 backingOff, checkpoint, leaseOwner, draftVars, told,
                 workerVars, faults>>

(* Mutant: a claim is never taken over.                                    *)
CandidateUnclaimed(j) ==
  /\ \A i \in Jobs : status[i] \notin Claimed
  /\ status[j] \in {"queued", "outcome_ready"} /\ j \notin backingOff

(* One job is claimed at a time; a stale claim goes before waiting jobs.    *)
Candidate(j) ==
  /\ \A i \in Jobs : status[i] \in Claimed => i \in stale
  /\ IF \E i \in Jobs : status[i] \in Claimed
     THEN status[j] \in Claimed
     ELSE status[j] \in {"queued", "outcome_ready"} /\ j \notin backingOff

(* A stale claim whose attempt was the last is ended, not claimed.         *)
SpendLastExecution(j) ==
  /\ status[j] = "processing" /\ executions[j] + 1 >= MaxExecutions
  /\ SetStatus(j, "outcome_ready")
  /\ executions' = [executions EXCEPT ![j] = @ + 1]
  /\ outcome' = [outcome EXCEPT ![j] = "failed"]
  /\ Unclaim(j)
  /\ UNCHANGED <<deliveries, workerVars>>

SpendLastDelivery(j) ==
  /\ status[j] = "delivering" /\ deliveries[j] + 1 >= MaxDeliveries
  /\ SetStatus(j, "failed")
  /\ deliveries' = [deliveries EXCEPT ![j] = @ + 1]
  /\ Unclaim(j)
  /\ UNCHANGED <<executions, outcome, workerVars>>

TakeJob(w, j) ==
  LET executing == status[j] \in {"queued", "processing"} IN
  /\ status[j] = "processing" => executions[j] + 1 < MaxExecutions
  /\ status[j] = "delivering" => deliveries[j] + 1 < MaxDeliveries
  /\ SetStatus(j, IF executing THEN "processing" ELSE "delivering")
  /\ token' = [token EXCEPT ![j] = w] /\ stale' = stale \ {j}
  /\ executions' = [executions EXCEPT ![j] =
                      IF status[j] = "processing" THEN @ + 1 ELSE @]
  /\ deliveries' = [deliveries EXCEPT ![j] =
                      IF status[j] = "delivering" THEN @ + 1 ELSE @]
  /\ pc' = [pc EXCEPT ![w] = IF executing THEN "look" ELSE "deliver"]
  /\ job' = [job EXCEPT ![w] = j]
  /\ UNCHANGED <<outcome, doc, found, failure>>

ClaimNextTelegramNewsJob(w) ==
  /\ pc[w] = "idle"
  /\ \E j \in Jobs :
       /\ Candidate(j)
       /\ SpendLastExecution(j) \/ SpendLastDelivery(j) \/ TakeJob(w, j)
  /\ UNCHANGED <<result, automatic, backingOff, checkpoint, leaseOwner,
                 draftVars, told, faults>>

(* The heartbeat of a live worker; what it returns is ignored.             *)
RenewTelegramNewsJobClaim(w) ==
  /\ job[w] # None /\ token[job[w]] = w /\ job[w] \in stale
  /\ stale' = stale \ {job[w]}
  /\ UNCHANGED <<status, token, executions, deliveries, outcome, result,
                 automatic, backingOff, checkpoint, leaseOwner, draftVars, told,
                 workerVars, faults>>

(* record_telegram_news_job_outcome                                        *)
RecordOutcome(w) ==
  LET j == job[w] IN
  /\ Holds(w, "processing")
  /\ SetStatus(j, "outcome_ready")
  /\ outcome' = [outcome EXCEPT ![j] = found[w]]
  /\ result' = [result EXCEPT ![j] = doc[w]]
  /\ Unclaim(j)
  /\ UNCHANGED <<executions, deliveries, automatic, backingOff>>

(* Mutant: the retry is not fenced by phase and token.                     *)
RetryJobUnfenced(w) ==
  LET j == job[w]
      last == executions[j] + 1 >= MaxExecutions
  IN
  /\ executions[j] < MaxExecutions
  /\ executions' = [executions EXCEPT ![j] = @ + 1]
  /\ SetStatus(j, IF last THEN "outcome_ready" ELSE "queued")
  /\ outcome' = [outcome EXCEPT ![j] = IF last THEN "failed" ELSE "none"]
  /\ result' = [result EXCEPT ![j] = None]
  /\ Unclaim(j)
  /\ UNCHANGED <<deliveries, automatic, backingOff>>

(* retry_telegram_news_job; the worker's classifier makes no error terminal. *)
RetryJob(w) ==
  LET j == job[w]
      last == executions[j] + 1 >= MaxExecutions
  IN
  /\ Holds(w, "processing")
  /\ executions' = [executions EXCEPT ![j] = @ + 1]
  /\ SetStatus(j, IF last THEN "outcome_ready" ELSE "queued")
  /\ outcome' = [outcome EXCEPT ![j] = IF last THEN "failed" ELSE "none"]
  /\ backingOff' = (IF last THEN backingOff ELSE backingOff \cup {j})
  /\ Unclaim(j)
  /\ UNCHANGED <<deliveries, result, automatic>>

(* retry_telegram_news_job_delivery                                        *)
RetryDelivery(w) ==
  LET j == job[w]
      last == deliveries[j] + 1 >= MaxDeliveries
  IN
  /\ Holds(w, "delivering")
  /\ deliveries' = [deliveries EXCEPT ![j] = @ + 1]
  /\ SetStatus(j, IF last THEN "failed" ELSE "outcome_ready")
  /\ backingOff' = (IF last THEN backingOff ELSE backingOff \cup {j})
  /\ Unclaim(j)
  /\ UNCHANGED <<executions, outcome, result, automatic>>

(* complete_telegram_news_job                                              *)
CompleteJob(w) ==
  /\ Holds(w, "delivering")
  /\ SetStatus(job[w], "completed")
  /\ Unclaim(job[w])
  /\ UNCHANGED <<executions, deliveries, outcome, result, automatic, backingOff>>

-----------------------------------------------------------------------------
(* The workflow: TypedNewsJobWorkflowAdapter.run() *)

(* Mutant: the checkpoint is not read first.                               *)
ResumableNever(j) == FALSE
Resumable(j) == checkpoint[j] # NoCheckpoint

(* What the research of an earlier execution left is reported, or its      *)
(* publication is resumed.                                                 *)
Look(w) ==
  LET c == checkpoint[job[w]] IN
  /\ pc[w] = "look"
  /\ \/ /\ ~Resumable(job[w]) /\ Goto(w, "acquire")
     \/ /\ Resumable(job[w])
        /\ Find(w, c.status, c.draft,
                IF c.status = "review_ready" /\ automatic[job[w]]
                THEN "approve" ELSE "record")
  /\ UNCHANGED <<rowVars, checkpoint, leaseOwner, draftVars, told, faults>>

AcquireLease(w) ==
  /\ pc[w] = "acquire"
  /\ \/ leaseOwner \in {None, w} /\ leaseOwner' = w /\ Goto(w, "research")
     \/ leaseOwner \notin {None, w} /\ Throw(w, "other") /\ UNCHANGED leaseOwner
  /\ UNCHANGED <<rowVars, checkpoint, draftVars, told, faults>>

(* The tiers: a selection is drafted under the lease, or every tier comes  *)
(* back empty, or a provider, the budget or create_review_draft refuses.   *)
Research(w) ==
  /\ pc[w] = "research"
  /\ \/ \E d \in Drafts :
          /\ draftStatus[d] = "absent" /\ leaseOwner = w
          /\ draftStatus' = [draftStatus EXCEPT ![d] = "review"]
          /\ madeFor' = [madeFor EXCEPT ![d] = job[w]]
          /\ Answered(Find(w, "review_ready", d, "release"),
                      Fail(w, "other", "release"))
     \/ /\ Find(w, "no_candidates", None, "release")
        /\ UNCHANGED <<draftStatus, madeFor, faults>>
     \/ /\ Fail(w, "other", "release")
        /\ UNCHANGED <<draftStatus, madeFor, faults>>
  /\ UNCHANGED <<rowVars, checkpoint, leaseOwner, session, told>>

(* The finally of the research.  A lost lease is an error only if the      *)
(* heartbeat noticed it, and a failed release is ignored.                  *)
ReleaseLease(w) ==
  /\ pc[w] = "release"
  /\ \/ leaseOwner' = (IF leaseOwner = w THEN None ELSE leaseOwner) /\ UNCHANGED faults
     \/ UNCHANGED leaseOwner /\ Faulty
  /\ \/ failure[w] = "none" /\ Goto(w, "save")
     \/ failure[w] # "none" /\ Goto(w, "retry")
     \/ leaseOwner # w /\ Throw(w, "other")
  /\ UNCHANGED <<rowVars, checkpoint, draftVars, told>>

(* Mutant: a finding that is not for review is reported without a          *)
(* checkpoint.                                                             *)
UpsertForReview(w) ==
  checkpoint' = IF found[w] = "review_ready"
                THEN [checkpoint EXCEPT ![job[w]] = [status |-> found[w], draft |-> doc[w]]]
                ELSE checkpoint

(* saveTelegramNewsCheckpoint: whoever saves last wins.                    *)
Upsert(w) ==
  checkpoint' = [checkpoint EXCEPT ![job[w]] = [status |-> found[w], draft |-> doc[w]]]

SaveTelegramNewsCheckpoint(w) ==
  /\ pc[w] \in {"save", "mark"}
  /\ Upsert(w)
  /\ Answered(Goto(w, IF found[w] = "review_ready" /\ automatic[job[w]]
                      THEN "approve" ELSE "record"),
              Throw(w, "other"))
  /\ UNCHANGED <<rowVars, leaseOwner, draftVars, told>>

ApproveDraft(w) ==
  LET d == doc[w] IN
  /\ pc[w] = "approve"
  /\ \/ /\ draftStatus[d] = "review"
        /\ draftStatus' = [draftStatus EXCEPT ![d] = "approved"]
        /\ Answered(Goto(w, "publish"), Throw(w, "other"))
     \/ /\ draftStatus[d] \in {"approved", "publishing", "published"}
        /\ Goto(w, "publish")
        /\ UNCHANGED <<draftStatus, faults>>
     \/ /\ draftStatus[d] \in {"rejected", "blocked"}
        /\ Throw(w, "other")
        /\ UNCHANGED <<draftStatus, faults>>
  /\ UNCHANGED <<rowVars, checkpoint, leaseOwner, session, madeFor, told>>

(* Publication up to the claim of the draft.                               *)
ClaimPublication(w) ==
  LET d == doc[w] IN
  /\ pc[w] = "publish"
  /\ \/ /\ draftStatus[d] = "published"
        /\ Find(w, "published", d, "mark") /\ UNCHANGED draftStatus
     \/ /\ draftStatus[d] \in {"approved", "blocked"}
        /\ draftStatus' = [draftStatus EXCEPT ![d] = "blocked"]
        /\ Find(w, "blocked_by_policy", d, "mark")
     \/ /\ draftStatus[d] = "approved"
        /\ draftStatus' = [draftStatus EXCEPT ![d] = "publishing"]
        /\ Goto(w, "send")
     \/ /\ draftStatus[d] \in {"review", "publishing", "rejected"}
        /\ Throw(w, "other") /\ UNCHANGED draftStatus
  /\ UNCHANGED <<rowVars, checkpoint, leaseOwner, session, madeFor, told, faults>>

(* Mutant: a send that was not answered is taken for done.                 *)
SendUnresolvedAsDone(w) ==
  LET d == doc[w] IN
  /\ pc[w] = "send"
  /\ \/ draftStatus' = [draftStatus EXCEPT ![d] = "published"]
     \/ UNCHANGED draftStatus
  /\ Find(w, "published", d, "mark")
  /\ UNCHANGED <<rowVars, checkpoint, leaseOwner, session, madeFor, told, faults>>

(* The send and its receipt: published, rejected by Telegram, or left      *)
(* unresolved, sent or not.                                                *)
SendPublication(w) ==
  LET d == doc[w] IN
  /\ pc[w] = "send"
  /\ \/ /\ draftStatus' = [draftStatus EXCEPT ![d] = "published"]
        /\ Find(w, "published", d, "mark")
     \/ /\ draftStatus' = [draftStatus EXCEPT ![d] = "approved"]
        /\ Throw(w, "other")
     \/ /\ Throw(w, "unresolved")
        /\ UNCHANGED draftStatus
  /\ UNCHANGED <<rowVars, checkpoint, leaseOwner, session, madeFor, told, faults>>

-----------------------------------------------------------------------------
(* The worker: execute() and deliver() *)

(* A lost claim is an error, whose retry then finds the claim lost too; so  *)
(* is a lost answer, and the retry finds the outcome recorded.             *)
RecordTelegramNewsJobOutcome(w) ==
  /\ pc[w] = "record"
  /\ \/ RecordOutcome(w) /\ Answered(End(w), Throw(w, "other"))
     \/ /\ ~Holds(w, "processing") /\ Throw(w, "other")
        /\ UNCHANGED <<rowVars, faults>>
  /\ UNCHANGED <<checkpoint, leaseOwner, draftVars, told>>

RetryTelegramNewsJob(w) ==
  /\ pc[w] = "retry"
  /\ RetryJob(w) \/ (~Holds(w, "processing") /\ UNCHANGED rowVars)
  /\ End(w)
  /\ UNCHANGED <<checkpoint, leaseOwner, draftVars, told, faults>>

Tell(w, what) == told' = [told EXCEPT ![job[w]] = @ \cup {what}]

ReviewCheckpointed(j) ==
  checkpoint[j] = [status |-> "review_ready", draft |-> result[j]]

(* The review is presented: its message is sent and its session opened,    *)
(* or, once it was decided, the admin is told so.                          *)
PresentReview(w) ==
  LET d == result[job[w]] IN
  /\ ReviewCheckpointed(job[w])
  /\ IF session[d] = "resolved"
     THEN Tell(w, "review_resolved") /\ UNCHANGED session
     ELSE /\ Tell(w, "review_ready")
          /\ session' = [session EXCEPT ![d] = "pending"]

Deliver(w) ==
  /\ pc[w] = "deliver"
  /\ \/ /\ \/ outcome[job[w]] = "review_ready" /\ PresentReview(w)
           \/ /\ outcome[job[w]] # "review_ready"
              /\ Tell(w, outcome[job[w]]) /\ UNCHANGED session
        /\ Answered(Goto(w, "complete"), Goto(w, "redeliver"))
     \/ Goto(w, "redeliver") /\ UNCHANGED <<told, session, faults>>
  /\ UNCHANGED <<rowVars, checkpoint, leaseOwner, draftStatus, madeFor>>

CompleteTelegramNewsJob(w) ==
  /\ pc[w] = "complete"
  /\ \/ CompleteJob(w) /\ Answered(End(w), Goto(w, "redeliver"))
     \/ /\ ~Holds(w, "delivering") /\ Goto(w, "redeliver")
        /\ UNCHANGED <<rowVars, faults>>
  /\ UNCHANGED <<checkpoint, leaseOwner, draftVars, told>>

RetryTelegramNewsJobDelivery(w) ==
  /\ pc[w] = "redeliver"
  /\ RetryDelivery(w) \/ (~Holds(w, "delivering") /\ UNCHANGED rowVars)
  /\ End(w)
  /\ UNCHANGED <<checkpoint, leaseOwner, draftVars, told, faults>>

-----------------------------------------------------------------------------
(* Faults, time and the rest of the system *)

(* A call fails before it takes effect.  A failed retry ends the iteration *)
(* and leaves the claim to go stale.                                       *)
CallFails(w) ==
  /\ \/ /\ pc[w] \in {"look", "acquire", "save", "approve", "publish", "mark",
                      "record"}
        /\ Throw(w, "other")
     \/ pc[w] = "complete" /\ Goto(w, "redeliver")
     \/ pc[w] \in {"retry", "redeliver"} /\ End(w)
  /\ Faulty
  /\ UNCHANGED <<rowVars, checkpoint, leaseOwner, draftVars, told>>

Crash(w) ==
  /\ pc[w] # "idle"
  /\ End(w)
  /\ leaseOwner' = (IF leaseOwner = w THEN Other ELSE leaseOwner)
  /\ Faulty
  /\ UNCHANGED <<rowVars, checkpoint, draftVars, told>>

BackoffEnds(j) ==
  /\ j \in backingOff
  /\ backingOff' = backingOff \ {j}
  /\ UNCHANGED <<status, token, executions, deliveries, outcome, result,
                 automatic, stale, checkpoint, leaseOwner, draftVars, told,
                 workerVars, faults>>

(* A claim nobody works under goes stale; with Stalls, any claim may.      *)
ClaimGoesStale(j) ==
  /\ status[j] \in Claimed /\ j \notin stale
  /\ Stalls \/ job[token[j]] # j
  /\ stale' = stale \cup {j}
  /\ UNCHANGED <<status, token, executions, deliveries, outcome, result,
                 automatic, backingOff, checkpoint, leaseOwner, draftVars, told,
                 workerVars, faults>>

(* A live worker renews the lease it researches under.                     *)
LeaseRenewed ==
  \E w \in Workers : leaseOwner = w /\ pc[w] \in {"research", "release"}

LeaseExpires ==
  /\ leaseOwner # None /\ (LeaseRenewed => Stalls)
  /\ leaseOwner' = None
  /\ UNCHANGED <<rowVars, checkpoint, draftVars, told, workerVars, faults>>

(* A scheduled or CLI run takes the lease.                                 *)
OtherPipeline ==
  /\ leaseOwner = None /\ leaseOwner' = Other
  /\ UNCHANGED <<rowVars, checkpoint, draftVars, told, workerVars, faults>>

(* The admin decides a review, and publishes what was approved.            *)
DecideReview(d) ==
  /\ session[d] = "pending" /\ draftStatus[d] = "review"
  /\ session' = [session EXCEPT ![d] = "resolved"]
  /\ \E s \in {"approved", "publishing", "published", "rejected", "blocked"} :
       draftStatus' = [draftStatus EXCEPT ![d] = s]
  /\ UNCHANGED <<rowVars, checkpoint, leaseOwner, madeFor, told, workerVars, faults>>

(* The operator confirms or releases a draft no worker is sending.         *)
Reconcile(d) ==
  /\ draftStatus[d] = "publishing"
  /\ \A w \in Workers : ~(pc[w] = "send" /\ doc[w] = d)
  /\ \E s \in {"approved", "published"} :
       draftStatus' = [draftStatus EXCEPT ![d] = s]
  /\ UNCHANGED <<rowVars, checkpoint, leaseOwner, session, madeFor, told,
                 workerVars, faults>>

-----------------------------------------------------------------------------
WorkflowStep(w) ==
  \/ Look(w) \/ AcquireLease(w) \/ Research(w) \/ ReleaseLease(w)
  \/ SaveTelegramNewsCheckpoint(w) \/ ApproveDraft(w) \/ ClaimPublication(w)
  \/ SendPublication(w)

WorkerStep(w) ==
  \/ RecordTelegramNewsJobOutcome(w) \/ RetryTelegramNewsJob(w)
  \/ Deliver(w) \/ CompleteTelegramNewsJob(w) \/ RetryTelegramNewsJobDelivery(w)

Next ==
  \/ \E j \in Jobs : EnqueueTelegramNewsJob(j) \/ BackoffEnds(j) \/ ClaimGoesStale(j)
  \/ \E w \in Workers :
       \/ ClaimNextTelegramNewsJob(w) \/ RenewTelegramNewsJobClaim(w)
       \/ WorkflowStep(w) \/ WorkerStep(w) \/ CallFails(w) \/ Crash(w)
  \/ \E d \in Drafts : DecideReview(d) \/ Reconcile(d)
  \/ LeaseExpires \/ OtherPipeline

Spec == Init /\ [][Next]_vars

(* Workers poll and execute, and time passes.                              *)
Fairness ==
  /\ \A w \in Workers : /\ WF_vars(ClaimNextTelegramNewsJob(w))
                        /\ WF_vars(WorkflowStep(w) \/ WorkerStep(w))
  /\ \A j \in Jobs : WF_vars(BackoffEnds(j)) /\ WF_vars(ClaimGoesStale(j))

FairSpec == Spec /\ Fairness

-----------------------------------------------------------------------------
(* Properties *)

(* What a row's status shows of its request.                               *)
Phase(s) ==
  CASE s = "absent" -> "none"
    [] s \in {"queued", "processing"} -> "accepted"
    [] s \in {"outcome_ready", "delivering"} -> "settled"
    [] s = "completed" -> "answered"
    [] s = "failed" -> "given_up"
    [] s = "suppressed" -> "refused"

Promise == INSTANCE RequestPromise WITH
  Requests <- Jobs, Findings <- Results,
  phase <- [j \in Jobs |-> Phase(status[j])], answer <- outcome

(* The queue implements its promise, whoever stalls, crashes or loses its  *)
(* claim: one open request of a channel, an answer settled once, never     *)
(* taken back by a retry, a delivery or a worker whose claim is gone, and  *)
(* a request completed only when the admin was told.                       *)
KeepsRequestPromise == Promise!Spec

(* An accepted request is settled and closed, whatever fails, within the   *)
(* attempt budgets.                                                        *)
RequestsAreClosed == Promise!OpenRequestsClose

Out == {"publishing", "published"}

(* However often a request is executed, one article of it reaches the      *)
(* channel at most: crashes between research, checkpoint, send and         *)
(* outcome resume the draft that is there.                                 *)
OneArticlePerRequest ==
  \A d, e \in Drafts :
    madeFor[d] = madeFor[e] /\ draftStatus[d] \in Out /\ draftStatus[e] \in Out
    => d = e

(* A recorded outcome is the one in the checkpoint, which delivery reads:   *)
(* a job whose outcome the checkpoint contradicts can never be delivered.   *)
OutcomeIsCheckpointed ==
  \A j \in Jobs : outcome[j] \in Results =>
    checkpoint[j] = [status |-> outcome[j], draft |-> result[j]]

(* What the admin reads is so: a published article is in the channel, and   *)
(* nothing is when publication was reported as blocked.                    *)
ToldTheTruth ==
  \A j \in Jobs :
    /\ "published" \in told[j] => draftStatus[result[j]] = "published"
    /\ "blocked_by_policy" \in told[j] =>
         \A d \in Drafts : madeFor[d] = j => draftStatus[d] \notin Out
=============================================================================
