---------------------------- MODULE NewsJobsProofs ----------------------------
(***************************************************************************)
(* Theorems about NewsJobs, for any requests, channels, workers, drafts    *)
(* and attempt budgets, whether or not workers stall.                      *)
(***************************************************************************)
EXTENDS NewsJobs, TLAPS

USE DEF Active, Claimed, Ended, WithDraft, Results, Answers, Points

Settled == {"outcome_ready", "delivering", "completed", "failed"}

RowType ==
  /\ status \in [Jobs -> {"absent"} \cup Active \cup Ended]
  /\ token \in [Jobs -> Workers \cup {None}]
  /\ executions \in [Jobs -> 0..MaxExecutions]
  /\ deliveries \in [Jobs -> 0..MaxDeliveries]
  /\ outcome \in [Jobs -> Results \cup {"none", "failed", "already_running"}]
  /\ result \in [Jobs -> Drafts \cup {None}]
  /\ stale \subseteq Jobs /\ backingOff \subseteq Jobs

(* A job is worked on only while its attempts last.                        *)
Budgets ==
  \A j \in Jobs :
    /\ status[j] \in {"absent", "queued", "processing"} =>
         executions[j] < MaxExecutions
    /\ status[j] \notin {"completed", "failed"} => deliveries[j] < MaxDeliveries

(* A job is answered when it is settled, and not before.                   *)
AnsweredWhenSettled ==
  \A j \in Jobs :
    /\ status[j] \in {"absent", "queued", "processing"} => outcome[j] = "none"
    /\ status[j] \in Settled => outcome[j] \in Results \cup {"failed"}

RowInv == RowType /\ RowChecks /\ Budgets /\ AnsweredWhenSettled

ControlType ==
  /\ pc \in [Workers -> Points]
  /\ job \in [Workers -> Jobs \cup {None}]
  /\ doc \in [Workers -> Drafts \cup {None}]
  /\ found \in [Workers -> Results \cup {"none"}]
  /\ failure \in [Workers -> {"none", "unresolved", "other"}]

(* A finding names a draft if it is about one.                             *)
Finding(r, d) == r \in Results /\ (d # None <=> r \in WithDraft)

NeedsDraft == {"approve", "publish", "send"}
NeedsFinding == {"save", "approve", "mark", "record"}

(* A worker past its claim has a job, one that publishes has a draft, and   *)
(* one that saves or records has a finding.                                *)
Equipped ==
  \A w \in Workers :
    /\ pc[w] = "idle" <=> job[w] = None
    /\ pc[w] \in NeedsDraft => doc[w] # None
    /\ \/ pc[w] \in NeedsFinding
       \/ pc[w] = "release" /\ failure[w] = "none"
       => Finding(found[w], doc[w])

ControlInv == ControlType /\ Equipped

DraftType ==
  /\ draftStatus \in [Drafts -> {"absent", "review", "approved", "publishing",
                                 "published", "rejected", "blocked"}]
  /\ session \in [Drafts -> {"none", "pending", "resolved"}]
  /\ madeFor \in [Drafts -> Jobs \cup {None}]

RestType ==
  /\ leaseOwner \in Workers \cup {None, Other}
  /\ faults \in 0..MaxFaults

ToldType == told \in [Jobs -> SUBSET Answers]
SettingsType == automatic \in [Jobs -> BOOLEAN]

CheckpointInv ==
  /\ checkpoint \in [Jobs -> [status : Results \cup {"none"},
                              draft : Drafts \cup {None}]]
  /\ \A j \in Jobs : checkpoint[j] # NoCheckpoint =>
       Finding(checkpoint[j].status, checkpoint[j].draft)

(* Who delivers, delivers a settled job, and completes it after telling.   *)
Placed ==
  \A w \in Workers :
    /\ pc[w] \in {"deliver", "complete", "redeliver"} => status[job[w]] \in Settled
    /\ pc[w] = "complete" => told[job[w]] # {}

IInv ==
  /\ RowInv /\ ControlInv /\ DraftType /\ RestType /\ ToldType /\ SettingsType
  /\ CheckpointInv /\ Placed

-----------------------------------------------------------------------------
(* Control *)

(* Going on to a point keeps a worker equipped if it is for that point.    *)
LEMMA GotoKeeps ==
  ASSUME ControlInv, NEW w \in Workers, NEW point \in Points \ {"idle"},
         pc[w] # "idle", Goto(w, point),
         point \in NeedsDraft => doc[w] # None,
         point \in NeedsFinding \/ (point = "release" /\ failure[w] = "none")
           => Finding(found[w], doc[w])
  PROVE  ControlInv'
<1>1. ControlType'
  BY DEF ControlInv, ControlType, Goto
<1>2. Equipped'
  BY DEF ControlInv, ControlType, Equipped, Goto, NeedsDraft, NeedsFinding, Finding
<1> QED BY <1>1, <1>2 DEF ControlInv

(* So does a finding about a draft, or about none.                         *)
LEMMA FindKeeps ==
  ASSUME ControlInv, NEW w \in Workers, NEW point \in Points \ {"idle"},
         NEW r \in Results, NEW d \in Drafts \cup {None}, Finding(r, d),
         pc[w] # "idle", Find(w, r, d, point),
         point \in NeedsDraft => d # None
  PROVE  ControlInv'
<1>1. ControlType'
  BY DEF ControlInv, ControlType, Find
<1>2. Equipped'
  BY DEF ControlInv, ControlType, Equipped, Find, NeedsDraft, NeedsFinding, Finding
<1> QED BY <1>1, <1>2 DEF ControlInv

(* An error takes a worker to the end of its research or to its retry.      *)
LEMMA FailKeeps ==
  ASSUME ControlInv, NEW w \in Workers, NEW kind \in {"unresolved", "other"},
         NEW point \in {"release", "retry"}, pc[w] # "idle", Fail(w, kind, point)
  PROVE  ControlInv'
<1>1. ControlType'
  BY DEF ControlInv, ControlType, Fail
<1>2. Equipped'
  BY DEF ControlInv, ControlType, Equipped, Fail, NeedsDraft, NeedsFinding, Finding
<1> QED BY <1>1, <1>2 DEF ControlInv

(* A worker that ends has nothing.                                         *)
LEMMA EndKeeps ==
  ASSUME ControlInv, NEW w \in Workers, End(w)
  PROVE  ControlInv'
<1>1. ControlType'
  BY DEF ControlInv, ControlType, End
<1>2. Equipped'
  BY DEF ControlInv, ControlType, Equipped, End, NeedsDraft, NeedsFinding, Finding
<1> QED BY <1>1, <1>2 DEF ControlInv

(* Workers that no step moves stay equipped.                               *)
LEMMA WorkersUnchanged ==
  ASSUME ControlInv, UNCHANGED workerVars
  PROVE  ControlInv'
  BY DEF ControlInv, ControlType, Equipped, workerVars

-----------------------------------------------------------------------------
(* Rows *)

(* What was settled stays settled.                                         *)
StaysSettled == \A j \in Jobs : status[j] \in Settled => status'[j] \in Settled

(* Rows that no step writes keep their invariant.                          *)
LEMMA RowsUnchanged ==
  ASSUME RowInv, UNCHANGED rowVars
  PROVE  RowInv' /\ StaysSettled
<1> USE DEF RowInv, rowVars
<1>1. RowType' /\ StaysSettled
  BY DEF RowType, StaysSettled
<1>2. RowChecks'
  BY DEF RowChecks
<1>3. Budgets' /\ AnsweredWhenSettled'
  BY DEF Budgets, AnsweredWhenSettled
<1> QED BY <1>1, <1>2, <1>3

(* A request is queued only when no other of its channel is active.        *)
LEMMA EnqueueKeeps ==
  ASSUME RowInv, NEW j \in Jobs, EnqueueTelegramNewsJob(j)
  PROVE  RowInv' /\ StaysSettled
<1> USE NewsJobsAssumption
        DEF RowInv, EnqueueTelegramNewsJob, SetStatus, ChannelBusy
<1>1. RowType' /\ StaysSettled
  BY DEF RowType, StaysSettled, Settled
<1>2. RowChecks'
  BY DEF RowType, RowChecks, AnsweredWhenSettled
<1>3. Budgets' /\ AnsweredWhenSettled'
  BY DEF RowType, Budgets, AnsweredWhenSettled, Settled
<1> QED BY <1>1, <1>2, <1>3

(* A claim is given only when no other is fresh.                           *)
LEMMA TakeKeeps ==
  ASSUME RowInv, NEW w \in Workers, NEW j \in Jobs, Candidate(j), TakeJob(w, j),
         UNCHANGED <<result, backingOff>>
  PROVE  RowInv' /\ StaysSettled
<1> USE NewsJobsAssumption DEF RowInv, TakeJob, SetStatus, Candidate
<1>1. RowType' /\ StaysSettled
  BY DEF RowType, Budgets, StaysSettled, Settled
<1>2. RowChecks'
  BY DEF RowType, RowChecks
<1>3. Budgets'
  BY DEF RowType, Budgets
<1>4. AnsweredWhenSettled'
  BY DEF RowType, AnsweredWhenSettled, Settled
<1> QED BY <1>1, <1>2, <1>3, <1>4

(* A statement that ends a claim moves one job along.                      *)
LEMMA SpendKeeps ==
  ASSUME RowInv, NEW j \in Jobs, SpendLastExecution(j) \/ SpendLastDelivery(j),
         UNCHANGED <<result, backingOff>>
  PROVE  RowInv' /\ StaysSettled
<1> USE NewsJobsAssumption
        DEF RowInv, SpendLastExecution, SpendLastDelivery, SetStatus, Unclaim
<1>1. RowType' /\ StaysSettled
  BY DEF RowType, Budgets, StaysSettled, Settled
<1>2. RowChecks'
  BY DEF RowType, RowChecks, AnsweredWhenSettled
<1>3. Budgets'
  BY DEF RowType, Budgets
<1>4. AnsweredWhenSettled'
  BY DEF RowType, AnsweredWhenSettled, Settled
<1> QED BY <1>1, <1>2, <1>3, <1>4

(* So do the statements of an execution ...                                *)
LEMMA ExecutionStatementsKeep ==
  ASSUME RowInv, NEW w \in Workers, job[w] \in Jobs,
         \/ RetryJob(w)
         \/ RecordOutcome(w) /\ Finding(found[w], doc[w]) /\ doc[w] \in Drafts \cup {None}
  PROVE  RowInv' /\ StaysSettled
<1> USE NewsJobsAssumption
        DEF RowInv, RetryJob, RecordOutcome, Holds, SetStatus, Unclaim, Finding
<1>1. RowType' /\ StaysSettled
  BY DEF RowType, Budgets, StaysSettled, Settled
<1>2. RowChecks'
  BY DEF RowType, RowChecks, AnsweredWhenSettled
<1>3. Budgets'
  BY DEF RowType, Budgets
<1>4. AnsweredWhenSettled'
  BY DEF RowType, AnsweredWhenSettled, Settled
<1> QED BY <1>1, <1>2, <1>3, <1>4

(* ... and of a delivery.                                                  *)
LEMMA DeliveryStatementsKeep ==
  ASSUME RowInv, NEW w \in Workers, job[w] \in Jobs,
         RetryDelivery(w) \/ CompleteJob(w)
  PROVE  RowInv' /\ StaysSettled
<1> USE NewsJobsAssumption
        DEF RowInv, RetryDelivery, CompleteJob, Holds, SetStatus, Unclaim
<1>1. RowType' /\ StaysSettled
  BY DEF RowType, Budgets, StaysSettled, Settled
<1>2. RowChecks'
  BY DEF RowType, RowChecks, AnsweredWhenSettled
<1>3. Budgets'
  BY DEF RowType, Budgets
<1>4. AnsweredWhenSettled'
  BY DEF RowType, AnsweredWhenSettled, Settled
<1> QED BY <1>1, <1>2, <1>3, <1>4

(* A claim that goes stale or is renewed, and a backoff that ends, change   *)
(* nothing the row checks.                                                 *)
LEMMA ClocksKeep ==
  ASSUME RowInv, stale' \subseteq Jobs, backingOff' \subseteq Jobs,
         UNCHANGED <<status, token, executions, deliveries, outcome, result>>
  PROVE  RowInv' /\ StaysSettled
<1> USE DEF RowInv
<1>1. RowType' /\ StaysSettled
  BY DEF RowType, StaysSettled
<1>2. RowChecks'
  BY DEF RowChecks
<1>3. Budgets' /\ AnsweredWhenSettled'
  BY DEF Budgets, AnsweredWhenSettled
<1> QED BY <1>1, <1>2, <1>3

(* Placement follows: a worker keeps its job or ends, what is settled stays *)
(* so, and nothing told is untold.                                         *)
LEMMA PlacedKeeps ==
  ASSUME Placed, StaysSettled, ControlInv, NEW w \in Workers,
         \A v \in Workers \ {w} : pc'[v] = pc[v] /\ job'[v] = job[v],
         \/ pc'[w] \notin {"deliver", "complete", "redeliver"}
         \/ /\ job'[w] = job[w]
            /\ pc[w] \in {"deliver", "complete", "redeliver"}
            /\ pc'[w] = "complete" => told'[job[w]] # {},
         \A j \in Jobs : told[j] \subseteq told'[j]
  PROVE  Placed'
<1>1. \A v \in Workers : pc[v] # "idle" => job[v] \in Jobs
  BY DEF ControlInv, ControlType, Equipped
<1> QED BY <1>1 DEF Placed, StaysSettled

-----------------------------------------------------------------------------
(* The steps *)

(* What a workflow step leaves alone, and where it may go.                 *)
LEMMA WorkflowKeeps ==
  ASSUME IInv, NEW w \in Workers, WorkflowStep(w)
  PROVE  IInv'
<1> USE NewsJobsAssumption DEF IInv
<1>1. RowInv' /\ StaysSettled /\ ToldType' /\ SettingsType'
  <2>1. UNCHANGED rowVars /\ UNCHANGED told
    BY DEF WorkflowStep, Look, AcquireLease, Research, ReleaseLease,
           SaveTelegramNewsCheckpoint, ApproveDraft, ClaimPublication, SendPublication
  <2> QED BY <2>1, RowsUnchanged DEF rowVars, ToldType, SettingsType
<1>2. pc[w] \notin {"idle", "deliver", "complete", "redeliver"} /\ job[w] \in Jobs
  BY DEF WorkflowStep, Look, AcquireLease, Research, ReleaseLease,
         SaveTelegramNewsCheckpoint, ApproveDraft, ClaimPublication,
         SendPublication, ControlInv, ControlType, Equipped
<1>3. SUFFICES ControlInv' /\ DraftType' /\ RestType' /\ CheckpointInv'
  <2>1. /\ \A v \in Workers \ {w} : pc'[v] = pc[v] /\ job'[v] = job[v]
        /\ pc'[w] \notin {"deliver", "complete", "redeliver"}
    BY DEF WorkflowStep, Look, AcquireLease, Research, ReleaseLease,
           SaveTelegramNewsCheckpoint, ApproveDraft, ClaimPublication,
           SendPublication, Goto, Find, Throw, Fail, Answered, ControlInv, ControlType
  <2>2. UNCHANGED told
    BY DEF WorkflowStep, Look, AcquireLease, Research, ReleaseLease,
           SaveTelegramNewsCheckpoint, ApproveDraft, ClaimPublication, SendPublication
  <2>3. Placed'
    BY <1>1, <2>1, <2>2, PlacedKeeps
  <2> QED BY <1>1, <2>3
<1>4. CASE Look(w)
  <2>1. DraftType' /\ RestType' /\ CheckpointInv'
    BY <1>4 DEF Look, DraftType, RestType, CheckpointInv, draftVars
  <2>2. CASE Goto(w, "acquire")
    BY <1>2, <2>1, <2>2, GotoKeeps DEF NeedsDraft, NeedsFinding
  <2>3. CASE Resumable(job[w])
    <3> DEFINE c == checkpoint[job[w]]
               point == IF c.status = "review_ready" /\ automatic[job[w]]
                        THEN "approve" ELSE "record"
    <3>1. /\ c.status \in Results /\ c.draft \in Drafts \cup {None}
          /\ Finding(c.status, c.draft)
      BY <1>2, <2>3 DEF CheckpointInv, Resumable, Finding
    <3>2. point \in Points \ {"idle"} /\ (point \in NeedsDraft => c.draft # None)
      BY <3>1 DEF NeedsDraft, Finding
    <3>3. Find(w, c.status, c.draft, point)
      BY <1>4, <2>3 DEF Look
    <3> HIDE DEF c, point
    <3>4. ControlInv'
      BY <1>2, <3>1, <3>2, <3>3, FindKeeps
    <3> QED BY <2>1, <3>4
  <2> QED BY <1>4, <2>2, <2>3 DEF Look
<1>5. CASE AcquireLease(w)
  <2>1. DraftType' /\ RestType' /\ CheckpointInv'
    BY <1>5 DEF AcquireLease, DraftType, RestType, CheckpointInv, draftVars
  <2>2. ControlInv'
    BY <1>2, <1>5, GotoKeeps, FailKeeps DEF AcquireLease, Throw, NeedsDraft, NeedsFinding
  <2> QED BY <2>1, <2>2
<1>6. CASE Research(w)
  <2>1. DraftType' /\ RestType' /\ CheckpointInv'
    BY <1>2, <1>6
    DEF Research, DraftType, RestType, CheckpointInv, Answered, Faulty
  <2>2. CASE Fail(w, "other", "release")
    BY <1>2, <2>1, <2>2, FailKeeps
  <2>3. CASE Find(w, "no_candidates", None, "release")
    BY <1>2, <2>1, <2>3, FindKeeps DEF Finding, NeedsDraft
  <2>4. CASE \E d \in Drafts : Find(w, "review_ready", d, "release")
    BY <1>2, <2>1, <2>4, FindKeeps DEF Finding, NeedsDraft
  <2> QED BY <1>6, <2>2, <2>3, <2>4 DEF Research, Answered
<1>7. CASE ReleaseLease(w)
  <2>1. DraftType' /\ RestType' /\ CheckpointInv'
    BY <1>7 DEF ReleaseLease, DraftType, RestType, CheckpointInv, draftVars, Faulty
  <2>2. CASE failure[w] = "none" /\ Goto(w, "save")
    <3>1. Finding(found[w], doc[w])
      BY <1>7, <2>2 DEF ReleaseLease, ControlInv, Equipped
    <3> QED BY <1>2, <2>1, <2>2, <3>1, GotoKeeps DEF NeedsDraft, NeedsFinding
  <2>3. CASE Goto(w, "retry")
    BY <1>2, <2>1, <2>3, GotoKeeps DEF NeedsDraft, NeedsFinding
  <2>4. CASE Throw(w, "other")
    BY <1>2, <2>1, <2>4, FailKeeps DEF Throw
  <2> QED BY <1>7, <2>2, <2>3, <2>4 DEF ReleaseLease
<1>8. CASE SaveTelegramNewsCheckpoint(w)
  <2>1. Finding(found[w], doc[w]) /\ doc[w] \in Drafts \cup {None}
    BY <1>8 DEF SaveTelegramNewsCheckpoint, ControlInv, ControlType, Equipped, NeedsFinding
  <2>2. DraftType' /\ RestType'
    BY <1>8 DEF SaveTelegramNewsCheckpoint, DraftType, RestType, draftVars, Answered, Faulty
  <2>3. CheckpointInv'
    BY <1>2, <1>8, <2>1 DEF SaveTelegramNewsCheckpoint, CheckpointInv, Upsert, Finding
  <2>4. CASE Throw(w, "other")
    BY <1>2, <2>2, <2>3, <2>4, FailKeeps DEF Throw
  <2>5. CASE found[w] = "review_ready" /\ Goto(w, "approve")
    <3>1. doc[w] # None
      BY <2>1, <2>5 DEF Finding
    <3> QED BY <1>2, <2>1, <2>2, <2>3, <2>5, <3>1, GotoKeeps
  <2>6. CASE Goto(w, "record")
    BY <1>2, <2>1, <2>2, <2>3, <2>6, GotoKeeps DEF NeedsDraft
  <2> QED
    <3>1. \/ Throw(w, "other")
          \/ Goto(w, IF found[w] = "review_ready" /\ automatic[job[w]]
                     THEN "approve" ELSE "record")
      BY <1>8 DEF SaveTelegramNewsCheckpoint, Answered
    <3>2. CASE found[w] = "review_ready" /\ automatic[job[w]]
      BY <2>4, <2>5, <3>1, <3>2
    <3>3. CASE ~(found[w] = "review_ready" /\ automatic[job[w]])
      BY <2>4, <2>6, <3>1, <3>3
    <3> QED BY <3>2, <3>3
<1>9. CASE ApproveDraft(w)
  <2>1. doc[w] \in Drafts
    BY <1>9 DEF ApproveDraft, ControlInv, ControlType, Equipped, NeedsDraft
  <2>2. DraftType' /\ RestType' /\ CheckpointInv'
    BY <1>9, <2>1 DEF ApproveDraft, DraftType, RestType, CheckpointInv, Answered, Faulty
  <2>3. CASE Throw(w, "other")
    BY <1>2, <2>2, <2>3, FailKeeps DEF Throw
  <2>4. CASE Goto(w, "publish")
    BY <1>2, <2>1, <2>2, <2>4, GotoKeeps DEF NeedsDraft, NeedsFinding
  <2> QED BY <1>9, <2>3, <2>4 DEF ApproveDraft, Answered
<1>10. CASE ClaimPublication(w)
  <2>1. doc[w] \in Drafts
    BY <1>10 DEF ClaimPublication, ControlInv, ControlType, Equipped, NeedsDraft
  <2>2. DraftType' /\ RestType' /\ CheckpointInv'
    BY <1>10, <2>1 DEF ClaimPublication, DraftType, RestType, CheckpointInv
  <2>3. CASE Throw(w, "other")
    BY <1>2, <2>2, <2>3, FailKeeps DEF Throw
  <2>4. CASE Goto(w, "send")
    BY <1>2, <2>1, <2>2, <2>4, GotoKeeps DEF NeedsDraft, NeedsFinding
  <2>5. CASE \/ Find(w, "published", doc[w], "mark")
             \/ Find(w, "blocked_by_policy", doc[w], "mark")
    <3>1. Finding("published", doc[w]) /\ Finding("blocked_by_policy", doc[w])
      BY <2>1, NewsJobsAssumption DEF Finding
    <3> QED BY <1>2, <2>1, <2>2, <2>5, <3>1, FindKeeps DEF NeedsDraft
  <2> QED BY <1>10, <2>3, <2>4, <2>5 DEF ClaimPublication
<1>11. CASE SendPublication(w)
  <2>1. doc[w] \in Drafts
    BY <1>11 DEF SendPublication, ControlInv, ControlType, Equipped, NeedsDraft
  <2>2. DraftType' /\ RestType' /\ CheckpointInv'
    BY <1>11, <2>1 DEF SendPublication, DraftType, RestType, CheckpointInv
  <2>3. CASE Throw(w, "other") \/ Throw(w, "unresolved")
    BY <1>2, <2>2, <2>3, FailKeeps DEF Throw
  <2>4. CASE Find(w, "published", doc[w], "mark")
    <3>1. Finding("published", doc[w])
      BY <2>1, NewsJobsAssumption DEF Finding
    <3> QED BY <1>2, <2>1, <2>2, <2>4, <3>1, FindKeeps DEF NeedsDraft
  <2> QED BY <1>11, <2>3, <2>4 DEF SendPublication
<1> QED BY <1>4, <1>5, <1>6, <1>7, <1>8, <1>9, <1>10, <1>11 DEF WorkflowStep

(* What a step of execute() or deliver() does to the shared state.         *)
LEMMA WorkerStepKeeps ==
  ASSUME IInv, NEW w \in Workers, WorkerStep(w)
  PROVE  IInv'
<1> USE NewsJobsAssumption DEF IInv
<1> DEFINE Delivering == {"deliver", "complete", "redeliver"}
<1>1. pc[w] # "idle" /\ job[w] \in Jobs
  BY DEF WorkerStep, RecordTelegramNewsJobOutcome, RetryTelegramNewsJob, Deliver,
         CompleteTelegramNewsJob, RetryTelegramNewsJobDelivery, ControlInv,
         ControlType, Equipped
<1>2. CheckpointInv' /\ SettingsType' /\ RestType'
  <2>1. UNCHANGED <<checkpoint, automatic, leaseOwner>> /\ (Faulty \/ UNCHANGED faults)
    BY DEF WorkerStep, RecordTelegramNewsJobOutcome, RetryTelegramNewsJob, Deliver,
           CompleteTelegramNewsJob, RetryTelegramNewsJobDelivery, rowVars,
           Answered, RecordOutcome, RetryJob, RetryDelivery, CompleteJob
  <2> QED BY <2>1 DEF CheckpointInv, SettingsType, RestType, Faulty
<1>3. CASE RecordTelegramNewsJobOutcome(w)
  <2>1. DraftType' /\ ToldType' /\ UNCHANGED told
    BY <1>3 DEF RecordTelegramNewsJobOutcome, DraftType, draftVars, ToldType
  <2>2. Finding(found[w], doc[w]) /\ doc[w] \in Drafts \cup {None}
    BY <1>3 DEF RecordTelegramNewsJobOutcome, ControlInv, ControlType, Equipped,
                NeedsFinding
  <2>3. RowInv' /\ StaysSettled
    BY <1>1, <1>3, <2>2, RowsUnchanged, ExecutionStatementsKeep
    DEF RecordTelegramNewsJobOutcome
  <2>4. End(w) \/ Throw(w, "other")
    BY <1>3 DEF RecordTelegramNewsJobOutcome, Answered
  <2>5. ControlInv'
    BY <1>1, <2>4, EndKeeps, FailKeeps DEF Throw
  <2>6. Placed'
    BY <2>1, <2>3, <2>4, PlacedKeeps DEF End, Throw, Fail, ControlInv, ControlType
  <2> QED BY <1>2, <2>1, <2>3, <2>5, <2>6
<1>4. CASE RetryTelegramNewsJob(w)
  <2>1. DraftType' /\ ToldType' /\ UNCHANGED told
    BY <1>4 DEF RetryTelegramNewsJob, DraftType, draftVars, ToldType
  <2>2. RowInv' /\ StaysSettled
    BY <1>1, <1>4, RowsUnchanged, ExecutionStatementsKeep DEF RetryTelegramNewsJob
  <2>3. End(w)
    BY <1>4 DEF RetryTelegramNewsJob
  <2>4. Placed'
    BY <2>1, <2>2, <2>3, PlacedKeeps DEF End, ControlInv, ControlType
  <2> QED BY <1>2, <2>1, <2>2, <2>3, <2>4, EndKeeps
<1>5. CASE Deliver(w)
  <2>1. status[job[w]] \in Settled
    BY <1>5 DEF Deliver, Placed
  <2>2. RowInv' /\ StaysSettled
    BY <1>5, RowsUnchanged DEF Deliver
  <2>3. CASE /\ Goto(w, "redeliver")
             /\ UNCHANGED <<told, session, faults>>
    <3>1. DraftType' /\ ToldType'
      BY <1>5, <2>3 DEF Deliver, DraftType, ToldType
    <3>2. ControlInv'
      BY <1>1, <2>3, GotoKeeps DEF NeedsDraft, NeedsFinding
    <3>3. Placed'
      BY <1>5, <2>2, <2>3, PlacedKeeps DEF Deliver, Goto, ControlInv, ControlType
    <3> QED BY <1>2, <2>2, <3>1, <3>2, <3>3
  <2>4. CASE /\ \/ outcome[job[w]] = "review_ready" /\ PresentReview(w)
                \/ /\ outcome[job[w]] # "review_ready"
                   /\ Tell(w, outcome[job[w]]) /\ UNCHANGED session
             /\ Answered(Goto(w, "complete"), Goto(w, "redeliver"))
    <3>1. outcome[job[w]] \in Results \cup {"failed"}
      BY <1>1, <2>1 DEF RowInv, AnsweredWhenSettled
    <3>2. \E what \in Answers : Tell(w, what)
      BY <2>4, <3>1 DEF PresentReview
    <3>3. /\ ToldType' /\ told'[job[w]] # {}
          /\ \A j \in Jobs : told[j] \subseteq told'[j]
      BY <1>1, <3>2 DEF Tell, ToldType
    <3>4. DraftType'
      <4>1. CASE UNCHANGED session
        BY <1>5, <4>1 DEF Deliver, DraftType
      <4>2. CASE outcome[job[w]] = "review_ready" /\ ~UNCHANGED session
        <5>1. session' = [session EXCEPT ![result[job[w]]] = "pending"]
          BY <2>4, <4>2 DEF PresentReview
        <5>2. result[job[w]] \in Drafts
          BY <1>1, <4>2 DEF RowInv, RowChecks, RowType
        <5> QED BY <1>5, <5>1, <5>2 DEF Deliver, DraftType
      <4> QED BY <2>4, <4>1, <4>2
    <3>5. Goto(w, "complete") \/ Goto(w, "redeliver")
      BY <2>4 DEF Answered
    <3>6. ControlInv'
      BY <1>1, <3>5, GotoKeeps DEF NeedsDraft, NeedsFinding
    <3>7. Placed'
      BY <1>5, <2>2, <3>3, <3>5, PlacedKeeps DEF Deliver, Goto, ControlInv, ControlType
    <3> QED BY <1>2, <2>2, <3>3, <3>4, <3>6, <3>7
  <2> QED BY <1>5, <2>3, <2>4 DEF Deliver
<1>6. CASE CompleteTelegramNewsJob(w)
  <2>1. DraftType' /\ ToldType' /\ UNCHANGED told
    BY <1>6 DEF CompleteTelegramNewsJob, DraftType, draftVars, ToldType
  <2>2. RowInv' /\ StaysSettled
    BY <1>1, <1>6, RowsUnchanged, DeliveryStatementsKeep DEF CompleteTelegramNewsJob
  <2>3. End(w) \/ Goto(w, "redeliver")
    BY <1>6 DEF CompleteTelegramNewsJob, Answered
  <2>4. ControlInv'
    BY <1>1, <2>3, EndKeeps, GotoKeeps DEF NeedsDraft, NeedsFinding
  <2>5. Placed'
    BY <1>6, <2>1, <2>2, <2>3, PlacedKeeps
    DEF CompleteTelegramNewsJob, End, Goto, ControlInv, ControlType
  <2> QED BY <1>2, <2>1, <2>2, <2>4, <2>5
<1>7. CASE RetryTelegramNewsJobDelivery(w)
  <2>1. DraftType' /\ ToldType' /\ UNCHANGED told
    BY <1>7 DEF RetryTelegramNewsJobDelivery, DraftType, draftVars, ToldType
  <2>2. RowInv' /\ StaysSettled
    BY <1>1, <1>7, RowsUnchanged, DeliveryStatementsKeep
    DEF RetryTelegramNewsJobDelivery
  <2>3. End(w)
    BY <1>7 DEF RetryTelegramNewsJobDelivery
  <2>4. Placed'
    BY <2>1, <2>2, <2>3, PlacedKeeps DEF End, ControlInv, ControlType
  <2> QED BY <1>2, <2>1, <2>2, <2>3, <2>4, EndKeeps
<1> QED BY <1>3, <1>4, <1>5, <1>6, <1>7 DEF WorkerStep

(* A claim gives its worker a job, or ends a spent one.                    *)
LEMMA ClaimKeeps ==
  ASSUME IInv, NEW w \in Workers, ClaimNextTelegramNewsJob(w)
  PROVE  IInv'
<1> USE NewsJobsAssumption DEF IInv
<1>1. PICK j \in Jobs :
        /\ Candidate(j)
        /\ SpendLastExecution(j) \/ SpendLastDelivery(j) \/ TakeJob(w, j)
  BY DEF ClaimNextTelegramNewsJob
<1>2. UNCHANGED <<result, backingOff, told, automatic, checkpoint>>
  BY DEF ClaimNextTelegramNewsJob
<1>3. RowInv' /\ StaysSettled
  BY <1>1, <1>2, TakeKeeps, SpendKeeps
<1>4. DraftType' /\ RestType' /\ ToldType' /\ SettingsType' /\ CheckpointInv'
  BY DEF ClaimNextTelegramNewsJob, DraftType, draftVars, RestType, ToldType,
         SettingsType, CheckpointInv
<1>5. CASE SpendLastExecution(j) \/ SpendLastDelivery(j)
  <2>1. UNCHANGED workerVars
    BY <1>5 DEF SpendLastExecution, SpendLastDelivery
  <2>2. Placed'
    <3>1. \A v \in Workers : pc[v] # "idle" => job[v] \in Jobs
      BY DEF ControlInv, ControlType, Equipped
    <3> QED BY <1>2, <1>3, <2>1, <3>1 DEF Placed, StaysSettled, workerVars
  <2> QED BY <1>3, <1>4, <2>1, <2>2, WorkersUnchanged
<1>6. CASE TakeJob(w, j)
  <2>1. pc[w] = "idle"
    BY DEF ClaimNextTelegramNewsJob
  <2>2. /\ pc' = [pc EXCEPT ![w] = IF status[j] \in {"queued", "processing"}
                                   THEN "look" ELSE "deliver"]
        /\ job' = [job EXCEPT ![w] = j]
        /\ UNCHANGED <<doc, found, failure>>
    BY <1>6 DEF TakeJob
  <2>3. ControlType'
    BY <2>2 DEF ControlInv, ControlType
  <2>4. Equipped'
    BY <2>2 DEF ControlInv, ControlType, Equipped, NeedsDraft, NeedsFinding, Finding
  <2>5. status[j] \notin {"queued", "processing"} => status'[j] \in Settled
    BY <1>6 DEF TakeJob, SetStatus, RowInv, RowType, Settled
  <2>6. \A v \in Workers \ {w} : pc[v] # "idle" => job[v] \in Jobs
    BY DEF ControlInv, ControlType, Equipped
  <2>7. Placed'
    BY <1>2, <1>3, <2>2, <2>5, <2>6
    DEF Placed, StaysSettled, ControlInv, ControlType
  <2> QED BY <1>3, <1>4, <2>3, <2>4, <2>7 DEF ControlInv
<1> QED BY <1>1, <1>5, <1>6

(* A worker that fails or crashes ends, or goes on to its retry.           *)
LEMMA FaultKeeps ==
  ASSUME IInv, NEW w \in Workers, CallFails(w) \/ Crash(w)
  PROVE  IInv'
<1> USE NewsJobsAssumption DEF IInv
<1>1. UNCHANGED rowVars /\ UNCHANGED told
  BY DEF CallFails, Crash
<1>2. RowInv' /\ StaysSettled /\ ToldType' /\ SettingsType'
  BY <1>1, RowsUnchanged DEF rowVars, ToldType, SettingsType
<1>3. DraftType' /\ RestType' /\ CheckpointInv'
  BY DEF CallFails, Crash, DraftType, draftVars, RestType, CheckpointInv, Faulty
<1>4. pc[w] # "idle"
  BY DEF CallFails, Crash
<1>5. CASE End(w)
  <2>1. ControlInv'
    BY <1>5, EndKeeps
  <2>2. Placed'
    BY <1>1, <1>2, <1>5, PlacedKeeps DEF End, ControlInv, ControlType
  <2> QED BY <1>2, <1>3, <2>1, <2>2
<1>6. CASE Throw(w, "other")
  <2>1. ControlInv'
    BY <1>4, <1>6, FailKeeps DEF Throw
  <2>2. Placed'
    BY <1>1, <1>2, <1>6, PlacedKeeps DEF Throw, Fail, ControlInv, ControlType
  <2> QED BY <1>2, <1>3, <2>1, <2>2
<1>7. CASE pc[w] = "complete" /\ Goto(w, "redeliver")
  <2>1. ControlInv'
    BY <1>7, GotoKeeps DEF NeedsDraft, NeedsFinding
  <2>2. Placed'
    BY <1>1, <1>2, <1>7, PlacedKeeps DEF Goto, ControlInv, ControlType
  <2> QED BY <1>2, <1>3, <2>1, <2>2
<1> QED BY <1>5, <1>6, <1>7 DEF CallFails, Crash

(* Requests, time and people leave the workers alone.                      *)
LEMMA WorldKeeps ==
  ASSUME IInv,
         \/ \E j \in Jobs : \/ EnqueueTelegramNewsJob(j) \/ BackoffEnds(j)
                            \/ ClaimGoesStale(j)
         \/ \E w \in Workers : RenewTelegramNewsJobClaim(w)
         \/ \E d \in Drafts : DecideReview(d) \/ Reconcile(d)
         \/ LeaseExpires \/ OtherPipeline
  PROVE  IInv'
<1> USE NewsJobsAssumption DEF IInv
<1>1. UNCHANGED <<workerVars, told, automatic, checkpoint, faults>>
  BY DEF EnqueueTelegramNewsJob, BackoffEnds, ClaimGoesStale,
         RenewTelegramNewsJobClaim, DecideReview, Reconcile, LeaseExpires,
         OtherPipeline, rowVars
<1>2. ControlInv' /\ ToldType' /\ SettingsType' /\ CheckpointInv'
  BY <1>1, WorkersUnchanged DEF ToldType, SettingsType, CheckpointInv
<1>3. DraftType' /\ RestType'
  BY DEF EnqueueTelegramNewsJob, BackoffEnds, ClaimGoesStale,
         RenewTelegramNewsJobClaim, DecideReview, Reconcile, LeaseExpires,
         OtherPipeline, DraftType, RestType, draftVars
<1>4. RowInv' /\ StaysSettled
  <2>1. CASE \E j \in Jobs : EnqueueTelegramNewsJob(j)
    BY <2>1, EnqueueKeeps
  <2>2. CASE \/ \E j \in Jobs : BackoffEnds(j) \/ ClaimGoesStale(j)
             \/ \E w \in Workers : RenewTelegramNewsJobClaim(w)
    <3>1. stale' \subseteq Jobs /\ backingOff' \subseteq Jobs
      BY <2>2 DEF BackoffEnds, ClaimGoesStale, RenewTelegramNewsJobClaim, RowInv,
                  RowType
    <3>2. UNCHANGED <<status, token, executions, deliveries, outcome, result>>
      BY <2>2 DEF BackoffEnds, ClaimGoesStale, RenewTelegramNewsJobClaim
    <3> QED BY <3>1, <3>2, ClocksKeep
  <2>3. CASE UNCHANGED rowVars
    BY <2>3, RowsUnchanged
  <2> QED BY <2>1, <2>2, <2>3 DEF DecideReview, Reconcile, LeaseExpires, OtherPipeline
<1>5. Placed'
  <2>1. \A v \in Workers : pc[v] # "idle" => job[v] \in Jobs
    BY DEF ControlInv, ControlType, Equipped
  <2> QED BY <1>1, <1>4, <2>1 DEF Placed, StaysSettled, workerVars
<1> QED BY <1>2, <1>3, <1>4, <1>5

-----------------------------------------------------------------------------
(* The invariant *)

(* The table starts empty and the workers idle.                            *)
LEMMA InitInv == Init => IInv
<1> SUFFICES ASSUME Init PROVE IInv
  OBVIOUS
<1> USE NewsJobsAssumption DEF Init, IInv
<1>1. RowInv
  <2>1. RowType
    BY DEF RowType
  <2>2. RowChecks /\ Budgets /\ AnsweredWhenSettled
    BY DEF RowChecks, Budgets, AnsweredWhenSettled, Settled
  <2> QED BY <2>1, <2>2 DEF RowInv
<1>2. ControlInv
  BY DEF ControlInv, ControlType, Equipped, NeedsDraft, NeedsFinding
<1>3. DraftType /\ RestType /\ ToldType /\ SettingsType
  BY DEF DraftType, RestType, ToldType, SettingsType
<1>4. CheckpointInv /\ Placed
  BY DEF CheckpointInv, NoCheckpoint, Placed
<1> QED BY <1>1, <1>2, <1>3, <1>4

(* Every step of the queue, its workers and its world keeps the invariant.  *)
LEMMA NextKeeps == IInv /\ [Next]_vars => IInv'
<1> SUFFICES ASSUME IInv, [Next]_vars PROVE IInv'
  OBVIOUS
<1>1. CASE UNCHANGED vars
  <2>1. RowInv' /\ StaysSettled
    BY <1>1, RowsUnchanged DEF IInv, vars
  <2>2. ControlInv'
    BY <1>1, WorkersUnchanged DEF IInv, vars
  <2>3. DraftType' /\ RestType' /\ ToldType' /\ SettingsType' /\ CheckpointInv'
    BY <1>1 DEF IInv, vars, draftVars, rowVars, DraftType, RestType, ToldType,
                SettingsType, CheckpointInv
  <2>4. Placed'
    BY <1>1 DEF IInv, vars, rowVars, workerVars, Placed
  <2> QED BY <2>1, <2>2, <2>3, <2>4 DEF IInv
<1>2. CASE \E w \in Workers : ClaimNextTelegramNewsJob(w)
  BY <1>2, ClaimKeeps
<1>3. CASE \E w \in Workers : WorkflowStep(w)
  BY <1>3, WorkflowKeeps
<1>4. CASE \E w \in Workers : WorkerStep(w)
  BY <1>4, WorkerStepKeeps
<1>5. CASE \E w \in Workers : CallFails(w) \/ Crash(w)
  BY <1>5, FaultKeeps
<1>6. CASE \/ \E j \in Jobs : \/ EnqueueTelegramNewsJob(j) \/ BackoffEnds(j)
                              \/ ClaimGoesStale(j)
           \/ \E w \in Workers : RenewTelegramNewsJobClaim(w)
           \/ \E d \in Drafts : DecideReview(d) \/ Reconcile(d)
           \/ LeaseExpires \/ OtherPipeline
  BY <1>6, WorldKeeps
<1> QED BY <1>1, <1>2, <1>3, <1>4, <1>5, <1>6 DEF Next

(* The invariant holds of every behaviour.                                 *)
THEOREM Invariance == Spec => []IInv
<1> QED BY InitInv, NextKeeps, PTL DEF Spec

(* Every column and execution has its type, and no statement of the queue  *)
(* is refused by a CHECK constraint or a unique index of                   *)
(* telegram_news_jobs.                                                     *)
THEOREM TypeCorrect == Spec => []TypeOK
<1>1. IInv => TypeOK
  BY DEF IInv, RowInv, RowType, ControlInv, ControlType, DraftType, RestType,
         ToldType, SettingsType, CheckpointInv, TypeOK
<1> QED BY <1>1, Invariance, PTL

-----------------------------------------------------------------------------
(* The promise *)

Phases == [j \in Jobs |-> Phase(status[j])]

(* Rows and messages that do not change show the promise nothing.          *)
LEMMA ShowsNothing ==
  ASSUME UNCHANGED <<status, outcome, told>>
  PROVE  UNCHANGED Promise!vars
  BY DEF Promise!vars

(* A phase tells its statuses apart from the others.                       *)
LEMMA PhaseTells ==
  ASSUME NEW s \in {"absent"} \cup Active \cup Ended
  PROVE  /\ Phase(s) = "none" <=> s = "absent"
         /\ Phase(s) = "accepted" <=> s \in {"queued", "processing"}
         /\ Phase(s) = "settled" <=> s \in {"outcome_ready", "delivering"}
         /\ Phase(s) = "answered" <=> s = "completed"
         /\ Phase(s) = "given_up" <=> s = "failed"
         /\ Phase(s) = "refused" <=> s = "suppressed"
  BY DEF Phase

(* A statement that moves one row moves that request.                      *)
LEMMA PhaseMoves ==
  ASSUME RowType, NEW j \in Jobs, NEW s, SetStatus(j, s)
  PROVE  Phases' = [Phases EXCEPT ![j] = Phase(s)]
  BY DEF RowType, Phases, SetStatus

(* One that leaves its phase alone shows nothing of it.                    *)
LEMMA SamePhase ==
  ASSUME RowType, NEW j \in Jobs, NEW s, SetStatus(j, s), Phase(s) = Phase(status[j]),
         UNCHANGED <<outcome, told>>
  PROVE  UNCHANGED Promise!vars
<1>1. Phases' = Phases
  BY PhaseMoves DEF Phases
<1> QED BY <1>1 DEF Phases, Promise!vars

(* Enqueueing accepts a request, or refuses it while its channel is busy.   *)
LEMMA EnqueueShows ==
  ASSUME IInv, NEW j \in Jobs, EnqueueTelegramNewsJob(j)
  PROVE  Promise!Accept(j) \/ Promise!Refuse(j)
<1>1. RowType
  BY DEF IInv, RowInv
<1>2. Phases[j] = "none"
  BY <1>1, PhaseTells DEF EnqueueTelegramNewsJob, RowType, Phases
<1>3. ChannelBusy(j) <=> Promise!SomeOpen(j)
  BY <1>1, PhaseTells DEF ChannelBusy, Promise!SomeOpen, Promise!Open, RowType
<1>4. CASE ChannelBusy(j)
  <2>1. Phases' = [Phases EXCEPT ![j] = "refused"]
    BY <1>1, <1>4, PhaseMoves, PhaseTells
    DEF EnqueueTelegramNewsJob, ChannelBusy
  <2> QED BY <1>2, <1>3, <1>4, <2>1
          DEF EnqueueTelegramNewsJob, Promise!Refuse, Promise!Move, Phases
<1>5. CASE ~ChannelBusy(j)
  <2>1. Phases' = [Phases EXCEPT ![j] = "accepted"]
    BY <1>1, <1>5, PhaseMoves, PhaseTells DEF EnqueueTelegramNewsJob
  <2> QED BY <1>2, <1>3, <1>5, <2>1
          DEF EnqueueTelegramNewsJob, Promise!Accept, Promise!Move, Phases
<1> QED BY <1>4, <1>5

(* An outcome, found or failed, settles its request.                       *)
LEMMA SettleShows ==
  ASSUME IInv, NEW j \in Jobs, NEW a \in Results \cup {"failed"},
         status[j] = "processing", SetStatus(j, "outcome_ready"),
         outcome' = [outcome EXCEPT ![j] = a], UNCHANGED told
  PROVE  Promise!Settle(j)
<1>1. RowType
  BY DEF IInv, RowInv
<1>2. Phases[j] = "accepted" /\ Phases' = [Phases EXCEPT ![j] = "settled"]
  BY <1>1, PhaseMoves, PhaseTells DEF Phases
<1> QED BY <1>2 DEF Promise!Settle, Promise!Move, Phases

(* The last failed delivery gives up on it.                                *)
LEMMA GiveUpShows ==
  ASSUME IInv, NEW j \in Jobs, status[j] = "delivering",
         SetStatus(j, "failed"), UNCHANGED <<outcome, told>>
  PROVE  Promise!GiveUp(j)
<1>1. RowType
  BY DEF IInv, RowInv
<1>2. Phases[j] = "settled" /\ Phases' = [Phases EXCEPT ![j] = "given_up"]
  BY <1>1, PhaseMoves, PhaseTells DEF Phases
<1> QED BY <1>2 DEF Promise!GiveUp, Promise!Move, Phases

(* What a step of the queue shows of its promise: a step of one request, or *)
(* nothing.                                                                *)
Shows == (\E r \in Jobs : \/ Promise!Accept(r) \/ Promise!Refuse(r)
                          \/ Promise!Settle(r) \/ Promise!Tell(r)
                          \/ Promise!Answer(r) \/ Promise!GiveUp(r))
         \/ UNCHANGED Promise!vars

(* A claim is given within a phase, and a spent job settles or gives up.    *)
LEMMA ClaimShows ==
  ASSUME IInv, NEW w \in Workers, ClaimNextTelegramNewsJob(w)
  PROVE  Shows
<1>1. PICK j \in Jobs :
        /\ Candidate(j)
        /\ SpendLastExecution(j) \/ SpendLastDelivery(j) \/ TakeJob(w, j)
  BY DEF ClaimNextTelegramNewsJob
<1>2. UNCHANGED told
  BY DEF ClaimNextTelegramNewsJob
<1>3. CASE SpendLastExecution(j)
  BY <1>2, <1>3, SettleShows DEF SpendLastExecution, Shows
<1>4. CASE SpendLastDelivery(j)
  BY <1>2, <1>4, GiveUpShows DEF SpendLastDelivery, Shows
<1>5. CASE TakeJob(w, j)
  <2> DEFINE s == IF status[j] \in {"queued", "processing"}
                  THEN "processing" ELSE "delivering"
  <2>1. status[j] \in {"queued", "processing", "outcome_ready", "delivering"}
    BY <1>1 DEF Candidate
  <2>2. Phase(s) = Phase(status[j])
    BY <2>1 DEF Phase
  <2>3. RowType
    BY DEF IInv, RowInv
  <2>4. SetStatus(j, s) /\ UNCHANGED outcome
    BY <1>5 DEF TakeJob
  <2> HIDE DEF s
  <2> QED BY <1>2, <2>2, <2>3, <2>4, SamePhase DEF Shows
<1> QED BY <1>1, <1>3, <1>4, <1>5

(* A job is retried unsettled, and its last retry settles it as failed.     *)
LEMMA RetryShows ==
  ASSUME IInv, NEW w \in Workers, job[w] \in Jobs, RetryJob(w), UNCHANGED told
  PROVE  Shows
<1> DEFINE last == executions[job[w]] + 1 >= MaxExecutions
<1>1. status[job[w]] = "processing"
  BY DEF RetryJob, Holds
<1>2. CASE last
  <2>1. /\ SetStatus(job[w], "outcome_ready")
        /\ outcome' = [outcome EXCEPT ![job[w]] = "failed"]
    BY <1>2 DEF RetryJob
  <2> QED BY <1>1, <2>1, SettleShows DEF Shows
<1>3. CASE ~last
  <2>1. /\ SetStatus(job[w], "queued")
        /\ outcome' = [outcome EXCEPT ![job[w]] = "none"]
    BY <1>3 DEF RetryJob
  <2>2. RowType /\ outcome[job[w]] = "none"
    BY <1>1 DEF IInv, RowInv, AnsweredWhenSettled
  <2>3. UNCHANGED outcome
    BY <2>1, <2>2 DEF RowType
  <2>4. Phase("queued") = Phase(status[job[w]])
    BY <1>1 DEF Phase
  <2> QED BY <2>1, <2>2, <2>3, <2>4, SamePhase DEF Shows
<1> QED BY <1>2, <1>3

(* So is a delivery, and its last retry gives up.                          *)
LEMMA RedeliverShows ==
  ASSUME IInv, NEW w \in Workers, job[w] \in Jobs, RetryDelivery(w), UNCHANGED told
  PROVE  Shows
<1> DEFINE last == deliveries[job[w]] + 1 >= MaxDeliveries
<1>1. status[job[w]] = "delivering" /\ UNCHANGED outcome
  BY DEF RetryDelivery, Holds
<1>2. CASE last
  <2>1. SetStatus(job[w], "failed")
    BY <1>2 DEF RetryDelivery
  <2> QED BY <1>1, <2>1, GiveUpShows DEF Shows
<1>3. CASE ~last
  <2>1. SetStatus(job[w], "outcome_ready")
    BY <1>3 DEF RetryDelivery
  <2>2. RowType
    BY DEF IInv, RowInv
  <2>3. Phase("outcome_ready") = Phase(status[job[w]])
    BY <1>1 DEF Phase
  <2> QED BY <1>1, <2>1, <2>2, <2>3, SamePhase DEF Shows
<1> QED BY <1>2, <1>3

(* A delivery tells the answer of a settled request, even when the claim it *)
(* was made under is gone.                                                 *)
LEMMA DeliverShows ==
  ASSUME IInv, NEW w \in Workers, Deliver(w)
  PROVE  Shows
<1> DEFINE j == job[w]
<1>1. UNCHANGED <<status, outcome>> /\ pc[w] = "deliver"
  BY DEF Deliver, rowVars
<1>2. j \in Jobs
  BY <1>1 DEF IInv, ControlInv, ControlType, Equipped
<1>3. CASE UNCHANGED told
  BY <1>1, <1>3, ShowsNothing DEF Shows
<1>4. CASE ~UNCHANGED told
  <2>1. PICK what \in {outcome[j]} \cup
               (IF outcome[j] = "review_ready" THEN {"review_resolved"} ELSE {}) :
          told' = [told EXCEPT ![j] = @ \cup {what}]
    BY <1>4 DEF Deliver, PresentReview, Tell
  <2>2. RowType /\ status[j] \in Settled
    BY <1>1 DEF IInv, RowInv, Placed
  <2>3. Phases[j] \in {"settled", "answered", "given_up"}
    BY <1>2, <2>2, PhaseTells DEF Phases, Settled
  <2>4. Phases' = Phases
    BY <1>1 DEF Phases
  <2>5. Promise!Tell(j)
    BY <1>1, <2>1, <2>3, <2>4 DEF Promise!Tell, Phases
  <2> QED BY <1>2, <2>5 DEF Shows
<1> QED BY <1>3, <1>4

(* A worker that completes a job told its answer before.                   *)
LEMMA CompleteShows ==
  ASSUME IInv, NEW w \in Workers, pc[w] = "complete", CompleteJob(w), UNCHANGED told
  PROVE  Shows
<1> DEFINE j == job[w]
<1>1. /\ status[j] = "delivering" /\ SetStatus(j, "completed")
      /\ UNCHANGED outcome
  BY DEF CompleteJob, Holds
<1>2. RowType /\ j \in Jobs /\ told[j] # {}
  BY DEF IInv, RowInv, Placed, ControlInv, ControlType, Equipped
<1>3. Phases[j] = "settled" /\ Phases' = [Phases EXCEPT ![j] = "answered"]
  BY <1>1, <1>2, PhaseMoves, PhaseTells DEF Phases
<1>4. Promise!Answer(j)
  BY <1>1, <1>2, <1>3 DEF Promise!Answer, Promise!Move, Phases
<1> QED BY <1>2, <1>4 DEF Shows

(* Execution and delivery show an outcome, a retry, a message or an answer. *)
LEMMA WorkerShows ==
  ASSUME IInv, NEW w \in Workers, WorkerStep(w)
  PROVE  Shows
<1>1. job[w] \in Jobs
  BY DEF WorkerStep, RecordTelegramNewsJobOutcome, RetryTelegramNewsJob, Deliver,
         CompleteTelegramNewsJob, RetryTelegramNewsJobDelivery, IInv, ControlInv,
         ControlType, Equipped
<1>2. CASE UNCHANGED rowVars /\ UNCHANGED told
  BY <1>2, ShowsNothing DEF rowVars, Shows
<1>3. CASE RecordTelegramNewsJobOutcome(w) /\ RecordOutcome(w)
  <2>1. found[w] \in Results \cup {"failed"}
    BY <1>3 DEF RecordTelegramNewsJobOutcome, IInv, ControlInv, Equipped,
                NeedsFinding, Finding
  <2>2. Promise!Settle(job[w])
    BY <1>1, <1>3, <2>1, SettleShows
    DEF RecordTelegramNewsJobOutcome, RecordOutcome, Holds
  <2> QED BY <1>1, <2>2 DEF Shows
<1>4. CASE RetryTelegramNewsJob(w) /\ RetryJob(w)
  BY <1>1, <1>4, RetryShows DEF RetryTelegramNewsJob
<1>5. CASE Deliver(w)
  BY <1>5, DeliverShows
<1>6. CASE CompleteTelegramNewsJob(w) /\ CompleteJob(w)
  BY <1>6, CompleteShows DEF CompleteTelegramNewsJob
<1>7. CASE RetryTelegramNewsJobDelivery(w) /\ RetryDelivery(w)
  BY <1>1, <1>7, RedeliverShows DEF RetryTelegramNewsJobDelivery
<1> QED BY <1>2, <1>3, <1>4, <1>5, <1>6, <1>7
        DEF WorkerStep, RecordTelegramNewsJobOutcome, RetryTelegramNewsJob,
            CompleteTelegramNewsJob, RetryTelegramNewsJobDelivery

(* Research, publication, faults, time and people show nothing.            *)
LEMMA OthersShowNothing ==
  ASSUME \/ \E w \in Workers : \/ WorkflowStep(w) \/ CallFails(w) \/ Crash(w)
                               \/ RenewTelegramNewsJobClaim(w)
         \/ \E j \in Jobs : BackoffEnds(j) \/ ClaimGoesStale(j)
         \/ \E d \in Drafts : DecideReview(d) \/ Reconcile(d)
         \/ LeaseExpires \/ OtherPipeline
         \/ UNCHANGED vars
  PROVE  UNCHANGED Promise!vars
<1>1. UNCHANGED <<status, outcome, told>>
  BY DEF WorkflowStep, Look, AcquireLease, Research, ReleaseLease,
         SaveTelegramNewsCheckpoint, ApproveDraft, ClaimPublication, SendPublication,
         CallFails, Crash, RenewTelegramNewsJobClaim, BackoffEnds, ClaimGoesStale,
         DecideReview, Reconcile, LeaseExpires, OtherPipeline, vars, rowVars
<1> QED BY <1>1, ShowsNothing

(* The durable queue implements what it promises of a request: one open in  *)
(* a channel, settled once, never reopened by a retry, a takeover or a      *)
(* worker whose claim is gone, and answered only when the admin was told.   *)
THEOREM RefinesPromise == Spec => KeepsRequestPromise
<1>1. Init => Promise!Init
  <2> SUFFICES ASSUME Init PROVE Promise!Init
    OBVIOUS
  <2>1. Phases = [j \in Jobs |-> "none"]
    BY DEF Init, Phases, Phase
  <2> QED BY <2>1 DEF Init, Promise!Init, Phases
<1>2. IInv /\ [Next]_vars => [Promise!Next]_(Promise!vars)
  <2> SUFFICES ASSUME IInv, [Next]_vars PROVE [Promise!Next]_(Promise!vars)
    OBVIOUS
  <2>1. CASE \E j \in Jobs : EnqueueTelegramNewsJob(j)
    BY <2>1, EnqueueShows DEF Promise!Next
  <2>2. CASE \E w \in Workers : ClaimNextTelegramNewsJob(w)
    BY <2>2, ClaimShows DEF Promise!Next, Shows
  <2>3. CASE \E w \in Workers : WorkerStep(w)
    BY <2>3, WorkerShows DEF Promise!Next, Shows
  <2>4. CASE \/ \E w \in Workers : \/ WorkflowStep(w) \/ CallFails(w) \/ Crash(w)
                                   \/ RenewTelegramNewsJobClaim(w)
             \/ \E j \in Jobs : BackoffEnds(j) \/ ClaimGoesStale(j)
             \/ \E d \in Drafts : DecideReview(d) \/ Reconcile(d)
             \/ LeaseExpires \/ OtherPipeline
             \/ UNCHANGED vars
    BY <2>4, OthersShowNothing
  <2> QED BY <2>1, <2>2, <2>3, <2>4 DEF Next
<1> QED BY <1>1, <1>2, Invariance, PTL DEF Spec, KeepsRequestPromise, Promise!Spec

-----------------------------------------------------------------------------
(* One article, one outcome and the truth, when no live worker is taken for *)
(* dead                                                                    *)

Researching == {"acquire", "research", "release", "save"}
Publishing  == {"approve", "publish", "send", "mark"}
Executing   == {"look", "record"} \cup Researching \cup Publishing
Delivering  == {"deliver", "complete"}

(* A worker works under a claim it holds: a stale claim is nobody's work.   *)
Holding ==
  /\ \A w \in Workers :
       /\ pc[w] \in Executing => Holds(w, "processing")
       /\ pc[w] \in Delivering => Holds(w, "delivering")
  /\ \A j \in stale : token[j] # None /\ job[token[j]] # j

(* What it has in hand is its request's, and is checkpointed before it is   *)
(* approved, published or recorded.                                        *)
Knows(w) ==
  /\ doc[w] # None => job[w] # None /\ madeFor[doc[w]] = job[w]
  /\ pc[w] \in {"idle", "look"} \cup Researching =>
       found[w] \notin {"published", "blocked_by_policy"}
  /\ pc[w] \in Researching => checkpoint[job[w]] = NoCheckpoint
  /\ pc[w] \in Publishing =>
       checkpoint[job[w]] = [status |-> "review_ready", draft |-> doc[w]]
  /\ pc[w] = "record" =>
       checkpoint[job[w]] = [status |-> found[w], draft |-> doc[w]]
  /\ pc[w] = "send" => draftStatus[doc[w]] = "publishing"
  /\ pc[w] = "mark" =>
       \/ found[w] = "published" /\ draftStatus[doc[w]] = "published"
       \/ found[w] = "blocked_by_policy" /\ draftStatus[doc[w]] = "blocked"

Settles(s, d) ==
  /\ s = "published" => draftStatus[d] = "published"
  /\ s = "blocked_by_policy" => draftStatus[d] = "blocked"

(* A checkpoint is of its request's draft, and a draft that anyone decided  *)
(* on is the checkpointed one of its request.                              *)
Traced ==
  /\ \A j \in Jobs : checkpoint[j].draft # None =>
       madeFor[checkpoint[j].draft] = j /\ Settles(checkpoint[j].status, checkpoint[j].draft)
  /\ \A d \in Drafts :
       /\ draftStatus[d] = "absent" <=> madeFor[d] = None
       /\ draftStatus[d] = "absent" => session[d] = "none"
       /\ draftStatus[d] \notin {"absent", "review"} \/ session[d] # "none" =>
            checkpoint[madeFor[d]].draft = d

(* What was told is the outcome, and the outcome the checkpoint's.          *)
Telling ==
  /\ \A j \in Jobs :
       /\ told[j] \subseteq {outcome[j], "review_resolved"}
       /\ told[j] # {} => status[j] \in Settled
  /\ OutcomeIsCheckpointed

SoloInv ==
  /\ IInv /\ Holding /\ Traced /\ Telling
  /\ \A w \in Workers : Knows(w)

(* A step of one worker moves no other.                                    *)
OthersSame(w) ==
  \A v \in Workers \ {w} :
    /\ pc'[v] = pc[v] /\ job'[v] = job[v] /\ doc'[v] = doc[v]
    /\ found'[v] = found[v]

(* How a worker moves, of itself and of the others.                        *)
LEMMA Moves ==
  ASSUME ControlType, NEW w \in Workers
  PROVE  /\ \A point : Goto(w, point)
              => /\ OthersSame(w) /\ pc'[w] = point /\ doc'[w] = doc[w]
                 /\ job'[w] = job[w] /\ found'[w] = found[w]
                 /\ failure'[w] = failure[w]
         /\ \A r, d, point : Find(w, r, d, point)
              => /\ OthersSame(w) /\ pc'[w] = point /\ doc'[w] = d
                 /\ job'[w] = job[w] /\ found'[w] = r
         /\ \A kind, point : Fail(w, kind, point)
              => /\ OthersSame(w) /\ pc'[w] = point /\ doc'[w] = doc[w]
                 /\ job'[w] = job[w] /\ found'[w] = found[w]
         /\ End(w)
              => /\ OthersSame(w) /\ pc'[w] = "idle" /\ doc'[w] = None
                 /\ job'[w] = None /\ found'[w] = "none"
BY DEF ControlType, OthersSame, Goto, Find, Fail, End

(* What the proofs below use of the invariant about one worker.             *)
LEMMA Facts ==
  ASSUME SoloInv, NEW w \in Workers
  PROVE  /\ RowType /\ ControlType /\ DraftType /\ ToldType /\ CheckpointInv
         /\ AnsweredWhenSettled /\ RowChecks /\ Equipped /\ Placed
         /\ Holding /\ Traced /\ Telling /\ Knows(w)
         /\ None \notin Drafts /\ None \notin Jobs /\ None \notin Workers
         /\ w # None
         /\ job[w] \in Jobs \cup {None} /\ doc[w] \in Drafts \cup {None}
         /\ pc[w] = "idle" <=> job[w] = None
  BY NewsJobsAssumption DEF SoloInv, IInv, RowInv, ControlInv, ControlType, Equipped

(* One worker at a time executes or delivers.                              *)
LEMMA OneAtWork ==
  ASSUME SoloInv, NEW w \in Workers, NEW v \in Workers,
         pc[w] \in Executing \cup Delivering, pc[v] \in Executing \cup Delivering
  PROVE  v = w
<1>1. /\ job[w] \in Jobs /\ job[v] \in Jobs
      /\ status[job[w]] \in Claimed /\ status[job[v]] \in Claimed
      /\ token[job[w]] = w /\ token[job[v]] = v
  BY Facts DEF Holding, Holds, Executing, Delivering, Researching, Publishing
<1>2. job[w] = job[v]
  BY <1>1, Facts DEF RowChecks
<1> QED BY <1>1, <1>2

(* A worker that settles, retries, completes or gives up a job gives up its *)
(* claim, and no worker touches the row of another's job.                   *)
Fenced(w) ==
  /\ OthersSame(w)
  /\ \A j \in Jobs :
       \/ status'[j] = status[j] /\ token'[j] = token[j]
       \/ /\ j = job[w] /\ token[j] = w /\ token'[j] = None
          /\ pc'[w] \notin Executing \cup Delivering
  /\ \A j \in stale' : j \in stale /\ token'[j] = token[j]
  /\ job'[w] \in {job[w], None} /\ (pc'[w] # "idle" => job'[w] = job[w])
  /\ pc'[w] \in Executing => pc[w] \in Executing
  /\ pc'[w] \in Delivering => pc[w] \in Delivering

(* A fenced step leaves everyone holding what he held.                     *)
LEMMA FencedKeeps ==
  ASSUME SoloInv, NEW w \in Workers, Fenced(w)
  PROVE  Holding'
<1>1. ASSUME NEW v \in Workers
      PROVE  /\ pc'[v] \in Executing => Holds(v, "processing")'
             /\ pc'[v] \in Delivering => Holds(v, "delivering")'
  <2>1. CASE v = w
    BY <2>1, Facts DEF Fenced, Holding, Holds, Executing, Delivering, Researching,
      Publishing
  <2>2. CASE v # w
    <3>1. pc[v] \in Executing \cup Delivering => job[v] \in Jobs /\ token[job[v]] = v
      BY Facts DEF Holding, Holds, Executing, Delivering, Researching, Publishing
    <3>2. pc'[v] = pc[v] /\ job'[v] = job[v]
      BY <2>2 DEF Fenced, OthersSame
    <3> QED BY <2>2, <3>1, <3>2, Facts DEF Fenced, Holding, Holds
  <2> QED BY <2>1, <2>2
<1>2. ASSUME NEW j \in stale' PROVE token'[j] # None /\ job'[token'[j]] # j
  <2>1. j \in stale /\ token'[j] = token[j] /\ token[j] # None /\ job[token[j]] # j
        /\ j \in Jobs /\ token[j] \in Workers
    BY Facts DEF Fenced, Holding, RowType
  <2> QED BY <2>1, Facts DEF Fenced, OthersSame
<1> QED BY <1>1, <1>2 DEF Holding

(* Every step of a worker, of a failed call and of a crash is fenced.       *)
LEMMA StepsAreFenced ==
  ASSUME SoloInv, NEW w \in Workers,
         WorkflowStep(w) \/ WorkerStep(w) \/ CallFails(w) \/ Crash(w)
  PROVE  Fenced(w)
<1>1. ControlType /\ RowType /\ Equipped /\ None \notin Jobs
  BY Facts
<1> USE DEF Executing, Delivering, Researching, Publishing
<1>2. CASE WorkflowStep(w)
  <2>1. UNCHANGED rowVars
    BY <1>2 DEF WorkflowStep, Look, AcquireLease, Research, ReleaseLease,
           SaveTelegramNewsCheckpoint, ApproveDraft, ClaimPublication, SendPublication
  <2>2. /\ OthersSame(w) /\ job'[w] = job[w] /\ pc[w] \in Executing
        /\ pc'[w] \in Executing \cup {"retry"}
    BY <1>1, <1>2, Moves
    DEF WorkflowStep, Look, AcquireLease, Research, ReleaseLease,
        SaveTelegramNewsCheckpoint, ApproveDraft, ClaimPublication,
        SendPublication, Throw, Answered
  <2> QED BY <1>1, <2>1, <2>2 DEF Fenced, rowVars, RowType
<1>3. CASE CallFails(w) \/ Crash(w)
  <2>1. UNCHANGED rowVars
    BY <1>3 DEF CallFails, Crash
  <2>2. /\ OthersSame(w) /\ pc'[w] \in {"retry", "redeliver", "idle"}
        /\ job'[w] \in {job[w], None} /\ (pc'[w] # "idle" => job'[w] = job[w])
    BY <1>1, <1>3, Moves DEF CallFails, Crash, Throw
  <2> QED BY <1>1, <2>1, <2>2 DEF Fenced, rowVars, RowType
<1>4. CASE WorkerStep(w)
  <2>1. /\ OthersSame(w)
        /\ job'[w] \in {job[w], None} /\ (pc'[w] # "idle" => job'[w] = job[w])
        /\ pc'[w] \in {"idle", "retry", "complete", "redeliver"}
        /\ pc'[w] = "complete" => pc[w] = "deliver" /\ UNCHANGED rowVars
    BY <1>1, <1>4, Moves
    DEF WorkerStep, RecordTelegramNewsJobOutcome, RetryTelegramNewsJob,
        Deliver, CompleteTelegramNewsJob, RetryTelegramNewsJobDelivery, Throw, Answered
  <2>2. CASE UNCHANGED rowVars
    BY <1>1, <2>1, <2>2 DEF Fenced, rowVars, RowType
  <2>3. CASE RecordOutcome(w) \/ RetryJob(w) \/ CompleteJob(w) \/ RetryDelivery(w)
    <3>1. /\ job[w] \in Jobs /\ token[job[w]] = w
      BY <1>1, <1>4, <2>3
      DEF WorkerStep, RecordTelegramNewsJobOutcome, RetryTelegramNewsJob,
        Deliver, CompleteTelegramNewsJob, RetryTelegramNewsJobDelivery, Equipped,
        RecordOutcome, RetryJob, CompleteJob, RetryDelivery, Holds, ControlType
    <3>2. /\ Unclaim(job[w])
          /\ \A j \in Jobs \ {job[w]} : status'[j] = status[j]
      BY <1>1, <2>3 DEF RecordOutcome, RetryJob, CompleteJob, RetryDelivery,
        SetStatus, RowType
    <3>3. /\ token'[job[w]] = None /\ stale' = stale \ {job[w]}
          /\ \A j \in Jobs \ {job[w]} : token'[j] = token[j]
      BY <1>1, <3>1, <3>2 DEF Unclaim, RowType
    <3>4. pc'[w] # "complete"
      BY <2>1, <3>1, <3>3, NewsJobsAssumption DEF rowVars
    <3> QED BY <1>1, <2>1, <3>1, <3>2, <3>3, <3>4 DEF Fenced, RowType
  <2>4. \/ UNCHANGED rowVars
        \/ RecordOutcome(w) \/ RetryJob(w) \/ CompleteJob(w) \/ RetryDelivery(w)
    BY <1>4 DEF WorkerStep, RecordTelegramNewsJobOutcome, RetryTelegramNewsJob,
        Deliver, CompleteTelegramNewsJob, RetryTelegramNewsJobDelivery
  <2> QED BY <2>2, <2>3, <2>4
<1> QED BY <1>2, <1>3, <1>4

(* A worker's own work leaves what the others have in hand as it is.        *)
LEMMA OthersKnow ==
  ASSUME SoloInv, NEW w \in Workers, OthersSame(w),
         \A d \in Drafts : madeFor[d] # None => madeFor'[d] = madeFor[d],
         \A d \in Drafts :
           draftStatus[d] \in {"publishing", "published", "blocked"}
           => \/ draftStatus'[d] = draftStatus[d]
              \/ pc[w] \in Executing /\ d = doc[w],
         \A j \in Jobs : \/ checkpoint'[j] = checkpoint[j]
                         \/ pc[w] \in Executing /\ j = job[w]
  PROVE  \A v \in Workers \ {w} : Knows(v)'
<1> SUFFICES ASSUME NEW v \in Workers \ {w} PROVE Knows(v)'
  OBVIOUS
<1>1. /\ Knows(v) /\ doc[v] \in Drafts \cup {None} /\ None \notin Jobs
      /\ pc[v] # "idle" => job[v] \in Jobs
      /\ pc[v] \in NeedsDraft => doc[v] # None
      /\ pc[v] = "mark" => doc[v] # None
  BY Facts DEF Equipped, NeedsFinding, Finding, Knows
<1>2. /\ pc'[v] = pc[v] /\ job'[v] = job[v] /\ doc'[v] = doc[v]
      /\ found'[v] = found[v]
  BY DEF OthersSame
<1>3. pc[v] \in Executing => pc[w] \notin Executing
  BY OneAtWork
<1>4. pc[v] \in Executing => checkpoint'[job[v]] = checkpoint[job[v]]
  BY <1>1, <1>3 DEF Executing, Researching, Publishing
<1>5. pc[v] \in {"send", "mark"} => draftStatus'[doc[v]] = draftStatus[doc[v]]
  BY <1>1, <1>3 DEF Executing, Publishing, Knows, NeedsDraft
<1> QED BY <1>1, <1>2, <1>4, <1>5 DEF Knows, Executing, Researching, Publishing

(* A draft that its request's checkpoint names may be decided and           *)
(* published; what is published or blocked stays so.                        *)
LEMMA DecidedIsTraced ==
  ASSUME SoloInv, NEW d \in Drafts, checkpoint[madeFor[d]].draft = d,
         draftStatus[d] # "absent",
         NEW s \in {"review", "approved", "publishing", "published", "rejected", "blocked"},
         draftStatus' = [draftStatus EXCEPT ![d] = s],
         draftStatus[d] \in {"published", "blocked"} => s = draftStatus[d],
         UNCHANGED <<madeFor, checkpoint>>,
         \A e \in Drafts \ {d} : session'[e] = session[e]
  PROVE  Traced'
<1>1. Traced /\ DraftType /\ CheckpointInv /\ None \notin Drafts
  BY NewsJobsAssumption DEF SoloInv, IInv
<1>2. \A e \in Drafts : draftStatus'[e] = IF e = d THEN s ELSE draftStatus[e]
  BY <1>1 DEF DraftType
<1>3. ASSUME NEW j \in Jobs, checkpoint'[j].draft # None
      PROVE  /\ madeFor'[checkpoint'[j].draft] = j
             /\ Settles(checkpoint[j].status, checkpoint[j].draft)'
  <2>1. checkpoint[j].draft \in Drafts
    BY <1>1, <1>3 DEF CheckpointInv
  <2> QED BY <1>1, <1>2, <1>3, <2>1 DEF Traced, Settles
<1>4. ASSUME NEW e \in Drafts
      PROVE  /\ draftStatus'[e] = "absent" <=> madeFor'[e] = None
             /\ draftStatus'[e] = "absent" => session'[e] = "none"
             /\ draftStatus'[e] \notin {"absent", "review"} \/ session'[e] # "none" =>
                  checkpoint'[madeFor'[e]].draft = e
  BY <1>1, <1>2 DEF Traced
<1> QED BY <1>3, <1>4 DEF Traced

(* Drafts and checkpoints that do not change stay traced.                   *)
LEMMA SameIsTraced ==
  ASSUME Traced, UNCHANGED <<draftStatus, madeFor, checkpoint, session>>
  PROVE  Traced'
  BY DEF Traced, Settles

(* Research, publication and their checkpoints keep it all.                 *)
LEMMA WorkflowKnows ==
  ASSUME SoloInv, NEW w \in Workers, WorkflowStep(w)
  PROVE  Traced' /\ \A v \in Workers : Knows(v)'
<1> DEFINE j == job[w]
           d == doc[w]
<1>1. /\ ControlType /\ DraftType /\ CheckpointInv /\ Equipped /\ Traced /\ Knows(w)
      /\ None \notin Drafts /\ None \notin Jobs
      /\ j \in Jobs \cup {None} /\ d \in Drafts \cup {None}
      /\ pc[w] = "idle" <=> j = None
      /\ failure[w] \in {"none", "unresolved", "other"}
  BY Facts DEF ControlType
<1> USE DEF Executing, Researching, Publishing
<1>2. CASE Look(w)
  <2>1. UNCHANGED <<draftStatus, madeFor, checkpoint, session>> /\ pc[w] = "look"
        /\ j \in Jobs
    BY <1>1, <1>2 DEF Look, draftVars
  <2>2. CASE ~Resumable(j) /\ Goto(w, "acquire")
    <3>1. OthersSame(w) /\ pc'[w] = "acquire" /\ d' = d /\ j' = j
          /\ found'[w] = found[w]
      BY <1>1, <2>2, Moves
    <3>2. Knows(w)'
      BY <1>1, <2>1, <2>2, <3>1 DEF Knows, Resumable
    <3> QED BY <1>1, <2>1, <3>1, <3>2, OthersKnow, SameIsTraced
  <2>3. CASE Resumable(j)
    <3> DEFINE c == checkpoint[j]
               point == IF c.status = "review_ready" /\ automatic[j]
                        THEN "approve" ELSE "record"
    <3>1. Find(w, c.status, c.draft, point)
      BY <1>2, <2>3 DEF Look
    <3>2. c \in [status : Results \cup {"none"}, draft : Drafts \cup {None}]
      BY <1>1, <2>1 DEF CheckpointInv
    <3>3. c = [status |-> c.status, draft |-> c.draft]
      BY <3>2
    <3>4. point = "record" \/ (point = "approve" /\ c.status = "review_ready")
      OBVIOUS
    <3>5. c.draft # None => madeFor[c.draft] = j
      BY <1>1, <2>1 DEF Traced
    <3> HIDE DEF point
    <3>6. OthersSame(w) /\ pc'[w] = point /\ j' = j /\ d' = c.draft
          /\ found'[w] = c.status
      BY <1>1, <3>1, Moves
    <3>7. Knows(w)'
      <4>1. d' # None => j' # None /\ madeFor'[d'] = j'
        BY <1>1, <2>1, <3>5, <3>6
      <4>2. checkpoint'[j'] = [status |-> found'[w], draft |-> d']
        BY <2>1, <3>3, <3>6
      <4> HIDE DEF c, j, d
      <4>3. pc'[w] \in Publishing => found'[w] = "review_ready" /\ pc'[w] = "approve"
        BY <3>4, <3>6
      <4>4. pc'[w] \notin Researching
        BY <3>4, <3>6
      <4>5. pc'[w] \notin {"idle", "look"}
        BY <3>4, <3>6
      <4> QED BY <4>1, <4>2, <4>3, <4>4, <4>5 DEF Knows, j, d
    <3> QED BY <1>1, <2>1, <3>6, <3>7, OthersKnow, SameIsTraced
  <2> QED BY <1>2, <2>2, <2>3 DEF Look
<1>3. CASE AcquireLease(w) \/ ReleaseLease(w)
  <2>1. UNCHANGED <<draftStatus, madeFor, checkpoint, session>>
        /\ pc[w] \in {"acquire", "release"}
    BY <1>3 DEF AcquireLease, ReleaseLease, draftVars
  <2>2. /\ OthersSame(w) /\ d' = d /\ j' = j /\ found'[w] = found[w]
        /\ pc'[w] \in {"research", "save", "retry"}
    BY <1>1, <1>3, Moves DEF AcquireLease, ReleaseLease, Throw
  <2>3. Knows(w)'
    BY <1>1, <2>1, <2>2 DEF Knows
  <2> QED BY <1>1, <2>1, <2>2, <2>3, OthersKnow, SameIsTraced
<1>4. CASE Research(w)
  <2>1. /\ pc[w] = "research" /\ j \in Jobs /\ UNCHANGED <<checkpoint, session>>
        /\ checkpoint[j] = NoCheckpoint
    BY <1>1, <1>4 DEF Research, Knows
  <2>2. CASE UNCHANGED <<draftStatus, madeFor>>
             /\ (Find(w, "no_candidates", None, "release") \/ Fail(w, "other", "release"))
    <3>1. OthersSame(w) /\ pc'[w] = "release" /\ d' \in {d, None} /\ j' = j
          /\ found'[w] \in {found[w], "no_candidates"}
      BY <1>1, <2>2, Moves
    <3>2. Knows(w)'
      BY <1>1, <2>1, <2>2, <3>1 DEF Knows
    <3> QED BY <1>1, <2>1, <2>2, <3>1, <3>2, OthersKnow, SameIsTraced
  <2>3. ASSUME NEW e \in Drafts, draftStatus[e] = "absent",
               draftStatus' = [draftStatus EXCEPT ![e] = "review"],
               madeFor' = [madeFor EXCEPT ![e] = j],
               Find(w, "review_ready", e, "release") \/ Fail(w, "other", "release")
        PROVE  Traced' /\ \A v \in Workers : Knows(v)'
    <3>1. OthersSame(w) /\ pc'[w] = "release" /\ d' \in {d, e} /\ j' = j
          /\ found'[w] \in {found[w], "review_ready"}
      BY <1>1, <2>3, Moves
    <3>2. madeFor[e] = None /\ session[e] = "none"
      BY <1>1, <2>3 DEF Traced
    <3>3. \A b \in Drafts : /\ madeFor'[b] = IF b = e THEN j ELSE madeFor[b]
                            /\ draftStatus'[b] = IF b = e THEN "review" ELSE draftStatus[b]
      BY <1>1, <2>3 DEF DraftType
    <3>4. Knows(w)'
      BY <1>1, <2>1, <3>1, <3>3 DEF Knows
    <3>5. \A v \in Workers \ {w} : Knows(v)'
      BY <1>1, <2>1, <2>3, <3>1, <3>2, <3>3, OthersKnow
    <3>6. Traced'
      <4>1. ASSUME NEW i \in Jobs, checkpoint'[i].draft # None
            PROVE  /\ madeFor'[checkpoint'[i].draft] = i
                   /\ Settles(checkpoint[i].status, checkpoint[i].draft)'
        <5>1. checkpoint[i].draft \in Drafts /\ checkpoint[i].draft # e
          BY <1>1, <2>1, <3>2, <4>1 DEF CheckpointInv, Traced
        <5> QED BY <1>1, <2>1, <3>3, <4>1, <5>1 DEF Traced, Settles
      <4>2. ASSUME NEW b \in Drafts
            PROVE  /\ draftStatus'[b] = "absent" <=> madeFor'[b] = None
                   /\ draftStatus'[b] = "absent" => session'[b] = "none"
                   /\ draftStatus'[b] \notin {"absent", "review"} \/ session'[b] # "none" =>
                        checkpoint'[madeFor'[b]].draft = b
        BY <1>1, <2>1, <3>2, <3>3 DEF Traced
      <4> QED BY <4>1, <4>2 DEF Traced
    <3> QED BY <3>4, <3>5, <3>6
  <2> QED BY <1>4, <2>2, <2>3 DEF Research, Answered
<1>5. CASE SaveTelegramNewsCheckpoint(w)
  <2>1. /\ pc[w] \in {"save", "mark"} /\ j \in Jobs
        /\ UNCHANGED <<draftStatus, madeFor, session>>
        /\ checkpoint' = [checkpoint EXCEPT ![j] = [status |-> found[w], draft |-> d]]
    BY <1>1, <1>5 DEF SaveTelegramNewsCheckpoint, Upsert, draftVars
  <2>2. \A i \in Jobs : checkpoint'[i] = IF i = j THEN [status |-> found[w], draft |-> d]
                                         ELSE checkpoint[i]
    BY <1>1, <2>1 DEF CheckpointInv
  <2>3. /\ OthersSame(w) /\ d' = d /\ j' = j /\ found'[w] = found[w]
        /\ \/ pc'[w] = "retry"
           \/ pc'[w] = "record"
           \/ pc'[w] = "approve" /\ found[w] = "review_ready"
    BY <1>1, <1>5, Moves DEF SaveTelegramNewsCheckpoint, Answered, Throw
  <2>4. Knows(w)'
    BY <1>1, <2>1, <2>2, <2>3 DEF Knows
  <2>5. \A v \in Workers \ {w} : Knows(v)'
    BY <1>1, <2>1, <2>2, <2>3, OthersKnow
  <2>6. Traced'
    <3>1. d # None => madeFor[d] = j /\ Settles(found[w], d)
      BY <1>1, <2>1 DEF Knows, Settles
    <3>2. ASSUME NEW i \in Jobs, checkpoint'[i].draft # None
          PROVE  /\ madeFor'[checkpoint'[i].draft] = i
                 /\ Settles(checkpoint[i].status, checkpoint[i].draft)'
      <4>1. CASE i = j
        BY <2>1, <2>2, <3>1, <3>2, <4>1 DEF Settles
      <4>2. CASE i # j
        BY <1>1, <2>1, <2>2, <3>2, <4>2 DEF Settles, Traced
      <4> QED BY <4>1, <4>2
    <3>3. ASSUME NEW b \in Drafts,
                 draftStatus[b] \notin {"absent", "review"} \/ session[b] # "none"
          PROVE  checkpoint'[madeFor[b]].draft = b
      <4>1. checkpoint[madeFor[b]].draft = b /\ madeFor[b] \in Jobs
        BY <1>1, <3>3 DEF Traced, DraftType
      <4>2. madeFor[b] = j => b = d
        BY <1>1, <2>1, <4>1 DEF Knows, NoCheckpoint
      <4> QED BY <2>2, <4>1, <4>2
    <3> HIDE DEF j, d
    <3> QED BY <1>1, <2>1, <3>2, <3>3 DEF Traced
  <2> QED BY <2>4, <2>5, <2>6
<1>6. CASE ApproveDraft(w) \/ ClaimPublication(w) \/ SendPublication(w)
  <2>1. /\ pc[w] \in {"approve", "publish", "send"} /\ j \in Jobs /\ d \in Drafts
        /\ UNCHANGED <<madeFor, checkpoint, session>>
        /\ checkpoint[j] = [status |-> "review_ready", draft |-> d]
        /\ madeFor[d] = j
    BY <1>1, <1>6 DEF ApproveDraft, ClaimPublication, SendPublication, Knows,
      Equipped, NeedsDraft
  <2>2. draftStatus[d] # "absent"
    BY <1>1, <2>1 DEF Traced
  <2>3. PICK s \in {"review", "approved", "publishing", "published", "rejected", "blocked"} :
          /\ draftStatus' = [draftStatus EXCEPT ![d] = s]
          /\ draftStatus[d] \in {"published", "blocked"} => s = draftStatus[d]
    <3>1. CASE UNCHANGED draftStatus
      BY <1>1, <2>1, <2>2, <3>1 DEF DraftType
    <3>2. CASE ApproveDraft(w)
      BY <1>1, <3>1, <3>2 DEF ApproveDraft
    <3>3. CASE ClaimPublication(w)
      BY <1>1, <3>1, <3>3 DEF ClaimPublication
    <3>4. CASE SendPublication(w)
      BY <1>1, <3>1, <3>4 DEF SendPublication, Knows
    <3> QED BY <1>6, <3>2, <3>3, <3>4
  <2>4. \A b \in Drafts : draftStatus'[b] = IF b = d THEN s ELSE draftStatus[b]
    BY <1>1, <2>3 DEF DraftType
  <2>5. /\ OthersSame(w) /\ d' = d /\ j' = j
        /\ \/ pc'[w] = "retry"
           \/ pc'[w] = "publish"
           \/ pc'[w] = "send" /\ s = "publishing"
           \/ pc'[w] = "mark" /\ \/ found'[w] = "published" /\ s = "published"
                                 \/ found'[w] = "blocked_by_policy" /\ s = "blocked"
    <3>1. s = draftStatus'[d]
      BY <2>1, <2>4
    <3>2. CASE ApproveDraft(w)
      BY <1>1, <3>2, Moves DEF ApproveDraft, Answered, Throw
    <3>3. CASE ClaimPublication(w)
      BY <1>1, <2>1, <3>1, <3>3, Moves DEF ClaimPublication, Throw, DraftType
    <3>4. CASE SendPublication(w)
      BY <1>1, <2>1, <3>1, <3>4, Moves DEF SendPublication, Throw, DraftType
    <3> QED BY <1>6, <3>2, <3>3, <3>4
  <2>6. Knows(w)'
    BY <1>1, <2>1, <2>4, <2>5 DEF Knows
  <2>7. \A v \in Workers \ {w} : Knows(v)'
    BY <1>1, <2>1, <2>4, <2>5, OthersKnow
  <2>8. Traced'
    <3>1. checkpoint[madeFor[d]].draft = d
      BY <2>1
    <3>2. \A e \in Drafts \ {d} : session'[e] = session[e]
      BY <2>1
    <3> HIDE DEF j, d
    <3> QED BY <2>1, <2>2, <2>3, <3>1, <3>2, DecidedIsTraced
  <2> QED BY <2>6, <2>7, <2>8
<1> QED BY <1>2, <1>3, <1>4, <1>5, <1>6 DEF WorkflowStep

(* Workflow steps tell nothing and record nothing.                          *)
LEMMA WorkflowTells ==
  ASSUME SoloInv, NEW w \in Workers, WorkflowStep(w)
  PROVE  Telling'
<1>1. UNCHANGED <<status, outcome, result, told>>
  BY DEF WorkflowStep, Look, AcquireLease, Research, ReleaseLease,
    SaveTelegramNewsCheckpoint, ApproveDraft, ClaimPublication, SendPublication,
    rowVars
<1>2. ASSUME NEW j \in Jobs, outcome[j] \in Results
      PROVE  checkpoint'[j] = checkpoint[j]
  <2>1. CASE SaveTelegramNewsCheckpoint(w)
    <3>1. status[job[w]] = "processing" /\ job[w] \in Jobs
      BY <2>1, Facts DEF SaveTelegramNewsCheckpoint, Holding, Holds, Executing,
        Researching, Publishing
    <3>2. outcome[job[w]] = "none"
      BY <3>1, Facts DEF AnsweredWhenSettled
    <3>3. j # job[w]
      BY <1>2, <3>2
    <3> QED BY <2>1, <3>3, Facts DEF SaveTelegramNewsCheckpoint, Upsert, CheckpointInv
  <2>2. CASE ~SaveTelegramNewsCheckpoint(w)
    BY <2>2 DEF WorkflowStep, Look, AcquireLease, Research, ReleaseLease,
      ApproveDraft, ClaimPublication, SendPublication
  <2> QED BY <2>1, <2>2
<1> QED BY <1>1, <1>2, Facts DEF Telling, OutcomeIsCheckpointed

(* A row statement of a job that was told nothing leaves the rest told.     *)
LEMMA RowTells ==
  ASSUME SoloInv, NEW j \in Jobs, told[j] = {},
         \A i \in Jobs \ {j} : /\ outcome'[i] = outcome[i] /\ result'[i] = result[i]
                               /\ status[i] \in Settled => status'[i] \in Settled,
         outcome'[j] \in Results =>
           checkpoint[j] = [status |-> outcome'[j], draft |-> result'[j]],
         UNCHANGED <<told, checkpoint>>
  PROVE  Telling'
  BY DEF SoloInv, Telling, OutcomeIsCheckpointed

(* Nobody was told of a request that is not settled.                       *)
LEMMA UnsettledIsUntold ==
  ASSUME SoloInv, NEW j \in Jobs, status[j] \in {"absent", "queued", "processing"}
  PROVE  told[j] = {}
  BY DEF SoloInv, Telling, Settled

(* Recording, telling and retrying keep it all.                            *)
LEMMA WorkerKnows ==
  ASSUME SoloInv, NEW w \in Workers, WorkerStep(w)
  PROVE  Traced' /\ Telling' /\ \A v \in Workers : Knows(v)'
<1> DEFINE j == job[w]
<1>1. /\ ControlType /\ DraftType /\ CheckpointInv /\ Equipped /\ Traced /\ Knows(w)
      /\ RowType /\ ToldType /\ Telling /\ AnsweredWhenSettled /\ Placed
      /\ RowChecks
      /\ None \notin Drafts /\ None \notin Jobs
      /\ j \in Jobs
  BY Facts DEF WorkerStep, RecordTelegramNewsJobOutcome, RetryTelegramNewsJob, Deliver,
    CompleteTelegramNewsJob, RetryTelegramNewsJobDelivery
<1>2. UNCHANGED <<draftStatus, madeFor, checkpoint>>
  BY DEF WorkerStep, RecordTelegramNewsJobOutcome, RetryTelegramNewsJob, Deliver,
    CompleteTelegramNewsJob, RetryTelegramNewsJobDelivery, draftVars
<1>3. \A v \in Workers : Knows(v)'
  <2>1. OthersSame(w) /\ \/ pc'[w] = "idle" /\ doc'[w] = None /\ found'[w] = "none"
                         \/ /\ pc'[w] \in {"retry", "complete", "redeliver"}
                            /\ doc'[w] = doc[w] /\ job'[w] = j
    BY <1>1, Moves
    DEF WorkerStep, RecordTelegramNewsJobOutcome, RetryTelegramNewsJob,
        Deliver, CompleteTelegramNewsJob, RetryTelegramNewsJobDelivery, Throw, Answered
  <2>2. Knows(w)'
    BY <1>1, <1>2, <2>1 DEF Knows, Researching, Publishing
  <2> QED BY <1>2, <2>1, <2>2, OthersKnow
<1>4. Traced'
  <2>1. CASE UNCHANGED session
    BY <1>1, <1>2, <2>1, SameIsTraced
  <2>2. CASE Deliver(w) /\ PresentReview(w) /\ ~UNCHANGED session
    <3> DEFINE d == result[j]
    <3>1. /\ session' = [session EXCEPT ![d] = "pending"]
          /\ checkpoint[j] = [status |-> "review_ready", draft |-> d]
      BY <2>2 DEF PresentReview, ReviewCheckpointed
    <3>2. outcome[j] = "review_ready"
      <4>1. told'[j] \cap {"review_ready", "review_resolved"} # {}
        BY <1>1, <2>2 DEF PresentReview, Tell, ToldType
      <4> QED BY <1>1, <2>2, <4>1 DEF Deliver
    <3>3. d \in Drafts
      BY <1>1, <3>2 DEF RowChecks, RowType
    <3>4. madeFor[d] = j
      BY <1>1, <3>1, <3>3 DEF Traced
    <3>5. \A e \in Drafts : session'[e] = IF e = d THEN "pending" ELSE session[e]
      BY <1>1, <3>1 DEF DraftType
    <3> HIDE DEF d, j
    <3> QED BY <1>1, <1>2, <3>1, <3>3, <3>4, <3>5 DEF Traced, Settles
  <2> QED BY <2>1, <2>2 DEF WorkerStep, RecordTelegramNewsJobOutcome,
    RetryTelegramNewsJob, Deliver, CompleteTelegramNewsJob,
    RetryTelegramNewsJobDelivery, draftVars
<1>5. Telling'
  <2>1. CASE UNCHANGED rowVars /\ UNCHANGED told
    BY <1>1, <1>2, <2>1 DEF rowVars, Telling, OutcomeIsCheckpointed
  <2>2. CASE Deliver(w)
    <3>1. UNCHANGED <<status, outcome, result>> /\ status[j] \in Settled
      BY <1>1, <2>2 DEF Deliver, rowVars, Placed
    <3>2. told' = told \/ \E what \in {outcome[j], "review_resolved"} :
                            told' = [told EXCEPT ![j] = @ \cup {what}]
      BY <2>2 DEF Deliver, PresentReview, Tell
    <3>3. \A i \in Jobs : /\ told'[i] \subseteq told[i] \cup {outcome[i], "review_resolved"}
                          /\ i # j => told'[i] = told[i]
      BY <1>1, <3>2 DEF ToldType
    <3> QED BY <1>1, <1>2, <3>1, <3>3 DEF Telling, OutcomeIsCheckpointed
  <2>3. CASE RecordTelegramNewsJobOutcome(w) /\ RecordOutcome(w)
    <3>1. /\ status[j] = "processing" /\ UNCHANGED told
          /\ checkpoint[j] = [status |-> found[w], draft |-> doc[w]]
      BY <1>1, <2>3 DEF RecordTelegramNewsJobOutcome, RecordOutcome, Holds, Knows
    <3>2. /\ outcome'[j] = found[w] /\ result'[j] = doc[w]
          /\ \A i \in Jobs \ {j} : /\ outcome'[i] = outcome[i] /\ result'[i] = result[i]
                                   /\ status'[i] = status[i]
      BY <1>1, <2>3 DEF RecordOutcome, SetStatus, RowType
    <3>3. told[j] = {}
      BY <1>1, <3>1, UnsettledIsUntold
    <3> HIDE DEF j
    <3> QED BY <1>1, <1>2, <3>1, <3>2, <3>3, RowTells
  <2>4. CASE RetryTelegramNewsJob(w) /\ RetryJob(w)
    <3>1. status[j] = "processing" /\ UNCHANGED told
      BY <2>4 DEF RetryTelegramNewsJob, RetryJob, Holds
    <3>2. /\ outcome'[j] \in {"failed", "none"}
          /\ \A i \in Jobs \ {j} : /\ outcome'[i] = outcome[i] /\ result'[i] = result[i]
                                   /\ status'[i] = status[i]
      BY <1>1, <2>4 DEF RetryJob, SetStatus, RowType
    <3>3. told[j] = {}
      BY <1>1, <3>1, UnsettledIsUntold
    <3> HIDE DEF j
    <3> QED BY <1>1, <1>2, <3>1, <3>2, <3>3, RowTells
  <2>5. CASE \/ CompleteTelegramNewsJob(w) /\ CompleteJob(w)
             \/ RetryTelegramNewsJobDelivery(w) /\ RetryDelivery(w)
    <3>1. UNCHANGED <<outcome, result, told>>
      BY <2>5 DEF CompleteTelegramNewsJob, RetryTelegramNewsJobDelivery,
        CompleteJob, RetryDelivery
    <3>2. \A i \in Jobs : status[i] \in Settled => status'[i] \in Settled
      BY <1>1, <2>5 DEF CompleteJob, RetryDelivery, SetStatus, RowType, Settled
    <3> QED BY <1>1, <1>2, <3>1, <3>2 DEF Telling, OutcomeIsCheckpointed
  <2> QED BY <2>1, <2>2, <2>3, <2>4, <2>5 DEF WorkerStep,
    RecordTelegramNewsJobOutcome, RetryTelegramNewsJob, CompleteTelegramNewsJob,
    RetryTelegramNewsJobDelivery
<1> QED BY <1>3, <1>4, <1>5

(* Failed calls and crashes leave everything but the worker alone.          *)
LEMMA FaultKnows ==
  ASSUME SoloInv, NEW w \in Workers, CallFails(w) \/ Crash(w)
  PROVE  Traced' /\ Telling' /\ \A v \in Workers : Knows(v)'
<1>1. UNCHANGED <<draftStatus, madeFor, session, checkpoint, told>>
      /\ UNCHANGED <<status, outcome, result>>
  BY DEF CallFails, Crash, draftVars, rowVars
<1>2. Traced' /\ Telling'
  BY <1>1, Facts, SameIsTraced DEF Telling, OutcomeIsCheckpointed
<1>3. OthersSame(w) /\ \/ pc'[w] = "idle" /\ doc'[w] = None /\ found'[w] = "none"
                       \/ /\ pc'[w] \in {"retry", "redeliver"}
                          /\ doc'[w] = doc[w] /\ job'[w] = job[w]
  BY Facts, Moves DEF CallFails, Crash, Throw
<1>4. Knows(w)'
  BY <1>1, <1>3, Facts DEF Knows, Researching, Publishing
<1> QED BY <1>1, <1>2, <1>3, <1>4, OthersKnow

(* A job is claimed when nobody is at work.                                *)
LEMMA ClaimFindsNobody ==
  ASSUME SoloInv, NEW j \in Jobs, Candidate(j), NEW w \in Workers
  PROVE  pc[w] \notin Executing \cup Delivering
<1> SUFFICES ASSUME pc[w] \in Executing \cup Delivering PROVE FALSE
  OBVIOUS
<1>1. /\ job[w] \in Jobs /\ status[job[w]] \in Claimed /\ token[job[w]] = w
  BY Facts DEF Holding, Holds, Executing, Delivering, Researching, Publishing
<1>2. job[w] \in stale
  BY <1>1 DEF Candidate
<1> QED BY <1>1, <1>2, Facts DEF Holding

(* So a claim, or the end of a job whose attempts are spent, keeps it all.  *)
LEMMA ClaimKnows ==
  ASSUME SoloInv, NEW w \in Workers, ClaimNextTelegramNewsJob(w)
  PROVE  Holding' /\ Traced' /\ Telling' /\ \A v \in Workers : Knows(v)'
<1>1. PICK j \in Jobs :
        /\ Candidate(j)
        /\ SpendLastExecution(j) \/ SpendLastDelivery(j) \/ TakeJob(w, j)
  BY DEF ClaimNextTelegramNewsJob
<1>2. /\ UNCHANGED <<result, backingOff, checkpoint, told>>
      /\ UNCHANGED <<draftStatus, session, madeFor>> /\ pc[w] = "idle"
  BY DEF ClaimNextTelegramNewsJob, draftVars
<1>3. /\ RowInv /\ RowType /\ ControlType /\ Knows(w) /\ Holding
      /\ None \notin Jobs /\ job[w] = None
  BY <1>2, Facts DEF SoloInv, IInv
<1>4. Traced'
  BY <1>2, Facts, SameIsTraced
<1>5. \A v \in Workers : pc[v] \notin Executing \cup Delivering
  BY <1>1, ClaimFindsNobody
<1>6. \A i \in Jobs : status[i] \in Settled => status'[i] \in Settled
  BY <1>1, <1>2, <1>3, TakeKeeps, SpendKeeps DEF StaysSettled
<1>7. CASE SpendLastExecution(j) \/ SpendLastDelivery(j)
  <2>1. UNCHANGED workerVars /\ stale' = stale \ {j}
        /\ \A i \in Jobs \ {j} : token'[i] = token[i]
    BY <1>3, <1>7 DEF SpendLastExecution, SpendLastDelivery, Unclaim, RowType
  <2>2. Holding'
    BY <1>3, <1>5, <2>1 DEF Holding, workerVars, RowType
  <2>3. \A v \in Workers : Knows(v)'
    BY <1>2, <2>1, Facts DEF Knows, workerVars
  <2>4. Telling'
    <3>1. CASE SpendLastExecution(j)
      <4>1. told[j] = {}
        BY <3>1, UnsettledIsUntold DEF SpendLastExecution
      <4>2. outcome'[j] = "failed" /\ \A i \in Jobs \ {j} : outcome'[i] = outcome[i]
        BY <1>3, <3>1 DEF SpendLastExecution, RowType
      <4> QED BY <1>2, <1>6, <4>1, <4>2, RowTells
    <3>2. CASE SpendLastDelivery(j)
      BY <1>2, <1>6, <3>2, Facts
      DEF SpendLastDelivery, Telling, OutcomeIsCheckpointed
    <3> QED BY <1>7, <3>1, <3>2
  <2> QED BY <1>4, <2>2, <2>3, <2>4
<1>8. CASE TakeJob(w, j)
  <2>1. /\ stale' = stale \ {j} /\ token'[j] = w /\ UNCHANGED outcome
        /\ \A i \in Jobs \ {j} : token'[i] = token[i]
        /\ OthersSame(w) /\ doc'[w] = doc[w] /\ job'[w] = j /\ found'[w] = found[w]
        /\ \/ pc'[w] = "look" /\ status'[j] = "processing"
           \/ pc'[w] = "deliver" /\ status'[j] = "delivering"
    BY <1>3, <1>8 DEF TakeJob, SetStatus, RowType, ControlType, OthersSame
  <2>2. Holding'
    <3>1. \A v \in Workers : pc'[v] \in Executing \cup Delivering => v = w
      BY <1>5, <2>1 DEF OthersSame
    <3>2. /\ pc'[w] \in Executing => Holds(w, "processing")'
          /\ pc'[w] \in Delivering => Holds(w, "delivering")'
      BY <2>1 DEF Holds, Executing, Delivering, Researching, Publishing
    <3>3. ASSUME NEW i \in stale' PROVE token'[i] # None /\ job'[token'[i]] # i
      <4>1. i \in stale /\ i \in Jobs \ {j} /\ token'[i] = token[i]
            /\ token[i] # None /\ job[token[i]] # i /\ token[i] \in Workers
        BY <1>3, <2>1, <3>3 DEF Holding, RowType
      <4> QED BY <2>1, <4>1 DEF OthersSame
    <3> QED BY <3>1, <3>2, <3>3 DEF Holding
  <2>3. Knows(w)'
    BY <1>2, <1>3, <2>1 DEF Knows, Researching, Publishing
  <2>4. \A v \in Workers \ {w} : Knows(v)'
    BY <1>2, <2>1, OthersKnow
  <2>5. Telling'
    BY <1>2, <1>6, <2>1, Facts DEF Telling, OutcomeIsCheckpointed
  <2> QED BY <1>4, <2>2, <2>3, <2>4, <2>5
<1> QED BY <1>1, <1>7, <1>8

(* Requests, time and people keep it all, when no live claim goes stale.    *)
LEMMA WorldKnows ==
  ASSUME ~Stalls, SoloInv,
         \/ \E j \in Jobs : EnqueueTelegramNewsJob(j) \/ BackoffEnds(j) \/ ClaimGoesStale(j)
         \/ \E w \in Workers : RenewTelegramNewsJobClaim(w)
         \/ \E d \in Drafts : DecideReview(d) \/ Reconcile(d)
         \/ LeaseExpires \/ OtherPipeline
  PROVE  Holding' /\ Traced' /\ Telling' /\ \A v \in Workers : Knows(v)'
<1>1. /\ UNCHANGED workerVars /\ UNCHANGED <<madeFor, checkpoint, told, token>>
      /\ UNCHANGED result
  BY DEF EnqueueTelegramNewsJob, BackoffEnds, ClaimGoesStale,
    RenewTelegramNewsJobClaim, DecideReview, Reconcile, LeaseExpires, OtherPipeline,
    draftVars, rowVars
<1>2. /\ RowType /\ RowChecks /\ ControlType /\ DraftType /\ Holding /\ Traced /\ Telling
      /\ Equipped /\ None \notin Jobs /\ None \notin Drafts
  BY NewsJobsAssumption DEF SoloInv, IInv, RowInv, ControlInv
<1>3. \A v \in Workers : pc[v] \in Executing \cup Delivering => job[v] \in Jobs
  BY <1>2 DEF Equipped, ControlType, Executing, Delivering, Researching, Publishing
<1>4. ASSUME NEW d \in Drafts, DecideReview(d) \/ Reconcile(d)
      PROVE  Holding' /\ Traced' /\ Telling' /\ \A v \in Workers : Knows(v)'
  <2>1. /\ UNCHANGED rowVars
        /\ draftStatus[d] \in {"review", "publishing"}
        /\ draftStatus[d] = "publishing" => \A v \in Workers : ~(pc[v] = "send" /\ doc[v] = d)
        /\ checkpoint[madeFor[d]].draft = d
        /\ \A e \in Drafts \ {d} : session'[e] = session[e]
    BY <1>2, <1>4 DEF DecideReview, Reconcile, Traced, DraftType
  <2>2. PICK s \in {"review", "approved", "publishing", "published", "rejected", "blocked"} :
          draftStatus' = [draftStatus EXCEPT ![d] = s]
    BY <1>4 DEF DecideReview, Reconcile
  <2>3. Traced'
    BY <1>1, <2>1, <2>2, DecidedIsTraced
  <2>4. \A e \in Drafts \ {d} : draftStatus'[e] = draftStatus[e]
    BY <1>2, <2>2 DEF DraftType
  <2>5. ASSUME NEW v \in Workers PROVE Knows(v)'
    <3>1. pc[v] \in {"send", "mark"} => doc[v] \in Drafts /\ doc[v] # d
      BY <2>1, Facts DEF Knows, Equipped, NeedsDraft, NeedsFinding, Finding
    <3> QED BY <1>1, <2>4, <3>1, Facts DEF Knows, workerVars
  <2>6. Holding' /\ Telling'
    BY <1>1, <1>2, <2>1 DEF Holding, Holds, Telling, OutcomeIsCheckpointed,
      workerVars, rowVars
  <2> QED BY <2>3, <2>5, <2>6
<1>5. CASE UNCHANGED <<draftStatus, session>>
  <2>1. Traced' /\ \A v \in Workers : Knows(v)'
    BY <1>1, <1>2, <1>5, SameIsTraced, Facts DEF Knows, workerVars
  <2>2. ASSUME NEW j \in Jobs, EnqueueTelegramNewsJob(j) PROVE Holding' /\ Telling'
    <3>1. /\ status[j] = "absent" /\ UNCHANGED stale
          /\ outcome'[j] \in {outcome[j], "already_running"}
          /\ \A i \in Jobs \ {j} : status'[i] = status[i] /\ outcome'[i] = outcome[i]
      BY <1>2, <2>2 DEF EnqueueTelegramNewsJob, SetStatus, RowType
    <3>2. told[j] = {} /\ outcome[j] = "none"
      BY <3>1, UnsettledIsUntold DEF SoloInv, IInv, RowInv, AnsweredWhenSettled
    <3>3. Telling'
      BY <1>1, <3>1, <3>2, RowTells
    <3>4. \A v \in Workers : pc[v] \in Executing \cup Delivering => job[v] # j
      BY <3>1, <1>2 DEF Holding, Holds
    <3>5. Holding'
      BY <1>1, <1>2, <1>3, <3>1, <3>4 DEF Holding, Holds, workerVars
    <3> QED BY <3>3, <3>5
  <2>3. CASE \/ \E j \in Jobs : BackoffEnds(j) \/ ClaimGoesStale(j)
             \/ \E w \in Workers : RenewTelegramNewsJobClaim(w)
             \/ LeaseExpires \/ OtherPipeline
    <3>1. UNCHANGED <<status, outcome>>
          /\ \A j \in stale' : j \in stale \/ (token[j] # None /\ job[token[j]] # j)
      BY <1>2, <2>3 DEF BackoffEnds, ClaimGoesStale, RenewTelegramNewsJobClaim,
        LeaseExpires, OtherPipeline, rowVars, RowChecks
    <3>2. Holding'
      BY <1>1, <1>2, <1>3, <3>1 DEF Holding, Holds, workerVars
    <3>3. Telling'
      BY <1>1, <1>2, <3>1 DEF Telling, OutcomeIsCheckpointed
    <3> QED BY <2>1, <3>2, <3>3
  <2>4. CASE \E d \in Drafts : DecideReview(d) \/ Reconcile(d)
    BY <1>4, <2>4
  <2> QED BY <2>1, <2>2, <2>3, <2>4
<1>6. UNCHANGED <<draftStatus, session>> \/ \E d \in Drafts : DecideReview(d) \/ Reconcile(d)
  BY DEF EnqueueTelegramNewsJob, BackoffEnds, ClaimGoesStale,
    RenewTelegramNewsJobClaim, LeaseExpires, OtherPipeline, draftVars
<1> QED BY <1>4, <1>5, <1>6

(* When no live worker is taken for dead, one works at a time, and what it  *)
(* finds, checkpoints, records and tells agrees.                            *)
LEMMA SoloInvariance ==
  ASSUME ~Stalls
  PROVE  Spec => []SoloInv
<1>1. Init => SoloInv
  <2> SUFFICES ASSUME Init PROVE SoloInv
    OBVIOUS
  <2>1. IInv
    BY InitInv
  <2> USE NewsJobsAssumption DEF Init
  <2>2. Holding /\ \A w \in Workers : Knows(w)
    BY DEF Holding, Knows, Executing, Delivering, Researching, Publishing
  <2>3. Traced /\ Telling
    BY DEF Traced, Telling, OutcomeIsCheckpointed, NoCheckpoint
  <2> QED BY <2>1, <2>2, <2>3 DEF SoloInv
<1>2. SoloInv /\ [Next]_vars => SoloInv'
  <2> SUFFICES ASSUME SoloInv, [Next]_vars PROVE SoloInv'
    OBVIOUS
  <2>1. IInv'
    BY NextKeeps DEF SoloInv
  <2> SUFFICES Holding' /\ Traced' /\ Telling' /\ \A v \in Workers : Knows(v)'
    BY <2>1 DEF SoloInv
  <2>2. ASSUME NEW w \in Workers, ClaimNextTelegramNewsJob(w)
        PROVE  Holding' /\ Traced' /\ Telling' /\ \A v \in Workers : Knows(v)'
    BY <2>2, ClaimKnows
  <2>3. ASSUME NEW w \in Workers,
               WorkflowStep(w) \/ WorkerStep(w) \/ CallFails(w) \/ Crash(w)
        PROVE  Holding' /\ Traced' /\ Telling' /\ \A v \in Workers : Knows(v)'
    <3>1. Holding'
      BY <2>3, StepsAreFenced, FencedKeeps
    <3> QED BY <2>3, <3>1, WorkflowKnows, WorkflowTells, WorkerKnows, FaultKnows
  <2>4. CASE \/ \E j \in Jobs : \/ EnqueueTelegramNewsJob(j) \/ BackoffEnds(j)
                                \/ ClaimGoesStale(j)
             \/ \E w \in Workers : RenewTelegramNewsJobClaim(w)
             \/ \E d \in Drafts : DecideReview(d) \/ Reconcile(d)
             \/ LeaseExpires \/ OtherPipeline
    BY <2>4, WorldKnows
  <2>5. CASE UNCHANGED vars
    BY <2>5 DEF vars, rowVars, draftVars, workerVars, SoloInv, Holding, Holds, Traced,
      Settles, Telling, OutcomeIsCheckpointed, Knows
  <2> QED BY <2>2, <2>3, <2>4, <2>5 DEF Next
<1> QED BY <1>1, <1>2, PTL DEF Spec

(* Without stalls, one article of a request reaches the channel at most,    *)
(* however often it is executed: crashes between research, checkpoint, send *)
(* and outcome resume the draft that is there.                              *)
THEOREM OneArticlePerRequestHolds == ~Stalls => (Spec => []OneArticlePerRequest)
<1> SUFFICES ASSUME ~Stalls PROVE Spec => []OneArticlePerRequest
  OBVIOUS
<1>1. SoloInv => OneArticlePerRequest
  <2> SUFFICES ASSUME SoloInv, NEW d \in Drafts, NEW e \in Drafts,
                      madeFor[d] = madeFor[e], draftStatus[d] \in Out,
                      draftStatus[e] \in Out
               PROVE  d = e
    BY DEF OneArticlePerRequest
  <2> QED BY DEF SoloInv, Traced, Out
<1>2. Spec => []SoloInv
  BY SoloInvariance
<1> QED BY <1>1, <1>2, PTL

(* Without stalls, a recorded outcome is the one in the checkpoint, which   *)
(* delivery reads.                                                         *)
THEOREM OutcomeIsCheckpointedHolds == ~Stalls => (Spec => []OutcomeIsCheckpointed)
<1> SUFFICES ASSUME ~Stalls PROVE Spec => []OutcomeIsCheckpointed
  OBVIOUS
<1>1. SoloInv => OutcomeIsCheckpointed
  BY DEF SoloInv, Telling
<1>2. Spec => []SoloInv
  BY SoloInvariance
<1> QED BY <1>1, <1>2, PTL

(* Without stalls, what the admin reads is so: a published article is in    *)
(* the channel, and nothing is when publication was reported as blocked.    *)
THEOREM ToldTheTruthHolds == ~Stalls => (Spec => []ToldTheTruth)
<1> SUFFICES ASSUME ~Stalls PROVE Spec => []ToldTheTruth
  OBVIOUS
<1>1. SoloInv => ToldTheTruth
  <2> SUFFICES ASSUME SoloInv, NEW j \in Jobs
               PROVE  /\ "published" \in told[j] => draftStatus[result[j]] = "published"
                      /\ "blocked_by_policy" \in told[j] =>
                           \A d \in Drafts : madeFor[d] = j => draftStatus[d] \notin Out
    BY DEF ToldTheTruth
  <2>1. /\ told[j] \subseteq {outcome[j], "review_resolved"} /\ Traced /\ DraftType
        /\ outcome[j] \in Results =>
             checkpoint[j] = [status |-> outcome[j], draft |-> result[j]]
        /\ result[j] # None <=> outcome[j] \in WithDraft
    BY DEF SoloInv, Telling, OutcomeIsCheckpointed, IInv, RowInv, RowChecks
  <2>2. ASSUME "published" \in told[j] PROVE draftStatus[result[j]] = "published"
    BY <2>1, <2>2 DEF Traced, Settles
  <2>3. ASSUME "blocked_by_policy" \in told[j], NEW d \in Drafts, madeFor[d] = j
        PROVE  draftStatus[d] \notin Out
    <3>1. draftStatus[result[j]] = "blocked" /\ checkpoint[j].draft = result[j]
      BY <2>1, <2>3 DEF Traced, Settles
    <3> QED BY <2>1, <2>3, <3>1 DEF Traced, Out
  <2> QED BY <2>2, <2>3
<1>2. Spec => []SoloInv
  BY SoloInvariance
<1> QED BY <1>1, <1>2, PTL
=============================================================================
