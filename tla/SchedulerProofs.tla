--------------------------- MODULE SchedulerProofs ---------------------------
(***************************************************************************)
(* Theorems about Scheduler, for any sets of drafts and workers, whether   *)
(* or not workers stall and clocks disagree.                               *)
(***************************************************************************)
EXTENDS Scheduler, TLAPS

USE DEF Policies, Statuses, Points

(* The receipt checkpoint is always that of the checkpointed draft, so a   *)
(* second worker that records it writes the same value.                    *)
ReceiptOfDraft == receipt # None => receipt = draft

(* A claim is always for a run.                                            *)
ClaimHasRun == token # None => run # 0

(* Execution control keeps types.                                          *)
ControlType ==
  /\ pc \in [Workers -> Points]
  /\ mine \in [Workers -> [run : 0..MaxRuns, policy : Policies \cup {None},
                           receipt : Drafts \cup {None}]]
  /\ doc \in [Workers -> Drafts \cup {None}]
  /\ outcome \in [Workers -> Statuses]

(* Going on keeps the types of an execution.                               *)
LEMMA GotoType ==
  ASSUME ControlType, NEW w \in Workers, NEW point \in Points, Goto(w, point)
  PROVE  ControlType'
  BY DEF ControlType, Goto

(* Ending does.                                                            *)
LEMMA EndType ==
  ASSUME ControlType, NEW w \in Workers, End(w)
  PROVE  ControlType'
  BY SchedulerAssumption DEF ControlType, End, NoClaim

(* Finishing with a known status does.                                     *)
LEMMA FinishAsType ==
  ASSUME ControlType, NEW w \in Workers, NEW s \in Statuses, FinishAs(w, s)
  PROVE  ControlType'
  BY DEF ControlType, FinishAs

(* So does the catch, whatever the error was.                              *)
LEMMA ThrowType ==
  ASSUME ControlType, NEW w \in Workers, NEW code, Throw(w, code)
  PROVE  ControlType'
<1>1. CASE code = "publication_unresolved"
  <2>1. Goto(w, "pause")
    BY <1>1 DEF Throw
  <2> QED BY <2>1, GotoType
<1>2. CASE code \in {"claim_lost", "review_delivery_failed"}
  <2>1. End(w)
    BY <1>2 DEF Throw
  <2> QED BY <2>1, EndType
<1>3. CASE code \notin {"publication_unresolved", "claim_lost", "review_delivery_failed"}
  <2>1. FinishAs(w, "failed")
    BY <1>3 DEF Throw
  <2> QED BY <2>1, FinishAsType
<1> QED BY <1>1, <1>2, <1>3

(* Types of what the executions and the people share.                      *)
FlagType == interval \in BOOLEAN /\ stale \in BOOLEAN

ColumnType ==
  /\ next \in {"none", "later", "due"}
  /\ policy \in Policies
  /\ token \in Workers \cup {None}
  /\ run \in 0..MaxRuns /\ runs \in 0..MaxRuns
  /\ snapshot \in Policies \cup {None}
  /\ draft \in Drafts \cup {None} /\ receipt \in Drafts \cup {None}
  /\ lastStatus \in Statuses

(* What relates the columns of the row to one another.                     *)
RowLinks == RunChecks /\ ReceiptOfDraft /\ ClaimHasRun

RowType == FlagType /\ ColumnType

RowInv == RowType /\ IntervalCheck /\ RowLinks

DraftType ==
  /\ draftStatus \in [Drafts -> {"absent", "review", "approved", "publishing",
                                 "published", "rejected", "blocked"}]
  /\ session \in [Drafts -> {"none", "pending", "expired", "resolved"}]
  /\ newsReview \in BOOLEAN
  /\ byOthers \subseteq Drafts
  /\ sentFor \in [Drafts -> 0..MaxRuns]

RestType ==
  /\ leaseOwner \in Workers \cup {None, Other}
  /\ quiet \in BOOLEAN
  /\ faults \in 0..MaxFaults /\ changes \in 0..MaxChanges

IInv == RowInv /\ DraftType /\ RestType /\ ControlType

(* The statements that end, defer or pause an occurrence keep the row.      *)
LEMMA RowStatements ==
  ASSUME RowInv, NEW s \in Statuses,
         \/ FinishNewsSchedule(s)
         \/ DeferForQuietHours
         \/ PauseUnresolved
  PROVE  RowInv'
<1> USE SchedulerAssumption DEF RowInv, FinishNewsSchedule, ClearRun,
        DeferForQuietHours, PauseUnresolved
<1>1. RowType'
  <2>1. FlagType'
    BY DEF RowType, FlagType
  <2>2. ColumnType'
    BY DEF RowType, ColumnType, ControlType
  <2> QED BY <2>1, <2>2 DEF RowType
<1>2. IntervalCheck'
  <2>1. CASE FinishNewsSchedule(s) \/ DeferForQuietHours
    <3>1. CASE interval
      BY <2>1, <3>1 DEF IntervalCheck
    <3>2. CASE ~interval
      BY <2>1, <3>2 DEF IntervalCheck
    <3> QED BY <3>1, <3>2
  <2>2. CASE PauseUnresolved
    BY <2>2 DEF IntervalCheck
  <2> QED BY <2>1, <2>2
<1>3. RowLinks'
  BY DEF RowLinks, RunChecks, ReceiptOfDraft, ClaimHasRun
<1> QED BY <1>1, <1>2, <1>3

(* A row that no step writes keeps its type.                               *)
LEMMA RowUnchanged ==
  ASSUME RowInv, UNCHANGED rowVars
  PROVE  RowInv'
<1> USE DEF RowInv, rowVars
<1>1. RowType'
  <2>1. FlagType'
    BY DEF RowType, FlagType
  <2>2. ColumnType'
    BY DEF RowType, ColumnType, ControlType
  <2> QED BY <2>1, <2>2 DEF RowType
<1>2. IntervalCheck'
  BY DEF IntervalCheck
<1>3. RowLinks'
  BY DEF RowLinks, RunChecks, ReceiptOfDraft, ClaimHasRun
<1> QED BY <1>1, <1>2, <1>3

(* So do executions that no step moves.                                    *)
LEMMA WorkersUnchanged ==
  ASSUME ControlType, UNCHANGED workerVars
  PROVE  ControlType'
  BY DEF ControlType, workerVars

(* A deferral check goes on, defers the row or finds the claim lost.       *)
LEMMA DeferIfQuietType ==
  ASSUME IInv, NEW w \in Workers, NEW here, NEW onward \in Points,
         DeferIfQuiet(w, here, onward)
  PROVE  IInv'
<1> USE DEF IInv
<1>1. DraftType' /\ RestType'
  BY DEF DeferIfQuiet, DraftType, RestType, draftVars, boundVars
<1>2. CASE Goto(w, onward) /\ UNCHANGED rowVars
  BY <1>1, <1>2, GotoType, RowUnchanged
<1>3. CASE DeferForQuietHours /\ End(w)
  <2>1. "none" \in Statuses
    OBVIOUS
  <2> QED BY <1>1, <1>3, <2>1, RowStatements, EndType
<1>4. CASE Throw(w, "claim_lost") /\ UNCHANGED rowVars
  BY <1>1, <1>4, ThrowType, RowUnchanged
<1> QED BY <1>2, <1>3, <1>4 DEF DeferIfQuiet

(* Every step of an execution keeps the invariant.                         *)
LEMMA ExecutionKeeps ==
  ASSUME IInv, NEW w \in Workers, ExecutionStep(w)
  PROVE  IInv'
<1> USE SchedulerAssumption DEF IInv
<1>1. CASE EarlyDeferral(w)
  BY <1>1, DeferIfQuietType DEF EarlyDeferral
<1>2. CASE HasPendingTelegramReview(w)
  <2>1. RowInv' /\ DraftType' /\ RestType'
    BY <1>2, RowUnchanged
    DEF HasPendingTelegramReview, DraftType, RestType, draftVars, boundVars
  <2>2. ControlType'
    <3>1. FinishAs(w, "skipped_pending_review") \/ Goto(w, "late")
            \/ Goto(w, "acquire")
      BY <1>2 DEF HasPendingTelegramReview
    <3> QED BY <3>1, GotoType, FinishAsType
  <2> QED BY <2>1, <2>2
<1>3. CASE AcquireLease(w)
  <2>1. RowInv' /\ DraftType' /\ RestType'
    BY <1>3, RowUnchanged DEF AcquireLease, DraftType, RestType, draftVars, boundVars
  <2>2. ControlType'
    BY <1>3, GotoType, ThrowType DEF AcquireLease
  <2> QED BY <2>1, <2>2
<1>4. CASE RunWorkflow(w)
  <2>1. RowInv' /\ DraftType' /\ RestType'
    BY <1>4, RowUnchanged DEF RunWorkflow, DraftType, RestType, boundVars
  <2>2. ControlType'
    <3>1. CASE Goto(w, "release") \/ Goto(w, "lost")
      BY <3>1, GotoType
    <3>2. CASE \E d \in Drafts :
                 /\ doc' = [doc EXCEPT ![w] = d]
                 /\ pc' = [pc EXCEPT ![w] = "checkpoint"]
                 /\ UNCHANGED <<mine, outcome>>
      BY <3>2 DEF ControlType
    <3> QED BY <1>4, <3>1, <3>2 DEF RunWorkflow
  <2> QED BY <2>1, <2>2
<1>5. CASE SaveNewsScheduleDraft(w)
  <2>1. RowInv'
    <3>1. RowType'
      <4>1. FlagType'
        BY <1>5 DEF RowType, SaveNewsScheduleDraft, Owns, RowInv, FlagType
      <4>2. ColumnType'
        BY <1>5 DEF RowType, SaveNewsScheduleDraft, Owns, RowInv, ColumnType, ControlType
      <4> QED BY <4>1, <4>2 DEF RowType
    <3>2. IntervalCheck'
      BY <1>5 DEF SaveNewsScheduleDraft, Owns, RowInv, IntervalCheck
    <3>3. RowLinks'
      BY <1>5 DEF SaveNewsScheduleDraft, Owns, RowInv, RowLinks,
        RunChecks, ReceiptOfDraft, ClaimHasRun
    <3> QED BY <3>1, <3>2, <3>3 DEF RowInv
  <2>2. DraftType' /\ RestType'
    BY <1>5 DEF SaveNewsScheduleDraft, Owns, DraftType, RestType,
      draftVars, boundVars
  <2>3. ControlType'
    BY <1>5, GotoType DEF SaveNewsScheduleDraft
  <2> QED BY <2>1, <2>2, <2>3
<1>6. CASE ReleaseLease(w)
  <2>1. RowInv' /\ DraftType' /\ RestType'
    BY <1>6, RowUnchanged DEF ReleaseLease, DraftType, RestType, draftVars, boundVars
  <2>2. ControlType'
    <3>1. Throw(w, "claim_lost") \/ FinishAs(w, "no_candidates") \/ Goto(w, "late")
      BY <1>6 DEF ReleaseLease
    <3> QED BY <3>1, ThrowType, FinishAsType, GotoType
  <2> QED BY <2>1, <2>2
<1>7. CASE DeliveryDeferral(w)
  BY <1>7, DeferIfQuietType DEF DeliveryDeferral
<1>8. CASE RenewClaim(w)
  <2>1. RowInv'
    <3>1. RowType'
      <4>1. FlagType'
        BY <1>8 DEF RowType, RenewClaim, Owns, RowInv, FlagType
      <4>2. ColumnType'
        BY <1>8 DEF RowType, RenewClaim, Owns, RowInv, ColumnType, ControlType
      <4> QED BY <4>1, <4>2 DEF RowType
    <3>2. IntervalCheck'
      BY <1>8 DEF RenewClaim, Owns, RowInv, IntervalCheck
    <3>3. RowLinks'
      BY <1>8 DEF RenewClaim, Owns, RowInv, RowLinks,
        RunChecks, ReceiptOfDraft, ClaimHasRun
    <3> QED BY <3>1, <3>2, <3>3 DEF RowInv
  <2>2. DraftType' /\ RestType'
    BY <1>8 DEF RenewClaim, Owns, DraftType, RestType,
      draftVars, boundVars
  <2>3. ControlType'
    BY <1>8, GotoType, ThrowType DEF RenewClaim
  <2> QED BY <2>1, <2>2, <2>3
<1>9. CASE RenewedDeferral(w)
  BY <1>9, DeferIfQuietType DEF RenewedDeferral
<1>10. CASE DeliverReview(w)
  <2>1. RowInv' /\ DraftType' /\ RestType'
    BY <1>10, RowUnchanged DEF DeliverReview, Opened, DraftType, RestType, boundVars
  <2>2. ControlType'
    <3>1. FinishAs(w, "review_already_resolved") \/ FinishAs(w, "awaiting_approval")
      BY <1>10 DEF DeliverReview
    <3> QED BY <3>1, FinishAsType
  <2> QED BY <2>1, <2>2
<1>11. CASE ApproveCheckpoint(w)
  <2>1. RowInv' /\ DraftType' /\ RestType'
    BY <1>11, RowUnchanged DEF ApproveCheckpoint, DraftType, RestType, boundVars
  <2>2. ControlType'
    BY <1>11, GotoType DEF ApproveCheckpoint
  <2> QED BY <2>1, <2>2
<1>12. CASE ClaimPublication(w)
  <2>1. RowInv' /\ RestType'
    BY <1>12, RowUnchanged DEF ClaimPublication, RestType, boundVars
  <2>2. DraftType'
    BY <1>12 DEF ClaimPublication, DraftType, ControlType
  <2>3. ControlType'
    <3>1. \/ Goto(w, "send") \/ Goto(w, "record")
          \/ FinishAs(w, "blocked_by_policy")
          \/ Throw(w, "scheduled_run_failed")
      BY <1>12 DEF ClaimPublication
    <3> QED BY <3>1, GotoType, FinishAsType, ThrowType
  <2> QED BY <2>1, <2>2, <2>3
<1>13. CASE SendPublication(w)
  <2>1. RowInv' /\ RestType'
    BY <1>13, RowUnchanged DEF SendPublication, RestType
  <2>2. DraftType'
    BY <1>13 DEF SendPublication, DraftType
  <2>3. ControlType'
    <3>1. \/ Goto(w, "record") \/ Throw(w, "scheduled_run_failed")
          \/ Throw(w, "publication_unresolved")
      BY <1>13 DEF SendPublication
    <3> QED BY <3>1, GotoType, ThrowType
  <2> QED BY <2>1, <2>2, <2>3
<1>14. CASE SaveNewsSchedulePublication(w)
  <2>1. RowInv'
    <3>1. RowType'
      <4>1. FlagType'
        BY <1>14 DEF RowType, SaveNewsSchedulePublication, Owns, RowInv, FlagType
      <4>2. ColumnType'
        BY <1>14 DEF RowType, SaveNewsSchedulePublication, Owns, RowInv, ColumnType, ControlType
      <4> QED BY <4>1, <4>2 DEF RowType
    <3>2. IntervalCheck'
      BY <1>14 DEF SaveNewsSchedulePublication, Owns, RowInv, IntervalCheck
    <3>3. RowLinks'
      BY <1>14 DEF SaveNewsSchedulePublication, Owns, RowInv, RowLinks,
        RunChecks, ReceiptOfDraft, ClaimHasRun
    <3> QED BY <3>1, <3>2, <3>3 DEF RowInv
  <2>2. DraftType' /\ RestType'
    BY <1>14 DEF SaveNewsSchedulePublication, Owns, DraftType, RestType,
      draftVars, boundVars
  <2>3. ControlType'
    <3>1. FinishAs(w, "published") \/ Throw(w, "claim_lost")
      BY <1>14 DEF SaveNewsSchedulePublication
    <3> QED BY <3>1, FinishAsType, ThrowType
  <2> QED BY <2>1, <2>2, <2>3
<1>15. CASE Finish(w)
  <2>1. DraftType' /\ RestType' /\ ControlType'
    BY <1>15, EndType DEF Finish, DraftType, RestType, draftVars, boundVars
  <2>2. outcome[w] \in Statuses
    BY DEF ControlType
  <2>3. RowInv'
    <3>1. FinishNewsSchedule(outcome[w]) \/ UNCHANGED rowVars
      BY <1>15 DEF Finish
    <3> QED BY <2>2, <3>1, RowStatements, RowUnchanged
  <2> QED BY <2>1, <2>3
<1>16. CASE Pause(w)
  <2>1. DraftType' /\ RestType' /\ ControlType'
    BY <1>16, EndType DEF Pause, DraftType, RestType, draftVars, boundVars
  <2>2. RowInv'
    <3>1. PauseUnresolved \/ UNCHANGED rowVars
      BY <1>16 DEF Pause
    <3>2. "none" \in Statuses
      OBVIOUS
    <3> QED BY <3>1, <3>2, RowStatements, RowUnchanged
  <2> QED BY <2>1, <2>2
<1> QED BY <1>1, <1>2, <1>3, <1>4, <1>5, <1>6, <1>7, <1>8, <1>9, <1>10, <1>11,
           <1>12, <1>13, <1>14, <1>15, <1>16 DEF ExecutionStep

(* Claiming an occurrence keeps it: a new run starts without checkpoints,   *)
(* a resumed one with those it has.                                        *)
LEMMA ClaimKeeps ==
  ASSUME IInv, NEW w \in Workers, ClaimDueNewsSchedule(w)
  PROVE  IInv'
<1> USE SchedulerAssumption DEF IInv
<1>1. RowInv'
  <2> USE DEF ClaimDueNewsSchedule, TakeSnapshot, Claimable, RowInv
  <2>1. RowType'
    <3>1. FlagType'
      BY DEF RowType, FlagType
    <3>2. ColumnType'
      BY DEF RowType, ColumnType, ControlType
    <3> QED BY <3>1, <3>2 DEF RowType
  <2>2. IntervalCheck'
    BY DEF IntervalCheck
  <2>3. RowLinks'
    <3> USE DEF RowLinks, RunChecks, ReceiptOfDraft, ClaimHasRun, RowType, ColumnType
    <3>1. run' # 0 /\ snapshot' # None /\ stale' = FALSE
      OBVIOUS
    <3>2. UNCHANGED <<draft, receipt>>
      OBVIOUS
    <3> QED BY <3>1, <3>2
  <2> QED BY <2>1, <2>2, <2>3
<1>2. DraftType' /\ RestType'
  BY DEF ClaimDueNewsSchedule, DraftType, RestType, draftVars, boundVars
<1>3. ControlType'
  BY <1>1 DEF ClaimDueNewsSchedule, ControlType, RowInv, RowType, ColumnType
<1> QED BY <1>1, <1>2, <1>3

(* Failed calls and crashes keep it.                                       *)
LEMMA FaultsKeep ==
  ASSUME IInv, NEW w \in Workers, Fault(w) \/ Crash(w)
  PROVE  IInv'
<1> USE SchedulerAssumption DEF IInv
<1>1. CASE Fault(w)
  <2>1. RowInv' /\ RestType'
    BY <1>1, RowUnchanged DEF Fault, RestType
  <2>2. DraftType'
    BY <1>1 DEF Fault, Opened, DraftType
  <2>3. ControlType'
    <3>1. \/ End(w) \/ FinishAs(w, "failed")
          \/ Throw(w, "review_delivery_failed")
          \/ Throw(w, "scheduled_run_failed") \/ Throw(w, "claim_lost")
      BY <1>1 DEF Fault
    <3> QED BY <3>1, EndType, FinishAsType, ThrowType
  <2> QED BY <2>1, <2>2, <2>3
<1>2. CASE Crash(w)
  <2>1. RowInv' /\ ControlType'
    BY <1>2, RowUnchanged, EndType DEF Crash
  <2>2. DraftType' /\ RestType'
    BY <1>2 DEF Crash, DraftType, RestType, draftVars
  <2> QED BY <2>1, <2>2
<1> QED BY <1>1, <1>2

(* So do people and the clock.                                             *)
LEMMA OthersKeep ==
  ASSUME IInv, MoveDueToMorning \/ PeopleStep \/ ClockStep
  PROVE  IInv'
<1> USE SchedulerAssumption DEF IInv
<1>1. ControlType'
  BY WorkersUnchanged
  DEF MoveDueToMorning, PeopleStep, ClockStep, UpdateNewsSettings, DecideReview,
      OtherPublication, Reconcile, OtherPipeline, NewsReviewOpensOrEnds,
    ReviewExpires, NextRunIsDue, ClaimGoesStale,
      LeaseExpires, NightFalls, MorningComes, workerVars
<1>2. CASE MoveDueToMorning \/ UpdateNewsSettings \/ NextRunIsDue \/ ClaimGoesStale
  <2>1. RowInv'
    <3>1. RowType'
      <4>1. FlagType'
        BY <1>2 DEF RowType, MoveDueToMorning, UpdateNewsSettings, NextRunIsDue, ClaimGoesStale, RowInv, FlagType
      <4>2. ColumnType'
        BY <1>2 DEF RowType, MoveDueToMorning, UpdateNewsSettings, NextRunIsDue, ClaimGoesStale, RowInv, ColumnType, ControlType
      <4> QED BY <4>1, <4>2 DEF RowType
    <3>2. IntervalCheck'
      BY <1>2 DEF MoveDueToMorning, UpdateNewsSettings, NextRunIsDue,
        ClaimGoesStale, RowInv, IntervalCheck
    <3>3. RowLinks'
      BY <1>2 DEF MoveDueToMorning, UpdateNewsSettings, NextRunIsDue,
        ClaimGoesStale, RowInv, RowLinks,
        RunChecks, ReceiptOfDraft, ClaimHasRun
    <3> QED BY <3>1, <3>2, <3>3 DEF RowInv
  <2>2. DraftType' /\ RestType'
    BY <1>2 DEF MoveDueToMorning, UpdateNewsSettings, NextRunIsDue,
        ClaimGoesStale, DraftType, RestType,
      draftVars, boundVars
  <2> QED BY <1>1, <2>1, <2>2
<1>3. CASE \/ \E d \in Drafts : \/ DecideReview(d) \/ OtherPublication(d)
                               \/ Reconcile(d) \/ ReviewExpires(d)
           \/ NewsReviewOpensOrEnds
  <2>1. RowInv' /\ RestType'
    BY <1>3, RowUnchanged DEF DecideReview, OtherPublication, Reconcile,
      ReviewExpires, NewsReviewOpensOrEnds, RestType, boundVars
  <2>2. DraftType'
    <3>1. CASE NewsReviewOpensOrEnds
      BY <3>1 DEF NewsReviewOpensOrEnds, DraftType
    <3>2. ASSUME NEW d \in Drafts, UNCHANGED newsReview,
                 \/ DecideReview(d) \/ OtherPublication(d)
                 \/ Reconcile(d) \/ ReviewExpires(d)
          PROVE  DraftType'
      BY <3>2 DEF DecideReview, OtherPublication, Reconcile, ReviewExpires, DraftType
    <3> QED
      BY <1>3, <3>1, <3>2 DEF DecideReview, OtherPublication, Reconcile, ReviewExpires
  <2> QED BY <1>1, <2>1, <2>2
<1>4. CASE OtherPipeline \/ LeaseExpires \/ NightFalls \/ MorningComes
  BY <1>1, <1>4, RowUnchanged
  DEF OtherPipeline, LeaseExpires, NightFalls, MorningComes, DraftType,
      RestType, draftVars, boundVars
<1> QED BY <1>2, <1>3, <1>4 DEF PeopleStep, ClockStep

(* The invariant holds in every reachable state.                           *)
THEOREM Invariance == Spec => []IInv
<1>1. Init => IInv
  <2> USE SchedulerAssumption DEF Init
  <2>1. Init => RowType
    <3>1. Init => FlagType
      BY DEF RowType, FlagType
    <3>2. Init => ColumnType
      BY DEF RowType, ColumnType, ControlType
    <3> QED BY <3>1, <3>2 DEF RowType
  <2>2. Init => IntervalCheck
    BY DEF IntervalCheck
  <2>3. Init => RowLinks
    BY DEF RowLinks, RunChecks, ReceiptOfDraft, ClaimHasRun
  <2>4. Init => DraftType /\ RestType /\ ControlType
    <3>1. Init => DraftType
      <4>1. Init => newsReview \in BOOLEAN
        BY Zenon
      <4>2. Init => /\ draftStatus \in [Drafts -> {"absent", "review", "approved",
                          "publishing", "published", "rejected", "blocked"}]
                    /\ session \in [Drafts -> {"none", "pending", "expired",
                                              "resolved"}]
                    /\ byOthers \subseteq Drafts
                    /\ sentFor \in [Drafts -> 0..MaxRuns]
        OBVIOUS
      <4> QED BY <4>1, <4>2, Zenon DEF DraftType
    <3>2. Init => quiet \in BOOLEAN
      OBVIOUS
    <3>3. Init => leaseOwner \in Workers \cup {None, Other}
                  /\ faults \in 0..MaxFaults /\ changes \in 0..MaxChanges
      OBVIOUS
    <3>4. Init => ControlType
      BY DEF ControlType, NoClaim
    <3> QED BY <3>1, <3>2, <3>3, <3>4 DEF RestType
  <2> QED BY <2>1, <2>2, <2>3, <2>4 DEF IInv, RowInv
<1>2. IInv /\ [Next]_vars => IInv'
  <2> SUFFICES ASSUME IInv, [Next]_vars PROVE IInv'
    OBVIOUS
  <2>1. CASE \E w \in Workers : ClaimDueNewsSchedule(w) \/ ExecutionStep(w)
                                \/ Fault(w) \/ Crash(w)
    BY <2>1, ClaimKeeps, ExecutionKeeps, FaultsKeep
  <2>2. CASE MoveDueToMorning \/ PeopleStep \/ ClockStep
    BY <2>2, OthersKeep
  <2>3. CASE UNCHANGED vars
    BY <2>3, RowUnchanged, WorkersUnchanged
    DEF vars, IInv, DraftType, RestType, draftVars, boundVars
  <2> QED BY <2>1, <2>2, <2>3 DEF Next
<1> QED BY <1>1, <1>2, PTL DEF Spec

(* Every column and execution keeps its type, and no statement of the       *)
(* scheduler violates a CHECK constraint of news_bot_settings.             *)
THEOREM TypeCorrect == Spec => []TypeOK
<1>1. IInv => TypeOK
  BY DEF IInv, TypeOK, RowInv, RowType, FlagType, ColumnType, RowChecks, RowLinks, DraftType,
         RestType, ControlType
<1> QED BY <1>1, Invariance, PTL

(* What an occurrence may never lose in a step.                            *)
Immutable ==
  run # 0 /\ run' = run =>
    /\ snapshot' = snapshot
    /\ draft # None => draft' = draft
    /\ receipt # None => receipt' = receipt

(* However many workers resume an occurrence, stall and overtake one        *)
(* another, its settings snapshot and its committed checkpoints stay.      *)
THEOREM OccurrenceImmutableHolds == Spec => OccurrenceImmutable
<1>1. IInv /\ [Next]_vars => [Immutable]_vars
  <2> SUFFICES ASSUME IInv, [Next]_vars, run # 0, run' = run
               PROVE  /\ snapshot' = snapshot
                      /\ draft # None => draft' = draft
                      /\ receipt # None => receipt' = receipt
    BY DEF Immutable
  <2> USE SchedulerAssumption
  <2>1. CASE UNCHANGED <<snapshot, draft, receipt>>
    BY <2>1
  <2>2. ASSUME NEW w \in Workers, ClaimDueNewsSchedule(w)
        PROVE  UNCHANGED <<snapshot, draft, receipt>>
    BY <2>2 DEF ClaimDueNewsSchedule, TakeSnapshot
  <2>3. ASSUME NEW w \in Workers, ExecutionStep(w)
        PROVE  \/ UNCHANGED <<snapshot, draft, receipt>>
               \/ SaveNewsScheduleDraft(w)
               \/ SaveNewsSchedulePublication(w)
    <3>1. CASE EarlyDeferral(w) \/ DeliveryDeferral(w) \/ RenewedDeferral(w)
      BY <3>1 DEF EarlyDeferral, DeliveryDeferral, RenewedDeferral, DeferIfQuiet,
                  DeferForQuietHours, rowVars
    <3>2. CASE \/ HasPendingTelegramReview(w) \/ AcquireLease(w) \/ RunWorkflow(w)
               \/ ReleaseLease(w) \/ RenewClaim(w) \/ DeliverReview(w)
               \/ ApproveCheckpoint(w) \/ ClaimPublication(w) \/ SendPublication(w)
      BY <3>2 DEF HasPendingTelegramReview, AcquireLease, RunWorkflow,
                  ReleaseLease, RenewClaim, DeliverReview, ApproveCheckpoint,
                  ClaimPublication, SendPublication, rowVars
    <3>3. CASE Finish(w)
      <4>1. FinishNewsSchedule(outcome[w]) => run' = 0
        BY DEF FinishNewsSchedule, ClearRun
      <4> QED BY <3>3, <4>1 DEF Finish, rowVars
    <3>4. CASE Pause(w)
      BY <3>4 DEF Pause, PauseUnresolved, rowVars
    <3> QED BY <2>3, <3>1, <3>2, <3>3, <3>4 DEF ExecutionStep
  <2>4. ASSUME NEW w \in Workers, SaveNewsScheduleDraft(w)
        PROVE  /\ UNCHANGED <<snapshot, receipt>>
               /\ draft # None => draft' = draft
    BY <2>4 DEF SaveNewsScheduleDraft
  <2>5. ASSUME NEW w \in Workers, SaveNewsSchedulePublication(w)
        PROVE  /\ UNCHANGED <<snapshot, draft>>
               /\ receipt # None => receipt' = receipt
    BY <2>5 DEF SaveNewsSchedulePublication, IInv, RowInv, RowLinks, ReceiptOfDraft
  <2>6. ASSUME NEW w \in Workers, Fault(w) \/ Crash(w)
        PROVE  UNCHANGED <<snapshot, draft, receipt>>
    BY <2>6 DEF Fault, Crash, rowVars
  <2>7. CASE MoveDueToMorning \/ PeopleStep \/ ClockStep
    <3>1. UNCHANGED <<snapshot, draft, receipt>>
      BY <2>7 DEF MoveDueToMorning, PeopleStep, ClockStep, UpdateNewsSettings,
        DecideReview, OtherPublication, Reconcile, OtherPipeline, NewsReviewOpensOrEnds,
    ReviewExpires, NextRunIsDue,
        ClaimGoesStale, LeaseExpires, NightFalls, MorningComes, rowVars
    <3> QED BY <3>1
  <2>8. CASE UNCHANGED vars
    BY <2>8 DEF vars, rowVars
  <2> QED BY <2>1, <2>2, <2>3, <2>4, <2>5, <2>6, <2>7, <2>8 DEF Next
<1>2. OccurrenceImmutable <=> [][Immutable]_vars
  BY DEF OccurrenceImmutable, Immutable
<1> QED BY <1>1, <1>2, Invariance, PTL DEF Spec

-----------------------------------------------------------------------------
(* Runs and their drafts                                                   *)

(* Points at which an execution has a draft, and at which that draft is the *)
(* one its run is bound to: not between drafting and the checkpoint.       *)
Drafted == {"checkpoint", "late", "renew", "final", "deliver", "approve",
            "publish", "send", "record"}
Ended == {"published", "blocked_by_policy"}

Bound(w) ==
  /\ doc[w] # None
  /\ \/ pc[w] \notin {"idle", "checkpoint", "lost", "finish", "pause"}
     \/ pc[w] = "finish" /\ outcome[w] \in Ended

(* What an execution knows is so: the run it claimed is not ahead of those *)
(* begun, and is the row's while it holds the claim; the draft it is bound *)
(* to is the row's while the run lasts; its draft is being published by it *)
(* alone while it sends, and is what it ends by saying.                    *)
Claims(w) ==
  /\ pc[w] # "idle" => mine[w].run \in 1..runs
  /\ token = w /\ pc[w] # "idle"
       => mine[w].run = run /\ (doc[w] = None => draft = None)
  /\ Bound(w) /\ mine[w].run = run => doc[w] = draft
  /\ Bound(w) => \A d \in Drafts : sentFor[d] = mine[w].run => doc[w] = d

Knows(w) ==
  /\ pc[w] \in {"acquire", "research"} => doc[w] = None
  /\ pc[w] \in Drafted => doc[w] # None
  /\ mine[w].receipt # None
       => doc[w] = mine[w].receipt /\ draftStatus[doc[w]] = "published"
  /\ pc[w] = "send" => doc[w] \notin byOthers /\ draftStatus[doc[w]] = "publishing"
  /\ pc[w] = "record" => draftStatus[doc[w]] = "published"
  /\ pc[w] = "finish" =>
       /\ outcome[w] = "published" => doc[w] # None /\ draftStatus[doc[w]] = "published"
       /\ outcome[w] = "blocked_by_policy"
            => doc[w] # None /\ draftStatus[doc[w]] = "blocked"
       /\ outcome[w] = "no_candidates" => doc[w] = None

(* Executions of one run are bound to one draft, and one execution sends a *)
(* draft.                                                                  *)
Agree(w, v) ==
  /\ Bound(w) /\ Bound(v) /\ mine[w].run = mine[v].run => doc[w] = doc[v]
  /\ pc[w] = "send" /\ pc[v] = "send" /\ doc[w] = doc[v] => w = v

(* The run of the row is the last one begun; what was sent for it is its    *)
(* draft; a recorded receipt is of a published draft; what others publish   *)
(* is being published.                                                     *)
RunInv ==
  /\ run # 0 => run = runs
  /\ \A d \in Drafts : sentFor[d] <= runs /\ (sentFor[d] # 0 /\ sentFor[d] = run => draft = d)
  /\ receipt # None => draftStatus[receipt] = "published"
  /\ \A d \in byOthers : draftStatus[d] = "publishing"
  /\ OneArticlePerRun

ExecutionInv ==
  /\ IInv /\ RunInv
  /\ \A w \in Workers : Claims(w) /\ Knows(w)
  /\ \A w, v \in Workers : Agree(w, v)

OthersSame(w) ==
  \A v \in Workers \ {w} :
    /\ pc'[v] = pc[v] /\ mine'[v] = mine[v] /\ doc'[v] = doc[v]
    /\ outcome'[v] = outcome[v]

(* How an execution moves, of itself and of the others.                    *)
LEMMA Moves ==
  ASSUME ControlType, NEW w \in Workers
  PROVE  /\ \A point : Goto(w, point)
              => /\ OthersSame(w) /\ pc'[w] = point /\ doc'[w] = doc[w]
                 /\ mine'[w] = mine[w] /\ outcome'[w] = outcome[w]
         /\ \A s : FinishAs(w, s)
              => /\ OthersSame(w) /\ pc'[w] = "finish" /\ doc'[w] = doc[w]
                 /\ mine'[w] = mine[w] /\ outcome'[w] = s
         /\ End(w)
              => /\ OthersSame(w) /\ pc'[w] = "idle" /\ doc'[w] = None
                 /\ mine'[w] = NoClaim
BY DEF ControlType, OthersSame, Goto, FinishAs, End

(* What no step of one execution may do to the others.                     *)
Considerate(w) ==
  /\ runs' \in Nat /\ runs' >= runs
  /\ run' = run \/ run' = 0 \/ run' > runs
  /\ \A v \in Workers \ {w} : token' = v => token = v /\ run' = run
  /\ run' = run => draft' = draft \/ (draft = None /\ token = w /\ token' = w)
  /\ \A d \in Drafts : draftStatus[d] \in {"published", "blocked"}
                         => draftStatus'[d] = draftStatus[d]
  /\ \A v \in Workers \ {w} :
       pc[v] = "send" => /\ draftStatus'[doc[v]] = draftStatus[doc[v]]
                         /\ doc[v] \notin byOthers' \ byOthers
  /\ \A d \in Drafts :
       \/ sentFor'[d] \in {0, sentFor[d]}
       \/ Bound(w) /\ d = doc[w] /\ sentFor'[d] = mine[w].run

(* A considerate step leaves what the others know as it is.                *)
LEMMA OthersKnow ==
  ASSUME ExecutionInv, NEW w \in Workers, Considerate(w), OthersSame(w)
  PROVE  \A v \in Workers \ {w} : Claims(v)' /\ Knows(v)'
<1> SUFFICES ASSUME NEW v \in Workers \ {w} PROVE Claims(v)' /\ Knows(v)'
  OBVIOUS
<1>1. /\ Claims(v) /\ Knows(v) /\ Agree(w, v)
      /\ runs \in Nat /\ run \in Nat /\ mine[v].run \in Nat
      /\ doc[v] \in Drafts \cup {None} /\ None \notin Drafts
      /\ v # None
      /\ \A d \in Drafts : sentFor[d] \in Nat
  BY SchedulerAssumption DEF ExecutionInv, IInv, ControlType, RowInv, RowType,
    ColumnType, DraftType
<1>2. Bound(v)' = Bound(v)
  BY DEF Bound, OthersSame
<1>3. pc'[v] = pc[v] /\ mine'[v] = mine[v] /\ doc'[v] = doc[v]
      /\ outcome'[v] = outcome[v]
  BY DEF OthersSame
<1>4. pc[v] # "idle" => mine[v].run # 0 /\ mine[v].run <= runs
  BY <1>1 DEF Claims
<1>5. Bound(v) => pc[v] # "idle"
  BY DEF Bound
<1>6. Claims(v)'
  <2>1. pc'[v] # "idle" => mine'[v].run \in 1..runs'
    BY <1>1, <1>3 DEF Claims, Considerate
  <2>2. token' = v /\ pc'[v] # "idle"
          => mine'[v].run = run' /\ (doc'[v] = None => draft' = None)
    BY <1>1, <1>3 DEF Claims, Considerate
  <2>3. Bound(v)' /\ mine'[v].run = run' => doc'[v] = draft'
    <3> SUFFICES ASSUME Bound(v), mine[v].run = run' PROVE doc[v] = draft'
      BY <1>2, <1>3
    <3>1. run' = run
      BY <1>1, <1>4, <1>5 DEF Considerate
    <3>2. doc[v] = draft /\ doc[v] # None
      BY <1>1, <3>1 DEF Claims, Bound
    <3> QED BY <3>1, <3>2 DEF Considerate
  <2>4. Bound(v)' => \A d \in Drafts : sentFor'[d] = mine'[v].run => doc'[v] = d
    <3> SUFFICES ASSUME Bound(v), NEW d \in Drafts, sentFor'[d] = mine[v].run
                 PROVE  doc[v] = d
      BY <1>2, <1>3
    <3>1. CASE sentFor'[d] = 0
      BY <1>4, <1>5, <3>1
    <3>2. CASE sentFor'[d] = sentFor[d]
      BY <1>1, <3>2 DEF Claims
    <3>3. CASE Bound(w) /\ d = doc[w] /\ sentFor'[d] = mine[w].run
      BY <1>1, <3>3 DEF Agree
    <3> QED BY <3>1, <3>2, <3>3 DEF Considerate
  <2> QED BY <2>1, <2>2, <2>3, <2>4 DEF Claims
<1>7. Knows(v)'
  BY <1>1, <1>3 DEF Knows, Considerate, Drafted
<1> QED BY <1>6, <1>7

(* What a considerate step must still show of the execution that takes it,  *)
(* for the whole to be kept.                                               *)
LEMMA OneStep ==
  ASSUME ExecutionInv, IInv', NEW w \in Workers, Considerate(w), OthersSame(w),
         RunInv', Claims(w)', Knows(w)',
         \A v \in Workers \ {w} : Agree(w, v)'
  PROVE  ExecutionInv'
<1>1. \A v \in Workers : Claims(v)' /\ Knows(v)'
  BY OthersKnow
<1>2. ASSUME NEW v \in Workers, NEW u \in Workers
      PROVE  Agree(v, u)'
  <2>1. CASE v = w /\ u = w
    BY <2>1 DEF Agree
  <2>2. CASE v = w /\ u # w
    BY <2>2
  <2>3. CASE v # w /\ u = w
    <3>1. Agree(w, v)'
      BY <2>3
    <3> QED BY <2>3, <3>1 DEF Agree, Bound
  <2>4. CASE v # w /\ u # w
    BY <2>4 DEF ExecutionInv, OthersSame, Agree, Bound
  <2> QED BY <2>1, <2>2, <2>3, <2>4
<1> QED BY <1>1, <1>2 DEF ExecutionInv

(* Most steps are calm: they write no checkpoint but a receipt of what is   *)
(* published, touch no draft that is or was being published, and the       *)
(* execution ends or goes on with what it has, sending nothing.            *)
Calm ==
  /\ UNCHANGED <<runs, byOthers, sentFor>>
  /\ token' \in {token, None}
  /\ UNCHANGED <<run, draft>> \/ (run' = 0 /\ token' = None)
  /\ receipt' # None => receipt' = receipt \/ draftStatus[receipt'] = "published"
  /\ \A d \in Drafts : draftStatus[d] \in {"published", "blocked", "publishing"}
                         => draftStatus'[d] = draftStatus[d]

Stops(w) ==
  OthersSame(w) /\ pc'[w] = "idle" /\ mine'[w] = NoClaim /\ doc'[w] = None

GoesOn(w) ==
  /\ OthersSame(w)
  /\ UNCHANGED run
  /\ pc[w] # "idle" /\ mine'[w] = mine[w]
  /\ doc'[w] = doc[w] \/ (doc'[w] # None /\ pc'[w] = "checkpoint")
  /\ Bound(w)' => Bound(w)
  /\ pc'[w] # "send"
  /\ Knows(w)'

(* A calm step after which the execution stops or goes on keeps it all.     *)
LEMMA CalmStep ==
  ASSUME ExecutionInv, IInv', NEW w \in Workers, Calm, Stops(w) \/ GoesOn(w)
  PROVE  ExecutionInv'
<1>1. /\ Claims(w) /\ Knows(w) /\ RunInv
      /\ runs \in Nat /\ run \in Nat /\ mine[w].run \in Nat
      /\ w # None /\ None \notin Drafts
      /\ receipt \in Drafts \cup {None} /\ receipt' \in Drafts \cup {None}
      /\ byOthers \subseteq Drafts
      /\ \A d \in Drafts : sentFor[d] \in Nat
  BY SchedulerAssumption DEF ExecutionInv, IInv, ControlType, RowInv, RowType,
    ColumnType, DraftType
<1> OthersSame(w)
  BY DEF Stops, GoesOn
<1>2. Considerate(w)
  <2>1. \A v \in Workers \ {w} :
          pc[v] = "send" => draftStatus[doc[v]] = "publishing" /\ doc[v] \in Drafts
    BY SchedulerAssumption DEF ExecutionInv, Knows, Drafted, IInv, ControlType
  <2>2. \A v \in Workers \ {w} : token' = v => token = v /\ run' = run
    BY SchedulerAssumption DEF Calm
  <2>3. run' = run => draft' = draft
    BY DEF Calm, ExecutionInv, IInv, RowInv, RowLinks, RunChecks
  <2> QED BY <1>1, <2>1, <2>2, <2>3 DEF Considerate, Calm
<1>3. RunInv'
  <2>1. run' # 0 => run' = runs'
    BY <1>1 DEF RunInv, Calm
  <2>2. \A d \in Drafts : sentFor'[d] <= runs'
                          /\ (sentFor'[d] # 0 /\ sentFor'[d] = run' => draft' = d)
    BY <1>1 DEF RunInv, Calm
  <2>3. receipt' # None => draftStatus'[receipt'] = "published"
    BY <1>1 DEF RunInv, Calm
  <2>4. \A d \in byOthers' : draftStatus'[d] = "publishing"
    BY <1>1 DEF RunInv, Calm
  <2>5. OneArticlePerRun'
    BY <1>1 DEF RunInv, Calm, OneArticlePerRun
  <2> QED BY <2>1, <2>2, <2>3, <2>4, <2>5 DEF RunInv
<1>4. CASE Stops(w)
  <2>1. ~Bound(w)'
    BY <1>4 DEF Stops, Bound
  <2>2. Claims(w)' /\ Knows(w)'
    BY <1>4, <2>1 DEF Stops, Claims, Knows, NoClaim, Drafted
  <2>3. \A v \in Workers \ {w} : Agree(w, v)'
    BY <1>4, <2>1 DEF Stops, Agree
  <2> QED BY <1>2, <1>3, <2>2, <2>3, OneStep
<1>5. CASE GoesOn(w)
  <2>1. Bound(w)' => doc'[w] = doc[w]
    BY <1>5 DEF GoesOn, Bound
  <2>2. Claims(w)'
    BY <1>1, <1>5, <2>1 DEF GoesOn, Claims, Calm
  <2>3. ASSUME NEW v \in Workers \ {w} PROVE Agree(w, v)'
    <3>1. Agree(w, v) /\ Bound(v)' = Bound(v)
      BY DEF ExecutionInv, OthersSame, Bound
    <3>2. mine'[v] = mine[v] /\ doc'[v] = doc[v]
      BY DEF OthersSame
    <3> QED BY <1>5, <2>1, <3>1, <3>2 DEF Agree, GoesOn
  <2>4. Knows(w)'
    BY <1>5 DEF GoesOn
  <2> QED BY <1>2, <1>3, <2>2, <2>3, <2>4, OneStep
<1> QED BY <1>4, <1>5

(* The catch stops an execution or takes it to an end that claims nothing.  *)
LEMMA Throws ==
  ASSUME ExecutionInv, Calm, UNCHANGED run, NEW w \in Workers, NEW code,
         pc[w] # "idle", Throw(w, code)
  PROVE  Stops(w) \/ GoesOn(w)
<1>1. ControlType /\ Knows(w)
  BY DEF ExecutionInv, IInv
<1>2. CASE End(w)
  BY <1>1, <1>2, Moves DEF Stops
<1>3. CASE Goto(w, "pause") \/ FinishAs(w, "failed")
  <2>1. /\ OthersSame(w) /\ doc'[w] = doc[w] /\ mine'[w] = mine[w]
        /\ \/ pc'[w] = "pause"
           \/ pc'[w] = "finish" /\ outcome'[w] = "failed"
    BY <1>1, <1>3, Moves
  <2>2. Knows(w)'
    BY <1>1, <2>1, SchedulerAssumption
    DEF Knows, Calm, Drafted, ControlType
  <2>3. ~Bound(w)'
    BY <2>1 DEF Bound, Ended
  <2> QED BY <2>1, <2>2, <2>3 DEF GoesOn
<1> QED BY <1>2, <1>3 DEF Throw

(* Finishing keeps what is known, if what it says of the draft is so.       *)
LEMMA Finishes ==
  ASSUME ExecutionInv, Calm, UNCHANGED run, NEW w \in Workers, pc[w] # "idle",
         NEW s \in Statuses, FinishAs(w, s),
         s = "published" => doc[w] # None /\ draftStatus'[doc[w]] = "published",
         s = "blocked_by_policy" => doc[w] # None /\ draftStatus'[doc[w]] = "blocked",
         s = "no_candidates" => doc[w] = None,
         s \in Ended => Bound(w)
  PROVE  Stops(w) \/ GoesOn(w)
<1>1. ControlType /\ Knows(w)
  BY DEF ExecutionInv, IInv
<1>2. /\ OthersSame(w) /\ doc'[w] = doc[w] /\ mine'[w] = mine[w]
      /\ pc'[w] = "finish" /\ outcome'[w] = s
  BY <1>1, Moves
<1>3. Knows(w)'
  BY <1>1, <1>2, SchedulerAssumption
  DEF Knows, Calm, Drafted, ControlType, Ended
<1>4. Bound(w)' => Bound(w)
  BY <1>2 DEF Bound
<1> QED BY <1>2, <1>3, <1>4 DEF GoesOn

(* Going on keeps what is known, if the next point asks for no more.        *)
LEMMA GoesQuietly ==
  ASSUME ExecutionInv, Calm, UNCHANGED run, NEW w \in Workers, pc[w] # "idle",
         NEW point \in Points \ {"idle", "finish", "send"}, Goto(w, point),
         point \in {"acquire", "research"} => doc[w] = None,
         point \in Drafted => doc[w] # None,
         point = "record" => draftStatus[doc[w]] = "published",
         doc[w] # None /\ point \notin {"checkpoint", "lost", "pause"} => Bound(w)
  PROVE  Stops(w) \/ GoesOn(w)
<1>1. ControlType /\ Knows(w)
  BY DEF ExecutionInv, IInv
<1>2. /\ OthersSame(w) /\ doc'[w] = doc[w] /\ mine'[w] = mine[w]
      /\ pc'[w] = point
  BY <1>1, Moves
<1>3. Knows(w)'
  <2>1. doc[w] # None => doc[w] \in Drafts
    BY <1>1 DEF ControlType
  <2>2. mine[w].receipt # None => doc[w] # None
    BY <1>1, SchedulerAssumption DEF Knows
  <2> QED BY <1>1, <1>2, <2>1, <2>2
    DEF Knows, Calm, Drafted
<1>4. Bound(w)' => Bound(w)
  BY <1>2 DEF Bound
<1> QED BY <1>2, <1>3, <1>4 DEF GoesOn

(* A deferral check is calm.                                               *)
LEMMA DefersCalmly ==
  ASSUME ExecutionInv, IInv', NEW w \in Workers,
         NEW here \in Points \ {"idle"},
         NEW onward \in Points \ {"idle", "finish", "send", "acquire", "research"},
         DeferIfQuiet(w, here, onward),
         onward \in Drafted => doc[w] # None,
         onward = "record" => draftStatus[doc[w]] = "published",
         doc[w] # None => Bound(w)
  PROVE  ExecutionInv'
<1>1. Calm /\ UNCHANGED run /\ pc[w] # "idle"
  BY DEF DeferIfQuiet, DeferForQuietHours, Calm, rowVars, draftVars
<1> SUFFICES Stops(w) \/ GoesOn(w)
  BY <1>1, CalmStep
<1>2. CASE Goto(w, onward)
  BY <1>1, <1>2, GoesQuietly
<1>3. CASE End(w)
  BY <1>3, Moves DEF Stops, ExecutionInv, IInv
<1>4. CASE Throw(w, "claim_lost")
  BY <1>1, <1>4, Throws
<1> QED BY <1>2, <1>3, <1>4 DEF DeferIfQuiet

(* The steps that only check, wait, fail or report.                         *)
LEMMA CalmSteps ==
  ASSUME ExecutionInv, IInv', NEW w \in Workers,
         \/ EarlyDeferral(w) \/ DeliveryDeferral(w) \/ RenewedDeferral(w)
         \/ HasPendingTelegramReview(w) \/ AcquireLease(w) \/ ReleaseLease(w)
         \/ RenewClaim(w) \/ DeliverReview(w) \/ ApproveCheckpoint(w)
         \/ SaveNewsSchedulePublication(w) \/ Pause(w) \/ Fault(w) \/ Crash(w)
  PROVE  ExecutionInv'
<1>1. /\ ControlType /\ Knows(w) /\ Claims(w)
      /\ doc[w] \in Drafts \cup {None} /\ mine[w].receipt \in Drafts \cup {None}
      /\ None \notin Drafts
      /\ draftStatus \in [Drafts -> {"absent", "review", "approved", "publishing",
                                     "published", "rejected", "blocked"}]
  BY SchedulerAssumption DEF ExecutionInv, IInv, ControlType, DraftType
<1>2. CASE EarlyDeferral(w)
  <2>1. doc[w] # None => Bound(w)
    BY <1>2 DEF EarlyDeferral, DeferIfQuiet, Bound
  <2>2. "early" \in Points \ {"idle"}
    OBVIOUS
  <2>3. "pending" \in Points \ {"idle", "finish", "send", "acquire", "research"}
        /\ "pending" \notin Drafted
    BY DEF Drafted
  <2>4. DeferIfQuiet(w, "early", "pending")
    BY <1>2 DEF EarlyDeferral
  <2> QED BY <2>1, <2>2, <2>3, <2>4, DefersCalmly
<1>3. CASE DeliveryDeferral(w)
  <2> DEFINE onward == IF mine[w].policy = "automatic" /\ mine[w].receipt # None
                       THEN "record" ELSE "renew"
  <2>1. DeferIfQuiet(w, "late", onward)
    BY <1>3 DEF DeliveryDeferral
  <2>2. pc[w] = "late"
    BY <2>1 DEF DeferIfQuiet
  <2>3. doc[w] # None /\ Bound(w)
    BY <1>1, <2>2 DEF Knows, Drafted, Bound
  <2>4. onward = "record" => draftStatus[doc[w]] = "published"
    BY <1>1 DEF Knows
  <2>5. onward \in Points \ {"idle", "finish", "send", "acquire", "research"}
        /\ "late" \in Points \ {"idle"}
    OBVIOUS
  <2> HIDE DEF onward
  <2> QED BY <2>1, <2>3, <2>4, <2>5, DefersCalmly
<1>4. CASE RenewedDeferral(w)
  <2> DEFINE onward == IF mine[w].policy = "manual" THEN "deliver" ELSE "approve"
  <2>1. DeferIfQuiet(w, "final", onward)
    BY <1>4 DEF RenewedDeferral
  <2>2. pc[w] = "final"
    BY <2>1 DEF DeferIfQuiet
  <2>3. doc[w] # None /\ Bound(w)
    BY <1>1, <2>2 DEF Knows, Drafted, Bound
  <2>4. onward \in Points \ {"idle", "finish", "send", "acquire", "research"}
        /\ "final" \in Points \ {"idle"} /\ onward # "record"
    OBVIOUS
  <2> HIDE DEF onward
  <2> QED BY <2>1, <2>3, <2>4, DefersCalmly
<1>5. CASE HasPendingTelegramReview(w)
  <2>1. Calm /\ UNCHANGED run /\ pc[w] = "pending"
    BY <1>5 DEF HasPendingTelegramReview, Calm, rowVars, draftVars
  <2> SUFFICES Stops(w) \/ GoesOn(w)
    BY <2>1, CalmStep
  <2>2. CASE FinishAs(w, "skipped_pending_review")
    BY <2>1, <2>2, Finishes DEF Ended
  <2>3. CASE Goto(w, "late") /\ doc[w] # None
    BY <2>1, <2>3, GoesQuietly DEF Bound
  <2>4. CASE Goto(w, "acquire") /\ doc[w] = None
    BY <2>1, <2>4, GoesQuietly DEF Drafted
  <2> QED BY <1>5, <2>2, <2>3, <2>4 DEF HasPendingTelegramReview
<1>6. CASE AcquireLease(w)
  <2>1. Calm /\ UNCHANGED run /\ pc[w] = "acquire" /\ doc[w] = None
    BY <1>1, <1>6 DEF AcquireLease, Calm, rowVars, draftVars, Knows
  <2> SUFFICES Stops(w) \/ GoesOn(w)
    BY <2>1, CalmStep
  <2>2. CASE Goto(w, "research")
    BY <2>1, <2>2, GoesQuietly DEF Drafted
  <2>3. CASE Throw(w, "pipeline_busy")
    BY <2>1, <2>3, Throws
  <2> QED BY <1>6, <2>2, <2>3 DEF AcquireLease
<1>7. CASE ReleaseLease(w)
  <2>1. Calm /\ UNCHANGED run /\ pc[w] \in {"release", "lost"}
    BY <1>7 DEF ReleaseLease, Calm, rowVars, draftVars
  <2> SUFFICES Stops(w) \/ GoesOn(w)
    BY <2>1, CalmStep
  <2>2. CASE Throw(w, "claim_lost")
    BY <2>1, <2>2, Throws
  <2>3. CASE doc[w] = None /\ FinishAs(w, "no_candidates")
    BY <2>1, <2>3, Finishes DEF Ended
  <2>4. CASE pc[w] = "release" /\ doc[w] # None /\ Goto(w, "late")
    BY <2>1, <2>4, GoesQuietly DEF Bound
  <2> QED BY <1>7, <2>2, <2>3, <2>4 DEF ReleaseLease
<1>8. CASE RenewClaim(w)
  <2>1. Calm /\ UNCHANGED run /\ pc[w] = "renew"
    BY <1>8 DEF RenewClaim, Calm, draftVars
  <2>2. doc[w] # None /\ Bound(w)
    BY <1>1, <2>1 DEF Knows, Drafted, Bound
  <2> SUFFICES Stops(w) \/ GoesOn(w)
    BY <2>1, CalmStep
  <2>3. CASE Goto(w, "final")
    BY <2>1, <2>2, <2>3, GoesQuietly
  <2>4. CASE Throw(w, "claim_lost")
    BY <2>1, <2>4, Throws
  <2> QED BY <1>8, <2>3, <2>4 DEF RenewClaim
<1>9. CASE DeliverReview(w)
  <2>1. Calm /\ UNCHANGED run /\ pc[w] = "deliver"
    BY <1>9 DEF DeliverReview, Calm, rowVars
  <2>2. FinishAs(w, "review_already_resolved") \/ FinishAs(w, "awaiting_approval")
    BY <1>9 DEF DeliverReview
  <2>3. Stops(w) \/ GoesOn(w)
    BY <2>1, <2>2, Finishes DEF Ended
  <2> QED BY <2>1, <2>3, CalmStep
<1>10. CASE ApproveCheckpoint(w)
  <2>1. Calm /\ UNCHANGED run /\ pc[w] = "approve"
    BY <1>1, <1>10 DEF ApproveCheckpoint, Calm, rowVars
  <2>2. doc[w] # None /\ Bound(w)
    BY <1>1, <2>1 DEF Knows, Drafted, Bound
  <2>3. Goto(w, "publish")
    BY <1>10 DEF ApproveCheckpoint
  <2>4. Stops(w) \/ GoesOn(w)
    BY <2>1, <2>2, <2>3, GoesQuietly
  <2> QED BY <2>1, <2>4, CalmStep
<1>11. CASE SaveNewsSchedulePublication(w)
  <2>1. pc[w] = "record" /\ UNCHANGED <<draftStatus, run>>
    BY <1>11 DEF SaveNewsSchedulePublication, draftVars
  <2>2. doc[w] # None /\ Bound(w) /\ draftStatus[doc[w]] = "published"
    BY <1>1, <2>1 DEF Knows, Drafted, Bound
  <2>3. Calm
    BY <1>11, <2>2 DEF SaveNewsSchedulePublication, Calm, draftVars
  <2> SUFFICES Stops(w) \/ GoesOn(w)
    BY <2>3, CalmStep
  <2>4. CASE FinishAs(w, "published")
    BY <2>1, <2>2, <2>3, <2>4, Finishes
  <2>5. CASE Throw(w, "claim_lost")
    BY <2>1, <2>3, <2>5, Throws
  <2> QED BY <1>11, <2>4, <2>5 DEF SaveNewsSchedulePublication
<1>12. CASE Pause(w)
  <2>1. Calm
    BY <1>12 DEF Pause, PauseUnresolved, Calm, rowVars, draftVars
  <2>2. Stops(w)
    BY <1>1, <1>12, Moves DEF Pause, Stops
  <2> QED BY <2>1, <2>2, CalmStep
<1>13. CASE Fault(w)
  <2>1. Calm /\ UNCHANGED run /\ pc[w] # "idle"
    BY <1>13 DEF Fault, Calm, rowVars
  <2> SUFFICES Stops(w) \/ GoesOn(w)
    BY <2>1, CalmStep
  <2>2. CASE End(w)
    BY <1>1, <2>2, Moves DEF Stops
  <2>3. CASE FinishAs(w, "failed")
    BY <2>1, <2>3, Finishes DEF Ended
  <2>4. CASE \/ Throw(w, "review_delivery_failed")
             \/ Throw(w, "scheduled_run_failed") \/ Throw(w, "claim_lost")
    BY <2>1, <2>4, Throws
  <2> QED BY <1>13, <2>2, <2>3, <2>4 DEF Fault
<1>14. CASE Crash(w)
  <2>1. Calm
    BY <1>14 DEF Crash, Calm, rowVars, draftVars
  <2>2. Stops(w)
    BY <1>1, <1>14, Moves DEF Crash, Stops
  <2> QED BY <2>1, <2>2, CalmStep
<1> QED BY <1>2, <1>3, <1>4, <1>5, <1>6, <1>7, <1>8, <1>9, <1>10, <1>11, <1>12,
           <1>13, <1>14

(* What the proofs below use of the invariant about one execution.          *)
LEMMA Facts ==
  ASSUME ExecutionInv, NEW w \in Workers
  PROVE  /\ ControlType /\ RunInv /\ Knows(w) /\ Claims(w)
         /\ \A v \in Workers : Agree(w, v)
         /\ w # None /\ None \notin Drafts
         /\ doc[w] \in Drafts \cup {None} /\ mine[w].receipt \in Drafts \cup {None}
         /\ mine[w].run \in Nat /\ runs \in Nat /\ run \in Nat
         /\ draft \in Drafts \cup {None} /\ receipt \in Drafts \cup {None}
         /\ \A d \in Drafts : sentFor[d] \in Nat
         /\ RunChecks /\ ReceiptOfDraft /\ ClaimHasRun
         /\ DraftType
  BY SchedulerAssumption DEF ExecutionInv, IInv, ControlType, RowInv, RowType,
    ColumnType, DraftType, RowLinks

(* Research drafts something nobody has sent, or nothing.                   *)
LEMMA WorkflowStep ==
  ASSUME ExecutionInv, IInv', NEW w \in Workers, RunWorkflow(w)
  PROVE  ExecutionInv'
<1>1. Knows(w) /\ pc[w] = "research" /\ doc[w] = None
      /\ mine[w].receipt = None /\ None \notin Drafts /\ ControlType /\ DraftType
  BY Facts DEF RunWorkflow, Knows
<1>2. Calm /\ UNCHANGED run
  BY <1>1 DEF RunWorkflow, Calm, rowVars, DraftType
<1> SUFFICES Stops(w) \/ GoesOn(w)
  BY <1>2, CalmStep
<1>3. CASE Goto(w, "release") \/ Goto(w, "lost")
  BY <1>1, <1>2, <1>3, GoesQuietly DEF Drafted
<1>4. ASSUME NEW d \in Drafts,
             /\ doc' = [doc EXCEPT ![w] = d]
             /\ pc' = [pc EXCEPT ![w] = "checkpoint"]
             /\ UNCHANGED <<mine, outcome>>
      PROVE  GoesOn(w)
  <2>1. OthersSame(w) /\ doc'[w] = d /\ pc'[w] = "checkpoint" /\ mine'[w] = mine[w]
    BY <1>1, <1>4 DEF ControlType, OthersSame
  <2>2. Knows(w)' /\ ~Bound(w)'
    BY <1>1, <2>1 DEF Knows, Drafted, Bound
  <2> QED BY <1>1, <1>2, <2>1, <2>2 DEF GoesOn
<1> QED BY <1>3, <1>4 DEF RunWorkflow

(* Finishing clears the run, if its claim is still held.                    *)
LEMMA FinishStep ==
  ASSUME ExecutionInv, IInv', NEW w \in Workers, Finish(w)
  PROVE  ExecutionInv'
<1>1. Calm
  BY DEF Finish, FinishNewsSchedule, ClearRun, Calm, rowVars, draftVars
<1>2. Stops(w)
  BY Facts, Moves DEF Finish, Stops
<1> QED BY <1>1, <1>2, CalmStep

(* A checkpoint binds the run to the draft of whoever holds its claim.      *)
LEMMA CheckpointStep ==
  ASSUME ExecutionInv, IInv', NEW w \in Workers, SaveNewsScheduleDraft(w)
  PROVE  ExecutionInv'
<1>1. CASE Goto(w, "lost") /\ UNCHANGED <<draft, stale>>
  <2>1. Calm /\ UNCHANGED run /\ pc[w] # "idle"
    BY <1>1 DEF SaveNewsScheduleDraft, Calm, draftVars
  <2>2. Stops(w) \/ GoesOn(w)
    BY <1>1, <2>1, GoesQuietly DEF Drafted
  <2> QED BY <2>1, <2>2, CalmStep
<1>2. CASE /\ Owns(w) /\ draft \in {None, doc[w]}
           /\ draft' = doc[w] /\ stale' = FALSE /\ Goto(w, "release")
  <2>1. /\ pc[w] = "checkpoint" /\ doc[w] \in Drafts /\ token = w
        /\ UNCHANGED <<token, run, receipt, runs, draftStatus, byOthers, sentFor>>
        /\ mine[w].run = run /\ run # 0
    BY <1>2, Facts DEF SaveNewsScheduleDraft, Owns, draftVars, Claims, Knows,
      Drafted, ClaimHasRun
  <2>2. /\ OthersSame(w) /\ pc'[w] = "release" /\ doc'[w] = doc[w]
        /\ mine'[w] = mine[w] /\ outcome'[w] = outcome[w]
    BY <1>2, Facts, Moves
  <2>3. Considerate(w)
    BY <1>2, <2>1, Facts DEF Considerate
  <2>4. RunInv'
    BY <1>2, <2>1, Facts DEF RunInv, OneArticlePerRun
  <2>5. Claims(w)'
    BY <1>2, <2>1, <2>2, Facts DEF Claims, RunInv
  <2>6. Knows(w)'
    BY <2>1, <2>2, Facts DEF Knows, Drafted
  <2>7. ASSUME NEW v \in Workers \ {w} PROVE Agree(w, v)'
    <3>1. Bound(v) /\ mine[v].run = run => doc[v] = doc[w]
      BY <1>2, Facts DEF Claims, Bound
    <3>2. Bound(v)' = Bound(v)
      BY <2>2 DEF OthersSame, Bound
    <3>3. mine'[v] = mine[v] /\ doc'[v] = doc[v]
      BY <2>2 DEF OthersSame
    <3> QED BY <2>1, <2>2, <3>1, <3>2, <3>3 DEF Agree
  <2> QED BY <2>2, <2>3, <2>4, <2>5, <2>6, <2>7, OneStep
<1> QED BY <1>1, <1>2 DEF SaveNewsScheduleDraft

(* Claiming the publication makes the draft the one its run sends.          *)
LEMMA PublicationStep ==
  ASSUME ExecutionInv, IInv', NEW w \in Workers, ClaimPublication(w)
  PROVE  ExecutionInv'
<1> DEFINE d == doc[w]
<1>1. pc[w] = "publish" /\ d \in Drafts /\ Bound(w)
  BY Facts DEF ClaimPublication, Knows, Drafted, Bound
<1>2. UNCHANGED <<token, run, draft, receipt, runs, byOthers>>
  BY DEF ClaimPublication, rowVars
<1>3. CASE /\ draftStatus[d] = "approved"
           /\ draftStatus' = [draftStatus EXCEPT ![d] = "publishing"]
           /\ sentFor' = [sentFor EXCEPT ![d] = mine[w].run]
           /\ Goto(w, "send")
  <2>1. /\ OthersSame(w) /\ pc'[w] = "send" /\ d' = d
        /\ mine'[w] = mine[w] /\ outcome'[w] = outcome[w]
    BY <1>3, Facts, Moves
  <2>2. /\ draftStatus'[d] = "publishing" /\ sentFor'[d] = mine[w].run
        /\ \A e \in Drafts \ {d} : draftStatus'[e] = draftStatus[e]
                                   /\ sentFor'[e] = sentFor[e]
    BY <1>1, <1>3, Facts DEF DraftType
  <2>3. d \notin byOthers
    BY <1>3, Facts DEF RunInv
  <2>4. \A v \in Workers : pc[v] = "send" => doc[v] # d /\ doc[v] \in Drafts
    BY <1>3, Facts DEF Knows, Drafted
  <2>5. Considerate(w)
    <3>1. \A e \in Drafts : draftStatus[e] \in {"published", "blocked"}
                              => draftStatus'[e] = draftStatus[e]
      BY <1>3, <2>2
    <3>2. \A v \in Workers \ {w} :
            pc[v] = "send" => /\ draftStatus'[doc[v]] = draftStatus[doc[v]]
                              /\ doc[v] \notin byOthers' \ byOthers
      BY <1>2, <2>2, <2>4
    <3>3. \A e \in Drafts :
            \/ sentFor'[e] \in {0, sentFor[e]}
            \/ Bound(w) /\ e = doc[w] /\ sentFor'[e] = mine[w].run
      BY <1>1, <2>2
    <3> QED BY <1>2, <3>1, <3>2, <3>3, Facts DEF Considerate
  <2>6. RunInv'
    <3>1. mine[w].run <= runs /\ mine[w].run # 0
      BY <1>1, Facts DEF Claims
    <3>2. mine[w].run = run => draft = d
      BY <1>1, Facts DEF Claims
    <3>3. \A e \in Drafts : sentFor[e] = mine[w].run => e = d
      BY <1>1, Facts DEF Claims
    <3>4. OneArticlePerRun'
      BY <1>1, <2>2, <3>3, Facts DEF OneArticlePerRun, RunInv
    <3>5. receipt' # None => draftStatus'[receipt'] = "published"
      BY <1>2, <1>3, <2>2, Facts DEF RunInv
    <3>6. \A e \in byOthers' : draftStatus'[e] = "publishing"
      BY <1>2, <2>2, <2>3, Facts DEF RunInv, DraftType
    <3>7. \A e \in Drafts : sentFor'[e] <= runs'
                            /\ (sentFor'[e] # 0 /\ sentFor'[e] = run' => draft' = e)
      BY <1>2, <2>2, <3>1, <3>2, Facts DEF RunInv
    <3>8. run' # 0 => run' = runs'
      BY <1>2, Facts DEF RunInv
    <3> QED BY <3>4, <3>5, <3>6, <3>7, <3>8 DEF RunInv
  <2>7. Claims(w)'
    BY <1>1, <1>2, <2>1, <2>2, Facts DEF Claims
  <2>8. Knows(w)'
    BY <1>1, <1>2, <1>3, <2>1, <2>2, <2>3, Facts DEF Knows, Drafted
  <2>9. ASSUME NEW v \in Workers \ {w} PROVE Agree(w, v)'
    <3>1. Agree(w, v) /\ Bound(v)' = Bound(v) /\ mine'[v] = mine[v]
          /\ doc'[v] = doc[v] /\ pc'[v] = pc[v]
      BY <2>1, Facts DEF OthersSame, Bound
    <3> QED BY <1>1, <2>1, <2>4, <3>1 DEF Agree
  <2> HIDE DEF d
  <2> QED BY <2>1, <2>5, <2>6, <2>7, <2>8, <2>9, OneStep
<1>4. CASE /\ \/ /\ draftStatus[d] = "approved"
                 /\ draftStatus' = [draftStatus EXCEPT ![d] = "blocked"]
              \/ draftStatus[d] = "blocked" /\ UNCHANGED draftStatus
           /\ FinishAs(w, "blocked_by_policy") /\ UNCHANGED sentFor
  <2>1. Calm
    BY <1>1, <1>2, <1>4, Facts DEF Calm, DraftType
  <2>2. draftStatus'[d] = "blocked"
    BY <1>1, <1>4, Facts DEF DraftType
  <2>3. Stops(w) \/ GoesOn(w)
    BY <1>1, <1>2, <1>4, <2>1, <2>2, Finishes, Facts
  <2> QED BY <2>1, <2>3, CalmStep
<1>5. CASE draftStatus[d] = "published" /\ Goto(w, "record")
           /\ UNCHANGED <<draftStatus, sentFor>>
  <2>1. Calm
    BY <1>2, <1>5 DEF Calm
  <2>2. Stops(w) \/ GoesOn(w)
    BY <1>1, <1>2, <1>5, <2>1, GoesQuietly, Facts
  <2> QED BY <2>1, <2>2, CalmStep
<1>6. CASE Throw(w, "scheduled_run_failed") /\ UNCHANGED <<draftStatus, sentFor>>
  <2>1. Calm
    BY <1>2, <1>6 DEF Calm
  <2>2. Stops(w) \/ GoesOn(w)
    BY <1>1, <1>2, <1>6, <2>1, Throws
  <2> QED BY <2>1, <2>2, CalmStep
<1> QED BY <1>3, <1>4, <1>5, <1>6 DEF ClaimPublication

(* The send settles the draft, returns it, or leaves it unresolved.         *)
LEMMA SendStep ==
  ASSUME ExecutionInv, IInv', NEW w \in Workers, SendPublication(w)
  PROVE  ExecutionInv'
<1> DEFINE d == doc[w]
<1>1. pc[w] = "send" /\ d \in Drafts /\ Bound(w) /\ d \notin byOthers
      /\ draftStatus[d] = "publishing"
  BY Facts DEF SendPublication, Knows, Drafted, Bound
<1>2. UNCHANGED <<token, run, draft, receipt, runs, byOthers>>
  BY DEF SendPublication, rowVars
<1>3. \/ Goto(w, "record") /\ draftStatus'[d] = "published" /\ UNCHANGED sentFor
      \/ Throw(w, "scheduled_run_failed") /\ sentFor' = [sentFor EXCEPT ![d] = 0]
      \/ Throw(w, "publication_unresolved") /\ UNCHANGED sentFor
  BY <1>1, Facts DEF SendPublication, DraftType
<1>4. \A e \in Drafts \ {d} : draftStatus'[e] = draftStatus[e]
                              /\ sentFor'[e] = sentFor[e]
  BY <1>1, Facts DEF SendPublication, DraftType
<1>5. sentFor'[d] \in {0, sentFor[d]}
  BY <1>1, <1>3, Facts DEF DraftType
<1>6. /\ OthersSame(w) /\ d' = d /\ mine'[w] = mine[w]
      /\ \/ pc'[w] = "record" /\ draftStatus'[d] = "published"
         \/ pc'[w] = "finish" /\ outcome'[w] = "failed"
         \/ pc'[w] = "pause"
  BY <1>3, Facts, Moves DEF Throw
<1>7. \A v \in Workers \ {w} : pc[v] = "send" => doc[v] # d /\ doc[v] \in Drafts
  BY <1>1, Facts DEF Agree, Knows, Drafted
<1>8. mine[w].receipt = None
  BY <1>1, Facts DEF Knows
<1>9. Bound(w)' => Bound(w)
  BY <1>1
<1>10. Considerate(w)
  <2>1. \A e \in Drafts : draftStatus[e] \in {"published", "blocked"}
                            => draftStatus'[e] = draftStatus[e]
    BY <1>1, <1>4
  <2>2. \A v \in Workers \ {w} :
          pc[v] = "send" => /\ draftStatus'[doc[v]] = draftStatus[doc[v]]
                            /\ doc[v] \notin byOthers' \ byOthers
    BY <1>2, <1>4, <1>7
  <2>3. \A e \in Drafts : sentFor'[e] \in {0, sentFor[e]}
    BY <1>4, <1>5
  <2> QED BY <1>2, <2>1, <2>2, <2>3, Facts DEF Considerate
<1>11. RunInv'
  <2>1. OneArticlePerRun'
    BY <1>4, <1>5, Facts DEF OneArticlePerRun, RunInv
  <2>2. receipt' # None => draftStatus'[receipt'] = "published"
    BY <1>1, <1>2, <1>4, Facts DEF RunInv
  <2>3. \A e \in byOthers' : draftStatus'[e] = "publishing"
    BY <1>1, <1>2, <1>4, Facts DEF RunInv, DraftType
  <2>4. \A e \in Drafts : sentFor'[e] <= runs'
                          /\ (sentFor'[e] # 0 /\ sentFor'[e] = run' => draft' = e)
    BY <1>2, <1>4, <1>5, Facts DEF RunInv
  <2>5. run' # 0 => run' = runs'
    BY <1>2, Facts DEF RunInv
  <2> QED BY <2>1, <2>2, <2>3, <2>4, <2>5 DEF RunInv
<1>12. Claims(w)'
  <2>1. mine[w].run # 0
    BY <1>1, Facts DEF Claims
  <2>2. \A e \in Drafts : sentFor'[e] = mine[w].run => d = e
    BY <1>1, <1>4, <2>1, Facts DEF Claims
  <2> QED BY <1>1, <1>2, <1>6, <2>2, Facts DEF Claims
<1>13. Knows(w)'
  BY <1>1, <1>6, <1>8, Facts DEF Knows, Drafted
<1>14. ASSUME NEW v \in Workers \ {w} PROVE Agree(w, v)'
  <2>1. Agree(w, v) /\ Bound(v)' = Bound(v) /\ mine'[v] = mine[v] /\ doc'[v] = doc[v]
    BY <1>6, Facts DEF OthersSame, Bound
  <2> QED BY <1>1, <1>6, <2>1 DEF Agree
<1> HIDE DEF d
<1> QED BY <1>6, <1>10, <1>11, <1>12, <1>13, <1>14, OneStep

(* A claim resumes the run with what the row says of it, or begins one      *)
(* nobody knows of.                                                        *)
LEMMA ClaimStep ==
  ASSUME ExecutionInv, IInv', NEW w \in Workers, ClaimDueNewsSchedule(w)
  PROVE  ExecutionInv'
<1>1. /\ UNCHANGED <<draft, receipt, draftStatus, byOthers, sentFor>>
      /\ token' = w /\ pc[w] = "idle"
      /\ \/ run # 0 /\ run = runs /\ run' = run /\ runs' = runs
         \/ run = 0 /\ draft = None /\ run' = runs + 1 /\ runs' = runs + 1
  BY Facts DEF ClaimDueNewsSchedule, TakeSnapshot, draftVars, RunChecks, RunInv
<1>2. /\ OthersSame(w) /\ pc'[w] = "early" /\ doc'[w] = draft
      /\ mine'[w].run = run' /\ mine'[w].receipt = receipt
  BY <1>1, Facts DEF ClaimDueNewsSchedule, ControlType, OthersSame
<1>3. run' = runs' /\ run' \in Nat /\ run' # 0 /\ run' >= 1
      /\ (run' = run \/ (run' = runs + 1 /\ draft = None))
  BY <1>1, Facts
<1>4. Considerate(w)
  BY <1>1, Facts DEF Considerate
<1>5. RunInv'
  <2>1. OneArticlePerRun'
    BY <1>1, Facts DEF OneArticlePerRun, RunInv
  <2>2. \A e \in Drafts : sentFor'[e] <= runs'
                          /\ (sentFor'[e] # 0 /\ sentFor'[e] = run' => draft' = e)
    BY <1>1, Facts DEF RunInv
  <2> QED BY <1>1, <1>3, <2>1, <2>2, Facts DEF RunInv
<1>6. Claims(w)'
  <2>1. \A e \in Drafts : sentFor'[e] = run' => draft = e
    BY <1>1, <1>3, Facts DEF RunInv
  <2> QED BY <1>1, <1>2, <1>3, <2>1, Facts DEF Claims, Bound
<1>7. Knows(w)'
  BY <1>1, <1>2, Facts DEF Knows, Drafted, RunInv, ReceiptOfDraft
<1>8. ASSUME NEW v \in Workers \ {w} PROVE Agree(w, v)'
  <2>1. Bound(v)' = Bound(v) /\ mine'[v] = mine[v] /\ doc'[v] = doc[v]
    BY <1>2 DEF OthersSame, Bound
  <2>2. Bound(v) => mine[v].run <= runs /\ (mine[v].run = run => doc[v] = draft)
    BY Facts DEF ExecutionInv, Claims, Bound
  <2>3. Bound(v) /\ mine[v].run = run' => doc[v] = draft
    BY <1>3, <2>2, Facts
  <2> QED BY <1>2, <2>1, <2>3 DEF Agree
<1> QED BY <1>2, <1>4, <1>5, <1>6, <1>7, <1>8, OneStep

(* What people and the clock may not do: touch a draft that is settled or   *)
(* is being published by a worker, or say that a worker sent one.           *)
Respectful ==
  /\ \A e \in Drafts : draftStatus[e] \in {"published", "blocked"}
                         => draftStatus'[e] = draftStatus[e]
  /\ \A e \in Drafts : sentFor'[e] \in {0, sentFor[e]}
  /\ \A e \in byOthers' : draftStatus'[e] = "publishing"
  /\ \A v \in Workers : pc[v] = "send"
       => doc[v] \notin byOthers' /\ draftStatus'[doc[v]] = "publishing"

(* Nor do they.                                                            *)
LEMMA OthersAreRespectful ==
  ASSUME ExecutionInv, MoveDueToMorning \/ PeopleStep \/ ClockStep
  PROVE  Respectful
<1>1. RunInv /\ DraftType /\ None \notin Drafts
  BY SchedulerAssumption DEF ExecutionInv, IInv
<1>2. \A v \in Workers : pc[v] = "send" => doc[v] \in Drafts /\ doc[v] \notin byOthers
                                           /\ draftStatus[doc[v]] = "publishing"
  BY SchedulerAssumption DEF ExecutionInv, Knows, Drafted, IInv, ControlType
<1>3. CASE UNCHANGED <<draftStatus, byOthers, sentFor>>
  BY <1>1, <1>2, <1>3 DEF RunInv, Respectful
<1>4. ASSUME NEW d \in Drafts, DecideReview(d) PROVE Respectful
  <2>1. draftStatus[d] = "review" /\ UNCHANGED <<byOthers, sentFor>>
        /\ \A e \in Drafts \ {d} : draftStatus'[e] = draftStatus[e]
    BY <1>1, <1>4 DEF DecideReview, DraftType
  <2> QED BY <1>1, <1>2, <2>1 DEF Respectful, RunInv, DraftType
<1>5. ASSUME NEW d \in Drafts, OtherPublication(d) PROVE Respectful
  <2>1. UNCHANGED sentFor /\ \A e \in Drafts \ {d} : draftStatus'[e] = draftStatus[e]
    BY <1>1, <1>5 DEF OtherPublication, DraftType
  <2>2. CASE draftStatus[d] = "approved"
             /\ draftStatus' = [draftStatus EXCEPT ![d] = "publishing"]
             /\ byOthers' = byOthers \cup {d}
    <3>1. draftStatus'[d] = "publishing"
      BY <1>1, <2>2 DEF DraftType
    <3> QED BY <1>1, <1>2, <2>1, <2>2, <3>1 DEF Respectful, RunInv, DraftType
  <2>3. CASE d \in byOthers /\ byOthers' = byOthers \ {d}
    BY <1>1, <1>2, <2>1, <2>3 DEF Respectful, RunInv, DraftType
  <2> QED BY <1>5, <2>2, <2>3 DEF OtherPublication
<1>6. ASSUME NEW d \in Drafts, Reconcile(d) PROVE Respectful
  <2>1. /\ draftStatus[d] = "publishing" /\ ~Held(d) /\ UNCHANGED byOthers
        /\ \A e \in Drafts \ {d} : draftStatus'[e] = draftStatus[e]
        /\ \A e \in Drafts : sentFor'[e] \in {0, sentFor[e]}
    BY <1>1, <1>6 DEF Reconcile, DraftType
  <2>2. d \notin byOthers /\ \A v \in Workers : pc[v] = "send" => doc[v] # d
    BY <2>1 DEF Held
  <2> QED BY <1>1, <1>2, <2>1, <2>2 DEF Respectful, RunInv, DraftType
<1>7. CASE \/ MoveDueToMorning \/ UpdateNewsSettings \/ OtherPipeline
           \/ NewsReviewOpensOrEnds \/ ClockStep
  BY <1>3, <1>7
  DEF MoveDueToMorning, UpdateNewsSettings, OtherPipeline, NewsReviewOpensOrEnds,
      ReviewExpires, ClockStep, NextRunIsDue,
      ClaimGoesStale, LeaseExpires, NightFalls, MorningComes, draftVars
<1> QED BY <1>4, <1>5, <1>6, <1>7 DEF PeopleStep

(* They leave executions and the run alone.                                 *)
LEMMA OthersStep ==
  ASSUME ExecutionInv, IInv', MoveDueToMorning \/ PeopleStep \/ ClockStep
  PROVE  ExecutionInv'
<1>1. UNCHANGED workerVars /\ UNCHANGED <<token, run, runs, draft, receipt>>
  BY DEF MoveDueToMorning, PeopleStep, ClockStep, UpdateNewsSettings,
    DecideReview, OtherPublication, Reconcile, OtherPipeline, NewsReviewOpensOrEnds,
    ReviewExpires, NextRunIsDue,
    ClaimGoesStale, LeaseExpires, NightFalls, MorningComes, rowVars
<1>2. Respectful
  BY OthersAreRespectful
<1>3. /\ RunInv /\ DraftType /\ None \notin Drafts /\ runs \in Nat /\ run \in Nat
      /\ receipt \in Drafts \cup {None}
      /\ \A e \in Drafts : sentFor[e] \in Nat
  BY SchedulerAssumption DEF ExecutionInv, IInv, RowInv, RowType, ColumnType,
    DraftType
<1>4. RunInv'
  BY <1>1, <1>2, <1>3 DEF RunInv, Respectful, OneArticlePerRun
<1>5. ASSUME NEW v \in Workers PROVE Claims(v)' /\ Knows(v)'
  <2>1. Bound(v)' = Bound(v)
    BY <1>1 DEF Bound, workerVars
  <2>2. Claims(v)'
    <3>1. Bound(v) => mine[v].run # 0
      BY Facts DEF Claims, Bound
    <3> QED BY <1>1, <1>2, <2>1, <3>1, Facts DEF Claims, Respectful, workerVars
  <2>3. Knows(v)'
    BY <1>1, <1>2, Facts DEF Knows, Drafted, Respectful, workerVars
  <2> QED BY <2>2, <2>3
<1>6. ASSUME NEW v \in Workers, NEW u \in Workers PROVE Agree(v, u)'
  BY <1>1, Facts DEF Agree, Bound, workerVars
<1> QED BY <1>4, <1>5, <1>6 DEF ExecutionInv

(* What executions know, and what runs sent, is right in every reachable    *)
(* state.                                                                  *)
THEOREM ExecutionsAgree == Spec => []ExecutionInv
<1>1. Init /\ IInv => ExecutionInv
  <2> SUFFICES ASSUME Init, IInv PROVE ExecutionInv
    OBVIOUS
  <2> USE DEF Init
  <2>1. RunInv
    BY DEF RunInv, OneArticlePerRun
  <2>2. \A w \in Workers : ~Bound(w)
    BY DEF Bound
  <2>3. \A w \in Workers : Claims(w)
    BY <2>2, SchedulerAssumption DEF Claims
  <2>4. \A w \in Workers : Knows(w)
    BY DEF Knows, Drafted, NoClaim
  <2>5. \A w, v \in Workers : Agree(w, v)
    BY <2>2 DEF Agree
  <2> QED BY <2>1, <2>3, <2>4, <2>5 DEF ExecutionInv
<1>2. ExecutionInv /\ IInv' /\ [Next]_vars => ExecutionInv'
  <2> SUFFICES ASSUME ExecutionInv, IInv', [Next]_vars PROVE ExecutionInv'
    OBVIOUS
  <2>1. ASSUME NEW w \in Workers,
               ClaimDueNewsSchedule(w) \/ ExecutionStep(w) \/ Fault(w) \/ Crash(w)
        PROVE  ExecutionInv'
    BY <2>1, CalmSteps, WorkflowStep, CheckpointStep, PublicationStep, SendStep,
       FinishStep, ClaimStep DEF ExecutionStep
  <2>2. CASE MoveDueToMorning \/ PeopleStep \/ ClockStep
    BY <2>2, OthersStep
  <2>3. CASE UNCHANGED vars
    <3>1. /\ RunInv' = RunInv
          /\ \A w \in Workers : Claims(w)' = Claims(w) /\ Knows(w)' = Knows(w)
          /\ \A w, v \in Workers : Agree(w, v)' = Agree(w, v)
      BY <2>3 DEF vars, rowVars, draftVars, workerVars, RunInv, OneArticlePerRun,
        Claims, Knows, Agree, Bound
    <3> QED BY <3>1 DEF ExecutionInv
  <2> QED BY <2>1, <2>2, <2>3 DEF Next
<1> QED BY <1>1, <1>2, Invariance, PTL DEF Spec

(* "A crash resumes that exact draft instead of researching and publishing  *)
(* another one" (docs/operations.md:283): whoever resumes a run, it sends   *)
(* one draft.                                                              *)
THEOREM OneArticlePerRunHolds == Spec => []OneArticlePerRun
<1>1. ExecutionInv => OneArticlePerRun
  BY DEF ExecutionInv, RunInv
<1> QED BY <1>1, ExecutionsAgree, PTL

(* What the row may say when it gives up its run.                           *)
Honest ==
  run # 0 /\ run' = 0 =>
    /\ lastStatus' = "published" =>
         draft # None /\ draftStatus[draft] = "published"
    /\ lastStatus' = "blocked_by_policy" =>
         draft # None /\ draftStatus[draft] = "blocked"
    /\ lastStatus' = "no_candidates" => draft = None

(* A run recorded as published, blocked or empty is so, however often it    *)
(* was resumed and its workers overtook one another.                        *)
THEOREM HonestStatusHolds == Spec => HonestStatus
<1>1. ExecutionInv /\ [Next]_vars => [Honest]_vars
  <2> SUFFICES ASSUME ExecutionInv, [Next]_vars, run # 0, run' = 0
               PROVE  Honest
    BY DEF Honest
  <2>1. ASSUME NEW w \in Workers, Finish(w), Owns(w) PROVE Honest
    <3>1. /\ pc[w] = "finish" /\ token = w /\ lastStatus' = outcome[w]
          /\ mine[w].run = run /\ (doc[w] = None => draft = None)
      BY <2>1, Facts DEF Finish, FinishNewsSchedule, Owns, Claims, rowVars
    <3>2. outcome[w] \in Ended => doc[w] = draft /\ doc[w] # None
      BY <3>1, Facts DEF Claims, Bound, Knows, Ended
    <3>3. outcome[w] = "no_candidates" => draft = None
      BY <3>1, Facts DEF Knows
    <3> QED BY <3>1, <3>2, <3>3, Facts DEF Honest, Knows, Ended
  <2>2. ASSUME NEW w \in Workers,
               ClaimDueNewsSchedule(w) \/ ExecutionStep(w) \/ Fault(w) \/ Crash(w)
        PROVE  Finish(w) /\ Owns(w)
    <3>1. CASE ClaimDueNewsSchedule(w)
      BY <3>1, Facts DEF ClaimDueNewsSchedule
    <3>2. CASE EarlyDeferral(w) \/ DeliveryDeferral(w) \/ RenewedDeferral(w)
      BY <3>2 DEF EarlyDeferral, DeliveryDeferral, RenewedDeferral, DeferIfQuiet,
                  DeferForQuietHours, rowVars
    <3>3. CASE \/ HasPendingTelegramReview(w) \/ AcquireLease(w) \/ RunWorkflow(w)
               \/ ReleaseLease(w) \/ DeliverReview(w) \/ ApproveCheckpoint(w)
               \/ ClaimPublication(w) \/ SendPublication(w) \/ Fault(w) \/ Crash(w)
      BY <3>3 DEF HasPendingTelegramReview, AcquireLease, RunWorkflow,
                  ReleaseLease, DeliverReview, ApproveCheckpoint,
                  ClaimPublication, SendPublication, Fault, Crash, rowVars
    <3>4. CASE \/ SaveNewsScheduleDraft(w) \/ RenewClaim(w)
               \/ SaveNewsSchedulePublication(w)
      BY <3>4 DEF SaveNewsScheduleDraft, RenewClaim, SaveNewsSchedulePublication
    <3>5. CASE Pause(w)
      BY <3>5 DEF Pause, PauseUnresolved, rowVars
    <3>6. CASE Finish(w)
      BY <3>6 DEF Finish, rowVars
    <3> QED BY <2>2, <3>1, <3>2, <3>3, <3>4, <3>5, <3>6 DEF ExecutionStep
  <2>3. CASE MoveDueToMorning \/ PeopleStep \/ ClockStep
    <3>1. UNCHANGED run
      BY <2>3 DEF MoveDueToMorning, PeopleStep, ClockStep, UpdateNewsSettings,
        DecideReview, OtherPublication, Reconcile, OtherPipeline, NewsReviewOpensOrEnds,
    ReviewExpires, NextRunIsDue,
        ClaimGoesStale, LeaseExpires, NightFalls, MorningComes, rowVars
    <3> QED BY <3>1
  <2>4. CASE UNCHANGED vars
    BY <2>4 DEF vars, rowVars
  <2> QED BY <2>1, <2>2, <2>3, <2>4 DEF Next
<1>2. HonestStatus <=> [][Honest]_vars
  BY DEF HonestStatus, Honest
<1> QED BY <1>1, <1>2, ExecutionsAgree, PTL DEF Spec

-----------------------------------------------------------------------------
(* One review at a time, when no live worker is taken for dead              *)

(* Past the check for a pending review, until its own is delivered.         *)
Underway == Points \ {"idle", "early", "pending", "finish", "pause"}

(* Only the holder of the claim executes, so nobody opens a review between  *)
(* an execution's check and its own delivery; what is under review exists.  *)
SteadyInv ==
  /\ \A w \in Workers : pc[w] # "idle" => token = w
  /\ stale => pc[token] = "idle"
  /\ draft # None => draftStatus[draft] # "absent"
  /\ \A w \in Workers : doc[w] # None => draftStatus[doc[w]] # "absent"
  /\ \A d \in Drafts : session[d] # "none" => draftStatus[d] # "absent"
  /\ \A w \in Workers : pc[w] = "deliver" => mine[w].policy = "manual"
  /\ \A w \in Workers : pc[w] \in Underway /\ mine[w].policy = "manual"
                          => \A d \in Drafts : ~ReviewPending(d)
  /\ OneReviewAtATime

(* What a step of a claimed execution does to claims, drafts and reviews.   *)
Steady(w) ==
  /\ OthersSame(w) /\ pc[w] # "idle"
  /\ token' = token \/ (token = w /\ token' = None /\ pc'[w] = "idle")
  /\ stale' => stale
  /\ draft' \in {draft, None, doc[w]}
  /\ \A d \in Drafts : draftStatus'[d] # draftStatus[d]
       => /\ draftStatus'[d] # "absent"
          /\ draftStatus'[d] = "review" => draftStatus[d] = "absent"
  /\ doc'[w] # None => doc'[w] = doc[w] \/ draftStatus'[doc'[w]] # "absent"
  /\ \A d \in Drafts : session'[d] # session[d]
       => /\ pc[w] = "deliver" /\ d = doc[w]
          /\ session'[d] = "pending" /\ pc'[w] \notin Underway
  /\ pc'[w] # "idle" => mine'[w] = mine[w]
  /\ pc'[w] = "deliver" => mine[w].policy = "manual"
  /\ pc'[w] \in Underway
       => pc[w] \in Underway \/ (pc[w] = "pending" /\ ~SkipForPending(w))

(* A steady step keeps reviews apart.                                       *)
LEMMA SteadyStep ==
  ASSUME IInv, IInv', SteadyInv, NEW w \in Workers, Steady(w)
  PROVE  SteadyInv'
<1>1. /\ ControlType /\ DraftType /\ ControlType' /\ DraftType' /\ RunChecks'
      /\ None \notin Drafts /\ w # None
      /\ draft \in Drafts \cup {None} /\ draft' \in Drafts \cup {None}
  BY SchedulerAssumption DEF IInv, RowInv, RowType, ColumnType, RowLinks
<1>2. token = w /\ \A v \in Workers \ {w} : pc[v] = "idle" /\ pc'[v] = "idle"
  BY DEF SteadyInv, Steady, OthersSame
<1>3. \A v \in Workers : doc[v] \in Drafts \cup {None} /\ doc'[v] \in Drafts \cup {None}
  BY <1>1 DEF ControlType
<1>4. \A d \in Drafts : draftStatus[d] # "absent" => draftStatus'[d] # "absent"
  BY DEF Steady
<1>5. \A d \in Drafts : ReviewPending(d)'
        => ReviewPending(d) \/ (pc[w] = "deliver" /\ d = doc[w] /\ pc'[w] \notin Underway)
  BY <1>1 DEF Steady, SteadyInv, ReviewPending, DraftType
<1>6. \A v \in Workers : pc'[v] # "idle" => token' = v
  BY <1>2 DEF Steady
<1>7. stale' => pc'[token'] = "idle"
  BY <1>1, <1>2 DEF Steady, SteadyInv, RunChecks
<1>8. draft' # None => draftStatus'[draft'] # "absent"
  BY <1>1, <1>3, <1>4 DEF Steady, SteadyInv
<1>9. \A v \in Workers : doc'[v] # None => draftStatus'[doc'[v]] # "absent"
  BY <1>3, <1>4 DEF Steady, SteadyInv, OthersSame
<1>10. \A d \in Drafts : session'[d] # "none" => draftStatus'[d] # "absent"
  BY <1>1, <1>3, <1>4 DEF Steady, SteadyInv
<1>11. \A v \in Workers : pc'[v] = "deliver" => mine'[v].policy = "manual"
  BY <1>2 DEF Steady
<1>12. \A v \in Workers : pc'[v] \in Underway /\ mine'[v].policy = "manual"
                            => \A d \in Drafts : ~ReviewPending(d)'
  <2> SUFFICES ASSUME pc'[w] \in Underway, mine'[w].policy = "manual"
               PROVE  \A d \in Drafts : ~ReviewPending(d)'
    BY <1>2 DEF Underway
  <2>1. mine[w].policy = "manual"
    BY DEF Steady, Underway
  <2>2. \A d \in Drafts : ~ReviewPending(d)
    BY <2>1 DEF Steady, SteadyInv, SkipForPending, HasPendingReview
  <2> QED BY <1>5, <2>2
<1>13. OneReviewAtATime'
  <2>1. CASE pc[w] = "deliver"
    <3>1. \A d \in Drafts : ~ReviewPending(d)
      BY <2>1 DEF SteadyInv, Underway
    <3>2. \A d \in Drafts : ReviewPending(d)' => d = doc[w]
      BY <1>5, <3>1
    <3> QED BY <3>2 DEF OneReviewAtATime
  <2>2. CASE pc[w] # "deliver"
    <3>1. \A d \in Drafts : ReviewPending(d)' => ReviewPending(d)
      BY <1>5, <2>2
    <3> QED BY <3>1 DEF OneReviewAtATime, SteadyInv
  <2> QED BY <2>1, <2>2
<1> QED BY <1>6, <1>7, <1>8, <1>9, <1>10, <1>11, <1>12, <1>13 DEF SteadyInv

(* Every step of an execution is steady.                                    *)
LEMMA StepsAreSteady ==
  ASSUME ExecutionInv, NEW w \in Workers, ExecutionStep(w) \/ Fault(w) \/ Crash(w)
  PROVE  Steady(w)
<1>1. ControlType /\ DraftType /\ doc[w] \in Drafts \cup {None}
  BY Facts
<1>2. ASSUME NEW here \in Points \ {"idle"}, NEW onward \in Points,
             DeferIfQuiet(w, here, onward), onward # "idle",
             onward \in Underway => here \in Underway,
             onward = "deliver" => mine[w].policy = "manual"
      PROVE  Steady(w)
  <2>1. pc[w] = here /\ UNCHANGED <<draftStatus, session, draft>> /\ (stale' => stale)
    BY <1>2 DEF DeferIfQuiet, DeferForQuietHours, rowVars, draftVars
  <2>2. \/ UNCHANGED token /\ Goto(w, onward)
        \/ token = w /\ token' = None /\ End(w)
        \/ UNCHANGED token /\ End(w)
    BY <1>2 DEF DeferIfQuiet, DeferForQuietHours, rowVars, Owns, Throw
  <2> QED BY <1>1, <1>2, <2>1, <2>2, Moves DEF Steady, Underway
<1>3. CASE EarlyDeferral(w) \/ DeliveryDeferral(w) \/ RenewedDeferral(w)
  BY <1>2, <1>3 DEF EarlyDeferral, DeliveryDeferral, RenewedDeferral, Underway
<1>4. CASE \/ HasPendingTelegramReview(w) \/ AcquireLease(w)
           \/ ReleaseLease(w) \/ RenewClaim(w)
  <2>1. /\ UNCHANGED <<token, draft, draftStatus, session>>
        /\ stale' => stale
        /\ pc[w] \in {"pending", "acquire", "release", "lost", "renew"}
    BY <1>4 DEF HasPendingTelegramReview, AcquireLease, ReleaseLease, RenewClaim,
      rowVars, draftVars
  <2>2. \/ FinishAs(w, "skipped_pending_review") \/ FinishAs(w, "no_candidates")
        \/ Throw(w, "claim_lost") \/ Throw(w, "pipeline_busy")
        \/ Goto(w, "late") /\ pc[w] = "release"
        \/ (Goto(w, "late") \/ Goto(w, "acquire")) /\ pc[w] = "pending"
             /\ ~SkipForPending(w)
        \/ Goto(w, "research") /\ pc[w] = "acquire"
        \/ Goto(w, "final") /\ pc[w] = "renew"
    BY <1>4 DEF HasPendingTelegramReview, AcquireLease, ReleaseLease, RenewClaim
  <2>3. \/ OthersSame(w) /\ pc'[w] = "idle" /\ doc'[w] = None
        \/ /\ OthersSame(w) /\ doc'[w] = doc[w] /\ mine'[w] = mine[w]
           /\ \/ pc'[w] \in {"finish", "pause"}
              \/ pc'[w] = "late" /\ pc[w] = "release"
              \/ pc'[w] \in {"late", "acquire"} /\ pc[w] = "pending"
                   /\ ~SkipForPending(w)
              \/ pc'[w] = "research" /\ pc[w] = "acquire"
              \/ pc'[w] = "final" /\ pc[w] = "renew"
    BY <1>1, <2>2, Moves DEF Throw
  <2> QED BY <2>1, <2>3 DEF Steady, Underway
<1>5. CASE RunWorkflow(w)
  <2>1. UNCHANGED <<token, stale, draft, session>> /\ pc[w] = "research"
    BY <1>5 DEF RunWorkflow, rowVars
  <2>2. CASE (Goto(w, "release") \/ Goto(w, "lost")) /\ UNCHANGED draftStatus
    <3>1. /\ OthersSame(w) /\ doc'[w] = doc[w] /\ mine'[w] = mine[w]
          /\ pc'[w] \in {"release", "lost"}
      BY <1>1, <2>2, Moves
    <3> QED BY <2>1, <2>2, <3>1 DEF Steady, Underway
  <2>3. ASSUME NEW d \in Drafts, draftStatus[d] = "absent",
               draftStatus' = [draftStatus EXCEPT ![d] = "review"],
               doc' = [doc EXCEPT ![w] = d],
               pc' = [pc EXCEPT ![w] = "checkpoint"],
               UNCHANGED <<mine, outcome>>
        PROVE  Steady(w)
    <3>1. /\ OthersSame(w) /\ doc'[w] = d /\ mine'[w] = mine[w]
          /\ pc'[w] = "checkpoint"
      BY <1>1, <2>3 DEF ControlType, OthersSame
    <3>2. \A e \in Drafts : draftStatus'[e] = IF e = d THEN "review" ELSE draftStatus[e]
      BY <1>1, <2>3 DEF DraftType
    <3> QED BY <2>1, <2>3, <3>1, <3>2 DEF Steady, Underway
  <2> QED BY <1>5, <2>2, <2>3 DEF RunWorkflow
<1>6. CASE SaveNewsScheduleDraft(w) \/ SaveNewsSchedulePublication(w)
  <2>1. /\ UNCHANGED <<token, draftStatus, session>>
        /\ stale' => stale
        /\ draft' \in {draft, doc[w]} /\ pc[w] \in {"checkpoint", "record"}
    BY <1>6 DEF SaveNewsScheduleDraft, SaveNewsSchedulePublication, draftVars
  <2>2. \/ Goto(w, "release") \/ Goto(w, "lost") \/ FinishAs(w, "published")
        \/ Throw(w, "claim_lost")
    BY <1>6 DEF SaveNewsScheduleDraft, SaveNewsSchedulePublication
  <2>3. \/ OthersSame(w) /\ pc'[w] = "idle" /\ doc'[w] = None
        \/ /\ OthersSame(w) /\ doc'[w] = doc[w] /\ mine'[w] = mine[w]
           /\ pc'[w] \in {"release", "lost", "finish"}
    BY <1>1, <2>2, Moves DEF Throw
  <2> QED BY <2>1, <2>3 DEF Steady, Underway
<1>7. CASE DeliverReview(w)
  <2>1. UNCHANGED <<token, stale, draft, draftStatus>> /\ pc[w] = "deliver"
    BY <1>7 DEF DeliverReview, rowVars
  <2>2. /\ OthersSame(w) /\ doc'[w] = doc[w] /\ mine'[w] = mine[w]
        /\ pc'[w] = "finish"
    BY <1>1, <1>7, Moves DEF DeliverReview
  <2>3. \A d \in Drafts : session'[d] # session[d]
                            => d = doc[w] /\ session'[d] = "pending"
    BY <1>1, <1>7 DEF DeliverReview, Opened, DraftType
  <2> QED BY <2>1, <2>2, <2>3 DEF Steady, Underway
<1>8. CASE ApproveCheckpoint(w) \/ ClaimPublication(w) \/ SendPublication(w)
  <2>1. UNCHANGED <<token, stale, draft, session>>
        /\ pc[w] \in {"approve", "publish", "send"}
    BY <1>8 DEF ApproveCheckpoint, ClaimPublication, SendPublication, rowVars
  <2>2. \A d \in Drafts : draftStatus'[d] # draftStatus[d]
          => draftStatus'[d] \in {"approved", "publishing", "blocked", "published"}
    BY <1>1, <1>8 DEF ApproveCheckpoint, ClaimPublication, SendPublication, DraftType
  <2>3. \/ Goto(w, "publish") \/ Goto(w, "send") \/ Goto(w, "record")
        \/ FinishAs(w, "blocked_by_policy")
        \/ Throw(w, "scheduled_run_failed") \/ Throw(w, "publication_unresolved")
    BY <1>8 DEF ApproveCheckpoint, ClaimPublication, SendPublication
  <2>4. /\ OthersSame(w) /\ doc'[w] = doc[w] /\ mine'[w] = mine[w]
        /\ pc'[w] \in {"publish", "send", "record", "finish", "pause"}
    BY <1>1, <2>3, Moves DEF Throw
  <2> QED BY <2>1, <2>2, <2>4 DEF Steady, Underway
<1>9. CASE Finish(w) \/ Pause(w)
  <2>1. /\ UNCHANGED <<draftStatus, session>> /\ pc[w] \in {"finish", "pause"}
        /\ stale' => stale
        /\ draft' \in {draft, None}
        /\ token' = token \/ (token = w /\ token' = None)
    BY <1>9 DEF Finish, Pause, FinishNewsSchedule, ClearRun, PauseUnresolved, Owns,
      rowVars, draftVars
  <2>2. OthersSame(w) /\ pc'[w] = "idle" /\ doc'[w] = None
    BY <1>1, <1>9, Moves DEF Finish, Pause
  <2> QED BY <2>1, <2>2 DEF Steady, Underway
<1>10. CASE Fault(w)
  <2>1. UNCHANGED <<token, stale, draft, draftStatus>> /\ pc[w] # "idle"
    BY <1>10 DEF Fault, rowVars
  <2>2. \/ OthersSame(w) /\ pc'[w] = "idle" /\ doc'[w] = None
        \/ /\ OthersSame(w) /\ doc'[w] = doc[w] /\ mine'[w] = mine[w]
           /\ pc'[w] = "finish"
    BY <1>1, <1>10, Moves DEF Fault, Throw
  <2>3. \A d \in Drafts : session'[d] # session[d]
          => pc[w] = "deliver" /\ d = doc[w] /\ session'[d] = "pending"
    BY <1>1, <1>10 DEF Fault, Opened, DraftType
  <2> QED BY <2>1, <2>2, <2>3 DEF Steady, Underway
<1>11. CASE Crash(w)
  <2>1. UNCHANGED <<token, stale, draft, draftStatus, session>> /\ pc[w] # "idle"
    BY <1>11 DEF Crash, rowVars, draftVars
  <2>2. OthersSame(w) /\ pc'[w] = "idle" /\ doc'[w] = None
    BY <1>1, <1>11, Moves DEF Crash
  <2> QED BY <2>1, <2>2 DEF Steady, Underway
<1> QED BY <1>3, <1>4, <1>5, <1>6, <1>7, <1>8, <1>9, <1>10, <1>11 DEF ExecutionStep

(* A new claim finds every worker idle, and the others change no claim.     *)
LEMMA ClaimIsSteady ==
  ASSUME ExecutionInv, IInv', SteadyInv, NEW w \in Workers, ClaimDueNewsSchedule(w)
  PROVE  SteadyInv'
<1>1. \A v \in Workers : pc[v] = "idle"
  <2>1. token = None \/ (stale /\ token # None)
    BY SchedulerAssumption, Facts DEF ClaimDueNewsSchedule, Claimable, RunChecks
  <2> QED BY <2>1, SchedulerAssumption DEF SteadyInv
<1>2. /\ token' = w /\ stale' = FALSE
      /\ UNCHANGED <<draft, draftStatus, session>>
  BY DEF ClaimDueNewsSchedule, TakeSnapshot, draftVars
<1>3. OthersSame(w) /\ pc'[w] = "early" /\ doc'[w] = draft
  BY <1>2, Facts DEF ClaimDueNewsSchedule, ControlType, OthersSame
<1>4. \A v \in Workers : pc'[v] \in {"idle", "early"} /\ (pc'[v] # "idle" => v = w)
  BY <1>1, <1>3 DEF OthersSame
<1>5. \A v \in Workers : doc'[v] # None => draftStatus'[doc'[v]] # "absent"
  BY <1>2, <1>3 DEF SteadyInv, OthersSame
<1>6. OneReviewAtATime'
  BY <1>2 DEF SteadyInv, OneReviewAtATime, ReviewPending
<1> QED BY <1>2, <1>4, <1>5, <1>6 DEF SteadyInv, Underway

(* A draft is left as it is, or leaves the review it may be under, or the   *)
(* review runs out.                                                        *)
Leaves(d) ==
  \/ draftStatus'[d] = draftStatus[d] /\ session'[d] = session[d]
  \/ /\ draftStatus'[d] = draftStatus[d]
     /\ session[d] = "pending" /\ session'[d] = "expired"
  \/ /\ draftStatus'[d] \in {"approved", "rejected", "publishing", "published"}
     /\ session'[d] = session[d] \/ session[d] = "pending"
     /\ draftStatus[d] # "absent"

(* People open no review, and the clock takes no live worker for dead.      *)
LEMMA OthersAreSteady ==
  ASSUME ~Stalls, ExecutionInv, SteadyInv,
         MoveDueToMorning \/ PeopleStep \/ ClockStep
  PROVE  SteadyInv'
<1>1. DraftType /\ ControlType /\ RunInv /\ None \notin Drafts
      /\ draft \in Drafts \cup {None}
  BY SchedulerAssumption DEF ExecutionInv, IInv, RowInv, RowType, ColumnType
<1>2. UNCHANGED workerVars /\ UNCHANGED <<token, draft>>
      /\ (stale' => stale \/ pc[token] = "idle")
  BY DEF MoveDueToMorning, PeopleStep, ClockStep, UpdateNewsSettings,
    DecideReview, OtherPublication, Reconcile, OtherPipeline, NewsReviewOpensOrEnds,
    ReviewExpires, NextRunIsDue,
    ClaimGoesStale, LeaseExpires, NightFalls, MorningComes, rowVars
<1>3. \A d \in Drafts : Leaves(d)
  <2>1. CASE UNCHANGED <<draftStatus, session>>
    BY <2>1 DEF Leaves
  <2>2. ASSUME NEW e \in Drafts,
               \/ DecideReview(e) \/ OtherPublication(e) \/ Reconcile(e)
               \/ ReviewExpires(e)
        PROVE  \A d \in Drafts : Leaves(d)
    <3>1. \A d \in Drafts \ {e} : Leaves(d)
      BY <1>1, <2>2 DEF DecideReview, OtherPublication, Reconcile, ReviewExpires,
        DraftType, Leaves
    <3>2. Leaves(e)
      BY <1>1, <2>2 DEF DecideReview, OtherPublication, Reconcile, ReviewExpires,
        DraftType, Leaves, RunInv
    <3> QED BY <3>1, <3>2
  <2>3. CASE \/ MoveDueToMorning \/ UpdateNewsSettings \/ OtherPipeline
             \/ NewsReviewOpensOrEnds \/ NextRunIsDue \/ ClaimGoesStale
             \/ LeaseExpires \/ NightFalls \/ MorningComes
    BY <2>1, <2>3
    DEF MoveDueToMorning, UpdateNewsSettings, OtherPipeline, NewsReviewOpensOrEnds,
        NextRunIsDue, ClaimGoesStale, LeaseExpires, NightFalls, MorningComes,
        draftVars
  <2> QED BY <2>2, <2>3 DEF PeopleStep, ClockStep
<1>4. \A d \in Drafts : /\ ReviewPending(d)' => ReviewPending(d)
                        /\ draftStatus[d] # "absent" => draftStatus'[d] # "absent"
                        /\ session'[d] # "none" => draftStatus'[d] # "absent"
  BY <1>1, <1>3 DEF Leaves, ReviewPending, SteadyInv
<1>5. \A v \in Workers : doc[v] \in Drafts \cup {None}
  BY <1>1 DEF ControlType
<1>6. OneReviewAtATime'
  BY <1>4 DEF SteadyInv, OneReviewAtATime
<1> QED BY <1>1, <1>2, <1>4, <1>5, <1>6 DEF SteadyInv, workerVars

(* Without stalls, the scheduler never asks for a second decision while one *)
(* is open, however occurrences are deferred, resumed and cut short.        *)
THEOREM OneReviewAtATimeHolds == ~Stalls => (Spec => []OneReviewAtATime)
<1> SUFFICES ASSUME ~Stalls PROVE Spec => []OneReviewAtATime
  OBVIOUS
<1>1. Init => SteadyInv
  BY DEF Init, SteadyInv, OneReviewAtATime, ReviewPending, Underway
<1>2. ExecutionInv /\ ExecutionInv' /\ SteadyInv /\ [Next]_vars => SteadyInv'
  <2> SUFFICES ASSUME ExecutionInv, ExecutionInv', SteadyInv, [Next]_vars
               PROVE  SteadyInv'
    OBVIOUS
  <2>1. IInv /\ IInv'
    BY DEF ExecutionInv
  <2>2. ASSUME NEW w \in Workers, ClaimDueNewsSchedule(w) PROVE SteadyInv'
    BY <2>1, <2>2, ClaimIsSteady
  <2>3. ASSUME NEW w \in Workers, ExecutionStep(w) \/ Fault(w) \/ Crash(w)
        PROVE  SteadyInv'
    BY <2>1, <2>3, StepsAreSteady, SteadyStep
  <2>4. CASE MoveDueToMorning \/ PeopleStep \/ ClockStep
    BY <2>4, OthersAreSteady
  <2>5. CASE UNCHANGED vars
    BY <2>5 DEF vars, rowVars, draftVars, workerVars, SteadyInv, OneReviewAtATime,
      ReviewPending
  <2> QED BY <2>2, <2>3, <2>4, <2>5 DEF Next
<1>3. SteadyInv => OneReviewAtATime
  BY DEF SteadyInv
<1> QED BY <1>1, <1>2, <1>3, ExecutionsAgree, PTL DEF Spec
=============================================================================
