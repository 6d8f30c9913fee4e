---------------------------- MODULE NotionOutbox -----------------------------
(***************************************************************************)
(* The outbox of audit finalizations Notion refused: withNotionAudit,      *)
(* NotionAuditDeliveryService and the statements on notion_audit_outbox.   *)
(* A claim is a time, not a token: any drain may complete or retry a row   *)
(* that is claimed, whoever claimed it.                                    *)
(***************************************************************************)
EXTENDS Naturals, FiniteSets, Sequences, SequencesExt

CONSTANTS
  Runs,                 \* audited pipeline runs, by Notion page
  Drains,               \* executions of deliverPending
  Limit,                \* rows of a claim
  MaxNotionFaults       \* bound on refusals, stalls and deaths

ASSUME OutboxAssumption ==
  IsFiniteSet(Runs) /\ Limit \in Nat \ {0} /\ MaxNotionFaults \in Nat

VARIABLES
  row,          \* notion_audit_outbox, by page
  final,        \* the pages Notion shows as finished
  thrown,       \* the runs that ended in an error of their audit (history)
  drain,        \* the drains
  notionFaults

outboxVars == <<row, final, thrown, drain, notionFaults>>

OutboxTypeOK ==
  /\ row \in [Runs -> {"none", "waiting", "claimed", "completed"}]
  /\ final \subseteq Runs /\ thrown \subseteq Runs
  /\ \A d \in Drains :
       /\ drain[d].at \in {"idle", "deliver", "complete", "retry", "dead"}
       /\ drain[d].batch \in Seq(Runs) /\ IsInjective(drain[d].batch)
       /\ drain[d].abort \in BOOLEAN
  /\ notionFaults \in 0..MaxNotionFaults

Off == [at |-> "idle", batch |-> <<>>, abort |-> FALSE]

OutboxInit ==
  /\ row = [p \in Runs |-> "none"]
  /\ final = {} /\ thrown = {}
  /\ drain = [d \in Drains |-> Off]
  /\ notionFaults = 0

NotionFault ==
  notionFaults < MaxNotionFaults /\ notionFaults' = notionFaults + 1

Page(d) == Head(drain[d].batch)

(* withNotionAudit: the run is over, and Notion takes the result or refuses *)
(* it, although it may have taken it.  What a success leaves goes to the    *)
(* outbox; there may be none for it, the statement may fail, and a failure  *)
(* is not put there at all: then the error is thrown.                       *)
FinishRun(p) ==
  /\ p \notin final \cup thrown /\ row[p] = "none"
  /\ \/ final' = final \cup {p} /\ UNCHANGED <<row, thrown, notionFaults>>
     \/ /\ NotionFault /\ final' \in {final, final \cup {p}}
        /\ \E kept, told \in BOOLEAN :
             /\ kept \/ told
             /\ row' = IF kept THEN [row EXCEPT ![p] = "waiting"] ELSE row
             /\ thrown' = IF told THEN thrown \cup {p} ELSE thrown
  /\ UNCHANGED drain

(* claim_notion_audit_backfill: up to Limit rows that wait, in some order   *)
(* of their time.                                                           *)
ClaimNotionAuditBackfill(d) ==
  /\ drain[d].at = "idle"
  /\ \E taken \in SUBSET {p \in Runs : row[p] = "waiting"} :
       \E batch \in SetToSeqs(taken) :
         /\ taken # {} /\ Len(batch) <= Limit
         /\ row' = [p \in Runs |-> IF p \in taken THEN "claimed" ELSE row[p]]
         /\ drain' = [drain EXCEPT ![d] = [Off EXCEPT !.at = "deliver", !.batch = batch]]
  /\ UNCHANGED <<final, thrown, notionFaults>>

(* Mutant: a claim is for good. *)
ClaimNeverExpires(p) == FALSE

(* The five minutes of a claim are over, or those of a row put back. *)
ClaimExpires(p) ==
  /\ row[p] = "claimed"
  /\ row' = [row EXCEPT ![p] = "waiting"]
  /\ IF \E d \in Drains : drain[d].at \notin {"idle", "dead"} /\ p \in ToSet(drain[d].batch)
     THEN NotionFault ELSE UNCHANGED notionFaults
  /\ UNCHANGED <<final, thrown, drain>>

(* validatedDelivery and the gateway's finalize, which may fail although    *)
(* Notion has taken the result; an abort counts as a failure of the row it  *)
(* meets.                                                                   *)
DeliverRow(d) ==
  /\ drain[d].at = "deliver"
  /\ \/ /\ ~drain[d].abort
        /\ final' = final \cup {Page(d)}
        /\ drain' = [drain EXCEPT ![d].at = "complete"]
        /\ UNCHANGED notionFaults
     \/ /\ IF drain[d].abort
           THEN UNCHANGED <<final, notionFaults>>
           ELSE NotionFault /\ final' \in {final, final \cup {Page(d)}}
        /\ drain' = [drain EXCEPT ![d].at = "retry"]
  /\ UNCHANGED <<row, thrown>>

(* Mutant: the row just met is taken again. *)
NextRowAgain(d, stop) ==
  drain' = [drain EXCEPT ![d] = [@ EXCEPT !.at = "deliver", !.batch = <<Head(@)>> \o @]]

NextRow(d, stop) ==
  drain' = [drain EXCEPT ![d] =
    IF stop \/ Len(@.batch) = 1 THEN Off
    ELSE [drain[d] EXCEPT !.at = "deliver", !.batch = Tail(@)]]

(* complete_ and retry_notion_audit_backfill: of a row that is claimed.  A  *)
(* row that cannot be completed is retried, one that cannot be retried or   *)
(* an abort ends the drain; the rest of the batch stays claimed.            *)
IfClaimed(d, status) ==
  IF row[Page(d)] = "claimed" THEN [row EXCEPT ![Page(d)] = status] ELSE row

CompleteNotionAuditBackfill(d) ==
  /\ drain[d].at = "complete"
  /\ \/ /\ row' = IfClaimed(d, "completed") /\ NextRow(d, FALSE)
        /\ UNCHANGED notionFaults
     \/ /\ row' \in {row, IfClaimed(d, "completed")} /\ NotionFault
        /\ drain' = [drain EXCEPT ![d].at = "retry"]
  /\ UNCHANGED <<final, thrown>>

(* Mutant: whatever the row says by now, it waits again. *)
RetryNotionAuditBackfillAny(d) ==
  /\ drain[d].at = "retry"
  /\ row' = [row EXCEPT ![Page(d)] = "waiting"]
  /\ NextRow(d, drain[d].abort)
  /\ UNCHANGED <<final, thrown, notionFaults>>

RetryNotionAuditBackfill(d) ==
  /\ drain[d].at = "retry"
  /\ \/ /\ row' = IfClaimed(d, "waiting") /\ NextRow(d, drain[d].abort)
        /\ UNCHANGED notionFaults
     \/ /\ row' \in {row, IfClaimed(d, "waiting")} /\ NotionFault
        /\ NextRow(d, TRUE)
  /\ UNCHANGED <<final, thrown>>

AbortDrain(d) ==
  /\ drain[d].at \notin {"idle", "dead"} /\ ~drain[d].abort
  /\ drain' = [drain EXCEPT ![d].abort = TRUE] /\ NotionFault
  /\ UNCHANGED <<row, final, thrown>>

DrainDies(d) ==
  /\ drain[d].at \notin {"idle", "dead"} /\ NotionFault
  /\ drain' = [drain EXCEPT ![d].at = "dead"] /\ UNCHANGED <<row, final, thrown>>

(* The command is run again. *)
DrainRestarts(d) ==
  /\ drain[d].at = "dead" /\ drain' = [drain EXCEPT ![d] = Off]
  /\ UNCHANGED <<row, final, thrown, notionFaults>>

DrainStep(d) ==
  \/ ClaimNotionAuditBackfill(d) \/ DeliverRow(d) \/ DrainRestarts(d)
  \/ CompleteNotionAuditBackfill(d) \/ RetryNotionAuditBackfill(d)

OutboxNext ==
  \/ \E p \in Runs : FinishRun(p) \/ ClaimExpires(p)
  \/ \E d \in Drains : DrainStep(d) \/ AbortDrain(d) \/ DrainDies(d)

OutboxSpec == OutboxInit /\ [][OutboxNext]_outboxVars

(* The drain command is run now and then; claims of drains that are gone    *)
(* run out.                                                                 *)
Forgotten(p) ==
  \A d \in Drains : drain[d].at \in {"idle", "dead"} \/ p \notin ToSet(drain[d].batch)

OutboxFairness ==
  /\ \A d \in Drains : WF_outboxVars(DrainStep(d))
  /\ \A p \in Runs : WF_outboxVars(Forgotten(p) /\ ClaimExpires(p))

OutboxFairSpec == OutboxSpec /\ OutboxFairness

-----------------------------------------------------------------------------
(* What the outbox promises *)

(* A completed row is a page Notion shows as finished, and no drain that    *)
(* overran its claim reopens it.                                            *)
CompletedIsFinal ==
  [][\A p \in Runs : row[p] = "completed" =>
       row'[p] = "completed" /\ p \in final]_outboxVars

(* Every finalization the outbox has taken gets there, through refusals,    *)
(* stalls and deaths of the drains and statements that fail.  (Those it was *)
(* never given, of thrown runs, are not promised anything.)                 *)
OutboxDrains == []<>(\A p \in Runs : row[p] \in {"none", "completed"})
=============================================================================
