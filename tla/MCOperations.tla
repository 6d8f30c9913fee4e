----------------------------- MODULE MCOperations -----------------------------
(***************************************************************************)
(* Eleven components that share no state, checked in one run: a behaviour  *)
(* moves the one in focus, which its initial state chooses, and leaves the *)
(* others where they start.                                                *)
(***************************************************************************)
EXTENDS Research, NotionOutbox, RuntimeHealth, RuntimeCoordinator,
        Sources, AiProviders, OpenRouter, TopicPolicy, Drafting, Milestones,
        Deployment

CONSTANTS c1, r1, exa, openai, k1, m1, m2, image1, env1

VARIABLE focus

opsVars == <<focus, researchVars, outboxVars, healthVars, coordVars,
             sourceVars, aiVars, routerVars, topicVars, draftVars,
             milestoneVars, deployVars>>

(* One candidate each of the classes that are treated alike; one runner     *)
(* with a plan of two windows.                                              *)
Mixed == [c \in Candidates |-> IF c = c1 THEN "web" ELSE "community"]
Fewer == [r \in Runners |-> IF r = r1 THEN Candidates ELSE {c1}]
Plans == [r \in Runners |-> IF r = r1 THEN 1 ELSE 2]
Three == <<"poller", "scheduler", "health">>

(* The second image brings a migration of its own.                          *)
Schemas == [i \in Images |-> IF i = image1 THEN 1 ELSE 2]

(* Two providers to fall back over.  A fact search shares nothing with a    *)
(* call at the same time, so the caller that searches makes it.             *)
Cascade == [op \in Operations |->
  CASE op = "search" -> <<exa, openai>> [] op = "once" -> <<openai>>
    [] OTHER -> <<exa>>]
Callings == [k \in Callers |->
  IF k = k1 THEN {"search", "fact"} ELSE {"once"}]

(* The only preference is the second of the free models. *)
Preference == <<m2>>
FreeRanking == <<m1, m2>>

OpsInit ==
  /\ ResearchInit /\ OutboxInit /\ HealthInit /\ CoordInit
  /\ SourcesInit /\ AiInit /\ RouterInit /\ TopicInit
  /\ DraftInit /\ MilestoneInit /\ DeployInit
  /\ \/ focus = "draft"
     \/ /\ focus \in {"research", "outbox", "health", "coordinator", "sources",
                     "ai", "router", "topics", "milestones", "deployment"}
        /\ labs = [tags |-> "off", pass |-> "off"] /\ given = "primary_source"
  /\ focus # "topics" => explicit = {}
  /\ envFiles.active = env1 /\ bot.image = image1

(* The component in focus moves, the others do not. *)
OpsNext ==
  /\ UNCHANGED focus
  /\ \/ /\ focus = "research" /\ ResearchNext
        /\ UNCHANGED <<outboxVars, healthVars, coordVars, sourceVars, aiVars,
                       routerVars, topicVars, draftVars, milestoneVars, deployVars>>
     \/ /\ focus = "outbox" /\ OutboxNext
        /\ UNCHANGED <<researchVars, healthVars, coordVars, sourceVars, aiVars,
                       routerVars, topicVars, draftVars, milestoneVars, deployVars>>
     \/ /\ focus = "health" /\ HealthNext
        /\ UNCHANGED <<researchVars, outboxVars, coordVars, sourceVars, aiVars,
                       routerVars, topicVars, draftVars, milestoneVars, deployVars>>
     \/ /\ focus = "coordinator" /\ CoordNext
        /\ UNCHANGED <<researchVars, outboxVars, healthVars, sourceVars, aiVars,
                       routerVars, topicVars, draftVars, milestoneVars, deployVars>>
     \/ /\ focus = "sources" /\ SourcesNext
        /\ UNCHANGED <<researchVars, outboxVars, healthVars, coordVars, aiVars,
                       routerVars, topicVars, draftVars, milestoneVars, deployVars>>
     \/ /\ focus = "ai" /\ AiNext
        /\ UNCHANGED <<researchVars, outboxVars, healthVars, coordVars, sourceVars,
                       routerVars, topicVars, draftVars, milestoneVars, deployVars>>
     \/ /\ focus = "router" /\ RouterNext
        /\ UNCHANGED <<researchVars, outboxVars, healthVars, coordVars, sourceVars,
                       aiVars, topicVars, draftVars, milestoneVars, deployVars>>
     \/ /\ focus = "topics" /\ TopicNext
        /\ UNCHANGED <<researchVars, outboxVars, healthVars, coordVars, sourceVars,
                       aiVars, routerVars, draftVars, milestoneVars, deployVars>>
     \/ /\ focus = "draft" /\ DraftNext
        /\ UNCHANGED <<researchVars, outboxVars, healthVars, coordVars, sourceVars,
                       aiVars, routerVars, topicVars, milestoneVars, deployVars>>
     \/ /\ focus = "milestones" /\ MilestoneNext
        /\ UNCHANGED <<researchVars, outboxVars, healthVars, coordVars, sourceVars,
                       aiVars, routerVars, topicVars, draftVars, deployVars>>
     \/ /\ focus = "deployment" /\ DeployNext
        /\ UNCHANGED <<researchVars, outboxVars, healthVars, coordVars, sourceVars,
                       aiVars, routerVars, topicVars, draftVars, milestoneVars>>

(* The fairness of the component in focus, as its module states it.         *)
OpsFairness ==
  /\ \A r \in Runners : WF_researchVars(focus = "research" /\ RunnerStep(r))
  /\ WF_researchVars(focus = "research" /\ LeftBehind /\ PipelineLeaseExpires)
  /\ \A d \in Drains : WF_outboxVars(focus = "outbox" /\ DrainStep(d))
  /\ \A p \in Runs :
       WF_outboxVars(focus = "outbox" /\ Forgotten(p) /\ ClaimExpires(p))
  /\ \A r \in Runtimes : /\ WF_healthVars(focus = "health" /\ WorkerStep(r))
                         /\ WF_healthVars(focus = "health" /\ Heartbeat(r))
  /\ WF_coordVars(focus = "coordinator" /\ GraceEnds)
  /\ WF_coordVars(focus = "coordinator" /\ CloseApplication)
  /\ WF_coordVars(focus = "coordinator" /\ StopAllEnds)

OpsSpec == OpsInit /\ [][OpsNext]_opsVars /\ OpsFairness

(* The runtime starts and stops as the coordinator promises, and says of    *)
(* itself what RuntimeHealth promises (src/runtime/).                       *)
RuntimePromise == ReadinessPromise /\ CoordinatorPromise

(* Every model and every provider is asked as long as that is of use        *)
(* (src/ai/).                                                               *)
ProvidersPromise == CascadePromise /\ OpenRouterPromise

(* Whatever fails or dies, pipelines give up the lease, what Notion refused *)
(* gets there, the runtime that serves alone is visible, and a stop comes   *)
(* to its end.                                                              *)
OperationsEnd == PipelinesEnd /\ OutboxDrains /\ ServingIsVisible /\ StopEnds

(* What a search leaves in the database is right, and so is what the        *)
(* excluded topics leave of a batch (src/research/,                         *)
(* src/excluded-topic-policy.js).                                           *)
CurationPromise == ResearchPromise /\ [](BatchIsPartitioned /\ PolicyFailsClosed)

(* The variables of every component keep their types.                       *)
OperationsTypeOK ==
  /\ ResearchTypeOK /\ OutboxTypeOK /\ HealthTypeOK /\ CoordTypeOK
  /\ SourcesTypeOK /\ AiTypeOK /\ RouterTypeOK /\ TopicTypeOK
  /\ DraftTypeOK /\ MilestoneTypeOK
  /\ DeployTypeOK
=============================================================================
