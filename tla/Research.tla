------------------------------ MODULE Research -------------------------------
(***************************************************************************)
(* One pipeline: research under the pipeline lease and the review draft it *)
(* ends in.  The tier loop is TypedNewsJobWorkflowAdapter.research, a tier *)
(* is TypedResearchExecutionGateway.execute, the rows are those of         *)
(* pipeline_leases, search_runs, articles, article_story_decisions and     *)
(* drafts.                                                                 *)
(*                                                                         *)
(* Runners are executions, each with its own lease owner id.  A runner     *)
(* whose lease expired while it was alive finds out from its heartbeat and *)
(* looks at it between research and drafting only: until then it goes on   *)
(* writing next to its successor.  What is found, how it ranks, what the   *)
(* comparison and the policy say of it and whether its page can be read    *)
(* are any outcome; articles are their canonical URLs.                     *)
(***************************************************************************)
EXTENDS Naturals, FiniteSets, SequencesExt

CONSTANTS
  Runners, Candidates, None,
  Class,        \* what a candidate's source is
  Brings,       \* bound on what the searches of a runner bring
  LastTier,     \* of a runner's search plan, narrow to wide
  MaxResearchFaults     \* bound on crashes, stalls and calls that fail

ASSUME ResearchAssumption ==
  /\ None \notin Runners \cup Candidates
  /\ Class \in [Candidates -> {"primary", "web", "community"}]
  /\ Brings \in [Runners -> SUBSET Candidates]
  /\ \A r \in Runners : IsFiniteSet(Brings[r])
  /\ LastTier \in [Runners -> Nat \ {0}]
  /\ MaxResearchFaults \in Nat

VARIABLES
  lease,        \* the unexpired row of pipeline_leases
  article,      \* articles and their drafts
  decision,     \* article_story_decisions; by is the runner (history)
  searchRun,    \* search_runs, one per runner and tier
  runner,       \* the memory of each runner
  researchFaults

researchVars == <<lease, article, decision, searchRun, runner, researchFaults>>

NoArticle == [status |-> "absent", draftBy |-> None]
NoDecision == [relation |-> "none", by |-> None]

(* todo: candidates still to be persisted or compared; kept: those          *)
(* persisted; deduped, excluded: left out, by the comparison or the         *)
(* excluded topics; seen, passed: did anything arrive, did anything get     *)
(* past the policy.                                                         *)
Fresh(at, tier, lost) ==
  [at |-> at, tier |-> tier, todo |-> <<>>, kept |-> <<>>,
   deduped |-> {}, excluded |-> {}, chosen |-> None,
   seen |-> FALSE, passed |-> FALSE, lost |-> lost]

Searching == {"feeds", "discover", "ask", "none", "persist", "compare",
              "duplicate", "extract", "judge", "block", "fallback", "finish", "throw"}
Working == Searching \cup {"start", "draft", "create", "release", "abandon"}

ResearchTypeOK ==
  /\ lease \in Runners \cup {None}
  /\ article \in [Candidates ->
       [status : {"absent", "discovered", "rejected", "drafted"},
        draftBy : Runners \cup {None}]]
  /\ decision \in [Candidates ->
       [relation : {"none", "passes", "duplicate", "uncertain"},
        by : Runners \cup {None}]]
  /\ DOMAIN searchRun = Runners
  /\ \A r \in Runners :
       /\ searchRun[r] \in [1..LastTier[r] ->
            {"none", "running", "completed", "filtered", "failed"}]
       /\ runner[r].at \in Working \cup {"idle", "done", "abandoned", "dead"}
       /\ runner[r].tier \in 1..LastTier[r]
       /\ runner[r].chosen \in Candidates \cup {None}
       /\ IsInjective(runner[r].kept)
  /\ researchFaults \in 0..MaxResearchFaults

ResearchInit ==
  /\ lease = None
  /\ article = [c \in Candidates |-> NoArticle]
  /\ decision = [c \in Candidates |-> NoDecision]
  /\ searchRun = [r \in Runners |-> [t \in 1..LastTier[r] |-> "none"]]
  /\ runner = [r \in Runners |-> Fresh("idle", 1, FALSE)]
  /\ researchFaults = 0

-----------------------------------------------------------------------------
(* Steps of a runner *)

On(r, point) == runner[r].at = point
Step(r, point) == runner' = [runner EXCEPT ![r].at = point]
Leave(r, point) == runner' = [runner EXCEPT ![r] = Fresh(point, @.tier, @.lost)]
ResearchFault ==
  researchFaults < MaxResearchFaults /\ researchFaults' = researchFaults + 1

(* acquire_pipeline_lease: refused while another run's lease lasts. *)
AcquirePipelineLease(r) ==
  /\ On(r, "idle")
  /\ IF lease = None THEN lease' = r /\ Step(r, "start")
                     ELSE Step(r, "done") /\ UNCHANGED lease
  /\ UNCHANGED <<article, decision, searchRun, researchFaults>>

(* A tier begins, unless the heartbeat has failed.  The call that opens its  *)
(* search run is outside the try: its error ends the runner, and when the   *)
(* row was written nobody closes it.                                        *)
StartSearchRun(r) ==
  LET opened == [searchRun EXCEPT ![r][runner[r].tier] = "running"]
  IN /\ On(r, "start")
     /\ \/ /\ runner[r].lost /\ Step(r, "release")
           /\ UNCHANGED <<searchRun, researchFaults>>
        \/ /\ ~runner[r].lost
           /\ \/ searchRun' = opened /\ Step(r, "feeds") /\ UNCHANGED researchFaults
              \/ UNCHANGED searchRun /\ Step(r, "release") /\ ResearchFault
              \/ searchRun' = opened /\ Step(r, "abandon") /\ ResearchFault
     /\ UNCHANGED <<lease, article, decision>>

(* finishSearchRun and failSearchRun: a run that is still running.          *)

(* Mutant: a search run is closed whatever it is. *)
CloseAgain(r, status) ==
  searchRun' = [searchRun EXCEPT ![r][runner[r].tier] = status]

Close(r, status) ==
  searchRun' = [searchRun EXCEPT ![r][runner[r].tier] =
                  IF @ = "running" THEN status ELSE @]

(* The call that closes a tier fails, or its answer is lost: the error it   *)
(* throws is the runner's last.  A failed finish is recorded as a failure,  *)
(* a failed failSearchRun is not recorded at all.                           *)
CloseFails(r, status) ==
  /\ ResearchFault
  /\ \/ Close(r, status) /\ Leave(r, "release")
     \/ status = "filtered" /\ Close(r, "failed") /\ Leave(r, "release")
     \/ status = "failed" /\ UNCHANGED searchRun /\ Leave(r, "abandon")

(* Mutant: one window too many. *)
WidenBeyond(r) ==
  runner' = [runner EXCEPT ![r] =
    IF @.tier <= LastTier[r] THEN Fresh("start", @.tier + 1, @.lost)
                             ELSE Fresh("release", @.tier, @.lost)]

(* The next window, if there is one. *)
Widen(r) ==
  runner' = [runner EXCEPT ![r] =
    IF @.tier < LastTier[r] THEN Fresh("start", @.tier + 1, @.lost)
                            ELSE Fresh("release", @.tier, @.lost)]

(* An empty tier goes on with a wider window; any other error ends the      *)
(* runner.                                                                  *)
NoCandidates(r, status) ==
  \/ Close(r, status) /\ Widen(r) /\ UNCHANGED researchFaults
  \/ CloseFails(r, status)

(* Mutant: the failure is not recorded. *)
ThrowUnrecorded(r) == Leave(r, "release") /\ UNCHANGED searchRun

Throw(r) == Close(r, "failed") /\ Leave(r, "release")

(* One round of acquisition: what arrives, what the excluded-topic policy   *)
(* lets pass, what of it is recent enough, and the order the curation or    *)
(* its deterministic fallback gives that.  Nothing is written meanwhile.    *)
Gather(r, next) ==
  /\ \E arrives \in SUBSET Brings[r] :
       \E eligible \in SUBSET arrives :
         \/ \E recent \in SUBSET eligible \ {{}} :
              \E order \in SetToSeqs(recent) :
                runner' = [runner EXCEPT ![r].at = "persist", ![r].todo = order,
                                         ![r].seen = FALSE, ![r].passed = FALSE]
         \/ runner' = [runner EXCEPT ![r].at = next,
                                     ![r].seen = @ \/ arrives # {},
                                     ![r].passed = @ \/ eligible # {}]
  /\ UNCHANGED <<lease, article, decision, searchRun, researchFaults>>

(* RSS, Reddit and GDELT sources; then feeds the provider discovers; then   *)
(* its web search, whose errors leave it empty.                             *)
FetchFeeds(r) == On(r, "feeds") /\ Gather(r, "discover")
DiscoverFeeds(r) == On(r, "discover") /\ Gather(r, "ask")
SearchNews(r) == On(r, "ask") /\ Gather(r, "none")

(* Nothing ranked: because of the policy, or not. *)
NothingRanked(r) ==
  /\ On(r, "none")
  /\ NoCandidates(r, IF runner[r].seen /\ ~runner[r].passed
                     THEN "filtered" ELSE "failed")
  /\ UNCHANGED <<lease, article, decision>>

(* create_or_resume_article_candidate for each, in order: new, or still     *)
(* discovered.                                                              *)
Resumable(c) == article[c].status \in {"absent", "discovered"}

CreateOrResumeArticleCandidate(r) ==
  LET c == Head(runner[r].todo)
  IN /\ On(r, "persist") /\ runner[r].todo # <<>>
     /\ runner' = [runner EXCEPT ![r].todo = Tail(@),
                                 ![r].kept = IF Resumable(c) THEN Append(@, c) ELSE @]
     /\ article' = IF Resumable(c)
                   THEN [article EXCEPT ![c].status = "discovered"]
                   ELSE article
     /\ UNCHANGED <<lease, decision, searchRun, researchFaults>>

Persisted(r) ==
  /\ On(r, "persist") /\ runner[r].todo = <<>>
  /\ IF runner[r].kept = <<>>
     THEN NoCandidates(r, "failed")
     ELSE /\ runner' = [runner EXCEPT ![r].at = "compare", ![r].todo = runner[r].kept]
          /\ UNCHANGED <<searchRun, researchFaults>>
  /\ UNCHANGED <<lease, article, decision>>

-----------------------------------------------------------------------------
(* Choosing one candidate *)

(* After the ranked loop, summaries of web sources and then of primary ones *)
(* stand in for pages that could not be read: their places in what was kept.*)

(* Mutant: what the comparison left out stands in too. *)
FallbackCandidatesAll(r) ==
  {i \in DOMAIN runner[r].kept :
     /\ Class[runner[r].kept[i]] # "community"
     /\ runner[r].kept[i] \notin runner[r].excluded}

FallbackCandidates(r) ==
  LET left(class) == {i \in DOMAIN runner[r].kept :
        /\ Class[runner[r].kept[i]] = class
        /\ runner[r].kept[i] \notin runner[r].deduped \cup runner[r].excluded}
  IN IF left("web") # {} THEN left("web") ELSE left("primary")

Subject(r) == IF runner[r].todo # <<>> THEN Head(runner[r].todo)
                                       ELSE runner[r].kept[Min(FallbackCandidates(r))]

(* On to the next candidate; this one may be left out from now on.          *)
GoOn(r, dup, bad) ==
  LET rest == IF runner[r].todo = <<>> THEN <<>> ELSE Tail(runner[r].todo)
  IN runner' = [runner EXCEPT
       ![r].deduped = @ \cup dup, ![r].excluded = @ \cup bad, ![r].todo = rest,
       ![r].at = IF rest = <<>> THEN "fallback" ELSE "compare"]

(* evaluateStoryDuplicate and recordStoryDedupDecision; a distinct story    *)
(* and a follow-up pass, a comparison that throws costs the candidate and   *)
(* is not recorded.                                                         *)
RecordStoryDedupDecision(r) ==
  LET c == Subject(r)
  IN /\ On(r, "compare")
     /\ \/ \E relation \in {"passes", "duplicate", "uncertain"} :
             /\ decision' = [decision EXCEPT ![c] = [relation |-> relation, by |-> r]]
             /\ CASE relation = "duplicate" -> Step(r, "duplicate")
                  [] relation = "uncertain" ->
                       GoOn(r, {c}, {})
                  [] OTHER -> Step(r, "extract")
        \/ /\ GoOn(r, {c}, {})
           /\ UNCHANGED decision
     /\ UNCHANGED <<lease, article, searchRun, researchFaults>>

(* transitionArticle(discovered, rejected): a row that has moved on throws. *)
Reject(r, dup, bad) ==
  LET c == Subject(r)
  IN IF article[c].status = "discovered"
     THEN /\ article' = [article EXCEPT ![c].status = "rejected"]
          /\ GoOn(r, dup, bad)
     ELSE Step(r, "throw") /\ UNCHANGED article

RejectDuplicate(r) ==
  /\ On(r, "duplicate")
  /\ Reject(r, {Subject(r)}, {})
  /\ UNCHANGED <<lease, decision, searchRun, researchFaults>>

(* The page of a web or primary candidate, which may not be readable; a     *)
(* community post keeps its summary.                                        *)
ExtractEvidence(r) ==
  /\ On(r, "extract")
  /\ \/ Step(r, "judge")
     \/ Class[Subject(r)] # "community" /\ GoOn(r, {}, {})
  /\ UNCHANGED <<lease, article, decision, searchRun, researchFaults>>

(* evidenceAllowed: the policy on the evidence; what it blocks is rejected. *)
EvidenceAllowed(r) ==
  /\ On(r, "judge")
  /\ \/ runner' = [runner EXCEPT ![r] =
          [Fresh("finish", @.tier, @.lost) EXCEPT !.chosen = Subject(r)]]
     \/ Step(r, "block")
  /\ UNCHANGED <<lease, article, decision, searchRun, researchFaults>>

(* Mutant: what the policy blocks is left as it was. *)
RejectExcludedUnwritten(r) ==
  /\ On(r, "block")
  /\ GoOn(r, {}, {Subject(r)})
  /\ UNCHANGED <<lease, article, decision, searchRun, researchFaults>>

RejectExcluded(r) ==
  /\ On(r, "block")
  /\ Reject(r, {}, {Subject(r)})
  /\ UNCHANGED <<lease, decision, searchRun, researchFaults>>

(* Nothing is left to try: filtered when the policy took all there was. *)
OnlyExcluded(r) ==
  LET left == ToSet(runner[r].kept) \ runner[r].deduped
  IN left # {} /\ left \subseteq runner[r].excluded

Fallback(r) ==
  /\ On(r, "fallback")
  /\ IF FallbackCandidates(r) = {} /\ OnlyExcluded(r)
     THEN NoCandidates(r, "filtered")
     ELSE /\ Step(r, IF FallbackCandidates(r) = {} THEN "throw" ELSE "judge")
          /\ UNCHANGED <<searchRun, researchFaults>>
  /\ UNCHANGED <<lease, article, decision>>

(* finishSearchRun, whose answer may be lost.                               *)
FinishSearchRun(r) ==
  /\ On(r, "finish")
  /\ \/ Close(r, "completed") /\ Step(r, "draft") /\ UNCHANGED researchFaults
     \/ Close(r, "completed") /\ Step(r, "throw") /\ ResearchFault
  /\ UNCHANGED <<lease, article, decision>>

-----------------------------------------------------------------------------
(* The draft *)

(* generate: the lease is looked at, then the model writes or does not. *)
GenerateReviewDraft(r) ==
  /\ On(r, "draft")
  /\ \/ ~runner[r].lost /\ Step(r, "create")
     \/ Leave(r, "release")
  /\ UNCHANGED <<lease, article, decision, searchRun, researchFaults>>

(* create_review_draft: only under the lease and from a discovered article. *)

(* Mutant: the lease is enough. *)
DraftableAnyway(r) == lease = r

Draftable(r) == lease = r /\ article[runner[r].chosen].status = "discovered"

CreateReviewDraft(r) ==
  /\ On(r, "create") /\ Leave(r, "release")
  /\ article' = IF Draftable(r)
                THEN [article EXCEPT ![runner[r].chosen].status = "drafted",
                                     ![runner[r].chosen].draftBy = r]
                ELSE article
  /\ UNCHANGED <<lease, decision, searchRun, researchFaults>>

(* The lease is given up; when that fails it is left to expire. *)
ReleasePipelineLease(r) ==
  /\ \/ On(r, "release") /\ Leave(r, "done")
     \/ On(r, "abandon") /\ Leave(r, "abandoned")
  /\ \/ lease' = (IF lease = r THEN None ELSE lease) /\ UNCHANGED researchFaults
     \/ UNCHANGED lease /\ ResearchFault
  /\ UNCHANGED <<article, decision, searchRun>>

-----------------------------------------------------------------------------
(* Failures and time *)

(* Any call of a tier may throw, cancellation included; the catch records   *)
(* it, if the search run is still running.                                  *)
FailSearchRun(r) ==
  /\ On(r, "throw")
  /\ \/ Throw(r) /\ UNCHANGED researchFaults
     \/ CloseFails(r, "failed")
  /\ UNCHANGED <<lease, article, decision>>

SearchFails(r) ==
  /\ runner[r].at \in Searching \ {"none", "throw"}
  /\ Step(r, "throw") /\ ResearchFault
  /\ UNCHANGED <<lease, article, decision, searchRun>>

(* renew_pipeline_lease finds no unexpired row of its own, or fails. *)
LeaseHeartbeat(r) ==
  /\ runner[r].at \in Working /\ ~runner[r].lost
  /\ runner' = [runner EXCEPT ![r].lost = TRUE]
  /\ IF lease = r THEN ResearchFault ELSE UNCHANGED researchFaults
  /\ UNCHANGED <<lease, article, decision, searchRun>>

(* A live runner's lease expires only if it stalls. *)
LeftBehind ==
  lease # None /\ runner[lease].at \in {"dead", "done", "abandoned"}

PipelineLeaseExpires ==
  /\ lease # None /\ lease' = None
  /\ IF LeftBehind THEN UNCHANGED researchFaults ELSE ResearchFault
  /\ UNCHANGED <<article, decision, searchRun, runner>>

RunnerDies(r) ==
  /\ runner[r].at \in Working /\ Leave(r, "dead") /\ ResearchFault
  /\ UNCHANGED <<lease, article, decision, searchRun>>

RunnerStep(r) ==
  \/ StartSearchRun(r) \/ FetchFeeds(r) \/ DiscoverFeeds(r) \/ SearchNews(r)
  \/ NothingRanked(r)
  \/ CreateOrResumeArticleCandidate(r) \/ Persisted(r)
  \/ RecordStoryDedupDecision(r) \/ RejectDuplicate(r) \/ ExtractEvidence(r)
  \/ EvidenceAllowed(r) \/ RejectExcluded(r) \/ Fallback(r) \/ FinishSearchRun(r)
  \/ FailSearchRun(r)
  \/ GenerateReviewDraft(r) \/ CreateReviewDraft(r) \/ ReleasePipelineLease(r)

ResearchNext ==
  \/ PipelineLeaseExpires
  \/ \E r \in Runners :
       \/ AcquirePipelineLease(r) \/ RunnerStep(r)
       \/ SearchFails(r) \/ LeaseHeartbeat(r) \/ RunnerDies(r)

ResearchSpec == ResearchInit /\ [][ResearchNext]_researchVars

(* A live process goes on; a lease left behind runs out. *)
ResearchFairness ==
  /\ \A r \in Runners : WF_researchVars(RunnerStep(r))
  /\ WF_researchVars(LeftBehind /\ PipelineLeaseExpires)

ResearchFairSpec == ResearchSpec /\ ResearchFairness

-----------------------------------------------------------------------------
(* What research promises *)

(* An article that was rejected or drafted stays so: a run that lost its    *)
(* lease neither revives it nor drafts it again next to its successor.      *)
SettledForGood ==
  [][\A c \in Candidates :
       article[c].status \in {"rejected", "drafted"} => article'[c] = article[c]]_researchVars

(* The recorded comparison of a drafted article lets it pass, unless a run  *)
(* that lost its lease wrote over it.                                       *)
Overtaken(r) == r \in Runners /\ lease # r /\ runner[r].at # "idle"

DecisionBehindDraft ==
  \A c \in Candidates : article[c].status = "drafted" =>
    \/ decision[c].relation = "passes"
    \/ decision[c].by # article[c].draftBy /\ Overtaken(decision[c].by)

(* A search recorded as emptied by the excluded topics left no candidate    *)
(* that a reader could have had: each it kept was rejected or not new.      *)
FilteredIsTrue ==
  [][\A r \in Runners : \A t \in 1..LastTier[r] :
       searchRun'[r][t] = "filtered" /\ searchRun[r][t] # "filtered" =>
         \A c \in ToSet(runner[r].kept) :
           \/ article[c].status = "rejected"
           \/ c \in runner[r].deduped]_researchVars

(* A search run that ended keeps its outcome, whatever call failed later.   *)
SearchRunsAreFinal ==
  [][\A r \in Runners : \A t \in 1..LastTier[r] :
       searchRun[r][t] \notin {"none", "running"}
       => searchRun'[r][t] = searchRun[r][t]]_researchVars

(* Executions that live come to an end and give the lease up for the next   *)
(* pipeline, however they fail, and a search run stays open only when its   *)
(* process died or the call that opens or closes it failed.                 *)
Open(r) == \E t \in 1..LastTier[r] : searchRun[r][t] = "running"

PipelinesEnd ==
  []<>(lease = None /\ \A r \in Runners :
         /\ runner[r].at \notin Working
         /\ Open(r) => runner[r].at \in {"dead", "abandoned"})

(* Research leaves settled articles alone, drafts what the comparison let   *)
(* pass, and records of a search what was so.                               *)
ResearchPromise ==
  /\ []DecisionBehindDraft
  /\ SettledForGood /\ FilteredIsTrue /\ SearchRunsAreFinal
=============================================================================
