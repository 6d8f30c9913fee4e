# A verification development of the Telegram news agent

TLA+ modules, TLC instances and TLAPS proofs about `src/`: a bot that researches
news, drafts an article with an AI provider, has it reviewed and publishes it to
one Telegram channel, on demand or on a schedule. Everything durable is in
PostgreSQL; every state change is a plpgsql function or a single statement, so
the concurrency of the system is between *transactions of several processes*:
a polling bot with an embedded scheduler, a `/news` job worker, command line
tools and the operator, with crashes and lost replies between any two of them.

## 1. Inventory

Paths are relative to `src/`. "SQL" is `db/migrations/`.

| Component | State it keeps | Operations | Correct when |
|---|---|---|---|
| Editorial publication (`src/editorial/application/publish-approved-draft.use-case.ts`, `reconcile-publication.use-case.ts`, `src/publish.js`, SQL 20260810103000 and 20260812130000) | `drafts.status`, `articles.status`, `published_posts`, `publication_policy_blocks` | create, approve, reject, claim, block, send, release, finalize, reconcile | a draft is on the channel at most once; a blocked draft never; nothing is parked for ever |
| Story deduplication (`src/story-deduplication.js`, SQL 20260810103000) | `article_story_decisions`, `story_publication_claims` | decide, claim, replace after 14 days | two drafts of one story are not published within the window |
| News scheduler (`src/scheduler/`, `src/news-scheduler.js`, SQL 20260807130000, 20260807210000) | one `news_bot_settings` row per channel: due time, claim, run, snapshot, checkpoints | claim, renew, checkpoint, defer, pause, finish | an occurrence sends one article, keeps its settings, ends, and is recorded truthfully |
| `/news` jobs (`src/telegram/telegram-news-job-worker.ts`, `typed-news-job-workflow.adapter.ts`, `typed-news-job-delivery.adapter.ts`, SQL 20260814090000) | `telegram_news_jobs`, `telegram_news_request_checkpoints` | enqueue, claim, checkpoint, retry, record, deliver, complete | one request of a channel is open; it is settled once, publishes one article at most, and is closed by telling the admin |
| Update polling (`src/telegram/telegram-polling-worker.ts`, SQL 20260812095000) | `telegram_updates`, the offset in memory, the poller's lease | claim, handle, complete, fail, quarantine | nothing Telegram forgets was swallowed; a closed update stays closed; each is closed |
| Telegram control (`src/telegram/application/handle-telegram-control-update.use-case.ts`) | none of its own | commands and callbacks | authorised, idempotent per update |
| Review sessions (`deliver-`, `decide-telegram-review.use-case.ts`, SQL 20260627211631) | `telegram_review_sessions` | deliver, renew, rebind, decide | one decision per draft, which the draft follows; buttons only on a bound preview |
| Pipeline lease (`src/operations/application/pipeline-lease.service.ts`, SQL 20260627012000, 20260627022000) | `pipeline_leases` | acquire, renew, release, expire | a run that lost it drafts nothing |
| Settings (`src/telegram-settings.js`, `src/settings/`) | `news_bot_settings`, prompts, flags | press, prompt, compare-and-set on `version` | a press changes what its admin saw; no lost update |
| Publication milestones (`src/publication-milestones/`) | `publication_milestones` | prepare, claim, send, mark, retry | a milestone is announced once and recorded truthfully |
| Notion outbox (`notion-audit-delivery.service.ts`, SQL 20260627023000) | `notion_audit_outbox` | claim, complete, retry | every row gets there and stays there |
| Research and curation (`src/research/typed-research-execution.gateway.ts`) | `search_runs`, `articles`, decisions | acquire, compare, reject, choose, widen | settled articles stay so; what is recorded of a search is true; it ends |
| Sources (`src/research/source-acquisition.gateway.ts`, SQL 20260807181000) | `sources`, `source_discovery_state` | fetch, set aside, discover | a source is set aside for its own failures; discovery is paid for once |
| AI providers (`src/ai/ai-provider-composition.ts`, `providers/openrouter.adapter.ts`) | breakers, the list of free models and the one that answered, in memory | fallback order, retry, throttle, walk | a throttled provider is left alone; an abandoned call stops; what is free is asked first |
| Draft, enrichment, corroboration (`src/editorial/`) | none durable | plan, search, generate, rewrite | the caveat goes only when earned; detail never costs the article |
| Runtime coordination and health (`src/runtime/`) | worker states, the readiness file | start, stop, fail; publish, probe | the pool outlives the workers; a stop ends; readiness is true |
| Deployment (`ops/deploy.sh`, `ops/lib/deploy-gate.sh`, `scripts/migrate.mjs`) | two environment files, the role's password, `schema_migrations`, the bot's container | promote, reconcile, migrate, start, gate, roll back | a release is accepted whole or production is as it was |
| Legacy pipeline, telemetry, CLI tools | accounting rows | — | section 6 |

### Interactions

* The scheduler, a `/news` job, a review button and `drafts-cli publish` all call
  the same publish use case; the database decides which of them sends.
* The scheduler and `/news` jobs take the same pipeline lease, and
  `create_review_draft` refuses a draft whose lease is gone.
* The scheduler leaves a review session behind; the polling worker delivers the
  reviewer's decision, which approves or rejects the draft.
* The operator changes settings (bumping `version`, which the publication claim
  compares), and reconciles publications whose outcome nobody knows.

### What is hard

Stale claims taken over while their first owner is still alive, and handlers
that outlive their lease; a Telegram send whose reply is lost; a crash between any two transactions; a settings change
during a classification or an occurrence; the night pause crossing an
occurrence; errors told apart by the words of their message; menus older than the
row they change; breakers shared by calls already under way; a shutdown that meets
a start. `PROJECT.json`
lists each hazard at its line with the property that covers it.

## 2. What is modelled

### ChannelPromise

The abstract specification: what a reader of the channel is promised. A draft is
open, reserved, shown or closed. Shown once, only from a reservation, and a
reservation excludes rival drafts of its story unless the last message of the
story is older than the window. A story is `expired` while none of its messages is
within the window, which is so of a story that was never shown and again, after any
message, once its claim has aged. No database, executions or replies.

### Publication

One action per plpgsql function, one per step of `execute()` between two awaits.

| Code | Module |
|---|---|
| rows of drafts and articles, receipts, story claims, blocks, `version` | `draftStatus`, `articleStatus`, `posts`, `claimDraft`/`claimStatus`/`agedClaims`, `blocks`, `doubted`, `settings` |
| an execution's program point, draft, retry, version, outcome | `pc`, `target`, `attempt`, `version`, `result` |
| its sendMessage request and the channel | `wire`, `channel` |
| `claim_draft_for_publication_with_policy` | `Gate`, `StoryFree`, `ReserveStory`, `ClaimDraftForPublication`, `ClaimRaises` |
| `finalize_`, `release_rejected_`, `reset_draft_publication` | `FinalizeDraftPublication`, `BackToApproved` |
| `execute()` | `PublisherStep`, from `FindPublicationByDraft` to `StoreReceipt` |
| Telegram | `TelegramAccepts`, `TelegramRefuses`, `RequestLost`, then `ReadReply` or `LoseReply` |
| the operator's reconciliation | `ReconcileSent`, `ReconcileNotSent` |

A request is on the wire until Telegram accepts, refuses or never gets it; the
execution may lose the reply at any time, so accepted-and-unknown is a reachable
state. Bodies, hashes and the channel id are left out (the header says why); the
story fingerprint of a draft does not change during a behaviour, although a
repeated deduplication could record another. `GarbledReplies` lets the reply of
an accepted message be unreadable; `OperatorWaits` says that the operator
confirms `TELEGRAM_NOT_SENT` only when no execution of the draft is live.

### Scheduler

One channel's occurrences. `rowVars` is the `news_bot_settings` row; a worker is a
scheduler loop with its execution's `pc`, the row as it claimed it (`mine`), its
checkpoint (`doc`) and the status it will finish with (`outcome`).

| Code | Module |
|---|---|
| `claim_due_news_schedule` | `MoveDueToMorning`, `Claimable`, `TakeSnapshot`, `ClaimDueNewsSchedule` |
| `finish_`, `defer_`, `pause_news_schedule...` | `FinishNewsSchedule`, `DeferForQuietHours`, `PauseUnresolved` |
| `executeClaim()` | `ExecutionStep`: `EarlyDeferral` ... `Finish` |
| `errorCode()` and the catch of `execute()` | `Throw` |
| failed calls, heartbeats and deliveries; crash and shutdown | `Fault`, `Crash` |
| reviewers, other publishers, the operator, other pipelines | `PeopleStep` |
| reviews of `/news` jobs on the channel | `newsReview`, `NewsReviewOpensOrEnds` |
| time | `NextRunIsDue`, `ClaimGoesStale`, `LeaseExpires`, `ReviewExpires`, `NightFalls`, `MorningComes` |

Time is what the functions compare: due or not, stale or not, night or not.
`Stalls` lets a *live* worker's claim and lease go stale (its event loop is
blocked longer than the threshold); `SkewedClock` lets the worker's clock
disagree with the database's; `NewsReviews` lets a `/news` job open a review of its
own, at any time. A session is pending until it is decided or runs out
(`expires_at`); a delivery that is resumed renews one that ran out.
`has_pending_telegram_review` sees both kinds of review. The publication an
execution asks for is the
Publication module seen from its caller: published, blocked, rejected,
unresolved, or refused.

### RequestPromise

The abstract specification of `/news`: a request is accepted, or refused while
another of its channel is open; it is settled once; the admin is told its answer;
it is closed as answered, which needs a message, or as given up. No rows, claims,
workers or attempts.

### NewsJobs

The queue, its workers and what they do to a draft. `rowVars` are the columns of
`telegram_news_jobs`; a worker is a process with its program point `pc`, its claimed
`job`, the draft `doc` and the finding it carries, and the `failure` on its way to
the catch.

| Code | Module |
|---|---|
| `enqueue_telegram_news_job` | `ChannelBusy`, `EnqueueTelegramNewsJob` |
| `claim_next_telegram_news_job` | `Candidate`, `SpendLastExecution`, `SpendLastDelivery`, `TakeJob` |
| `renew_`, `record_..._outcome`, `retry_`, `retry_..._delivery`, `complete_` | `RenewTelegramNewsJobClaim`, `RecordOutcome`, `RetryJob`, `RetryDelivery`, `CompleteJob` |
| `TypedNewsJobWorkflowAdapter.run()` | `WorkflowStep`, from `Look` to `SendPublication` |
| `TelegramNewsJobWorker.execute()`, `deliver()` | `WorkerStep` |
| the delivery adapter | `Deliver`, `PresentReview` |
| failed calls, crash and shutdown | `CallFails`, `Crash`, and the lost answers of `Answered` |
| reviewers, the operator, other pipelines, time | the other disjuncts of `Next` |

A claim token is fresh and a worker runs one job at a time, so the token is the
worker: a row that carries the token of an idle worker was left behind. Research is
one step, which creates the draft under the lease or comes back empty or fails.
Publication is seen from the caller, as in Scheduler. `Stalls` again lets a live
worker's claim and lease go stale.

### TelegramUpdates, ReviewSessions and TelegramReview

TelegramUpdates is the poller, the claim an update is handled under and the ledger
they share.

| Code | Module |
|---|---|
| `telegram_updates`; Telegram's queue; a process's offset, lease and handler | `ledger`; `arrived`, `confirmed`; `poller` and `leaseOwner` |
| `claim_telegram_update`, `finish_`, `record_telegram_update_failure` | `Claimable`, `FinishTelegramUpdate`, `Recordable`, `Quarantines` |
| `pollTelegramUpdates`, `TelegramPollingWorker` | `PollerStep` |
| an abandoned handler | a poller's handler that goes on `detached` |

Telegram forgets the updates below the offset a poller asks from: `PollAgain` is the
step that loses what was not accounted for. The routing of an update is any outcome
here. `Present` is `TelegramBotApiOutcomeRenderer`: most outcomes have a message that
must arrive before the update is completed (`must`); one without a text, and the
notice that the policy blocked a press, ask for nothing, and the update is completed
whatever becomes of them. `answered` are the updates whose outcome had the message it
requires. ReviewSessions is one draft's session, its deliveries (`deliverer`) and presses
(`handler`); it distinguishes the preview in the chat, the buttons it shows and the
preview the row is bound to, because the three are separate calls. TelegramReview
puts them together: the update is a press, routing it is the use case of
`decide-telegram-review`, and a crash, stop or lease loss anywhere inside leaves
the update to whoever claims it next. `told` is what a press was really shown: of a
publication a message that must arrive, of a block a message that may get lost, of a
rejection the callback toast only, which may get lost too (`Toast`).

### AiProviders, OpenRouter, Milestones, Drafting, Settings, NightPause, Labs, Sources

* AiProviders: `createFallbackAiProvider`. `call` is the call each caller is in,
  `breaker` what calls share; five classes of error codes stand for the codes of
  `classifyProviderError`.
* OpenRouter: one provider of that cascade, `createOpenRouterProvider`: concurrent
  walks over a list of free models, the lookup they share (`lookup`) and the model
  remembered (`proven`). `lastReply` is a history of what each model last came to.
* Milestones: `PublicationMilestonesService.handle` from its event to the mark, with
  `began` and `posted` because posts commit in another order than their time.
* Drafting: `LegacyEditorialDraftGateway.generate`. Evidence is a function from
  publishers to verification status; a body is its version, its mark and its
  hashtags. All texts, token budgets and models are any outcome.
* Settings: `handleSettingsCallback`, `handleSettingsInput` and the statements they
  call. `drawn` remembers what each version of the row showed.
* NightPause: `next_allowed_news_schedule_at` and the four statements that set
  `next_run_at` with it, over two nights counted in hours of UTC, one of which may
  have the clocks change. Scheduler has the occurrence and takes the night as a flag;
  here the occurrence is claimed, open or gone and the hours are real.
* Labs: `handleLabsCallback` and `update_news_feature_flag`; `buttons` keeps every
  button drawn with the state its page showed.
* Sources: `fetchWithHealth`, the health statements, and `discoverSources` with its
  claim.

### Research, TopicPolicy, NotionOutbox, RuntimeHealth, RuntimeCoordinator, Deployment

* Research: the tier loop of `TypedNewsJobWorkflowAdapter.research` around
  `TypedResearchExecutionGateway.execute`: feeds, feeds the provider discovers, the
  provider's search; candidates, comparison, evidence, policy, fallback; the search
  run's row; the draft under the lease. A runner whose lease expired goes on until it
  looks at its heartbeat. What is found, ranked or judged is any outcome.
* TopicPolicy: `applyExcludedTopicPolicy` over one batch, with its pool of
  classifications, and the veto of the publication policy over what came through.
* NotionOutbox: the end of `withNotionAudit` (`FinishRun`), `deliverPending` and its
  three statements; a claim is a time. Notion may have taken what it seems to refuse,
  and a statement may have committed although it failed. What the outbox is never given
  ends in an error the run throws (`thrown`).
* RuntimeHealth: the readiness file of several runtimes, `RuntimeHealthWorker` step
  by step, and one probe of `checkRuntimeHealth`. A worker that stopped has a process
  until it is `gone`, and until then `kill(pid, 0)` finds it.
* RuntimeCoordinator: one process; `starting` and `drained` are the two promises
  `stopAll` races against the grace period.
* Deployment: `deploy.sh` command by command, each of which may fail with its work
  done or not; its rollback; the migrator, which outlives a killed deployment; a bot
  that dies and restarts. An environment stands for its file, its passwords and what
  a container was created with. What the gate reads of health is free.

MCConversation and MCOperations instantiate components that share no state. Their
initial states choose a `focus`; a behaviour moves the variables of that component
and no other. The states of such a run are the sum of the components' states, not
their product, and a property of a component is checked on every one of its
behaviours, since the others do not move.

## 3. What is checked

| Run | Instance | Shows |
|---|---|---|
| `pub_resolves` | 2 drafts of a story, 2 executions, fair | at most one message, one claim holder, approved means unsent, policy block; no draft stays in `publishing`; the refinement of ChannelPromise, its 14-day window included |
| `pub_degraded` | 1 draft, 2 executions, 3 versions, garbled replies, hasty operator | types, receipts, answers and the version compare-and-set hold even then |
| `pub_garbled_reply` | violation | a reply that cannot be read is taken for a rejection and the draft is sent twice |
| `sched_takeover` | 2 drafts, 2 stalling workers, skewed clocks, 1 occurrence, 1 fault, 1 settings change | types and table constraints, one article, immutable snapshot and checkpoints, honest status |
| `sched_sequence` | 2 drafts, 1 restarted worker, 2 occurrences, 1 fault, fair | one open review of the scheduler's own, reviews that run out and reviews of `/news` beside it; every occurrence ends |
| `sched_unresolved` | violation | a crash after the publication claim ends the occurrence as failed instead of pausing the schedule |
| `jobs_queue` | 2 requests of a channel, 2 stalling workers, 1 fault, no drafts | table constraints; the refinement of RequestPromise |
| `jobs_one_article` | 1 request, 2 drafts, 2 workers, 3 executions, 2 faults, fair | one article, delivery's checkpoint, truthful messages; the request is closed |
| `telegram_review` | 2 presses as updates, 2 pollers, 1 fault, fair | `PressPromise`: answers are true, and a press Telegram has forgotten was acted on, refused or quarantined, a publication announced; an approval is acted on; every update is closed and forgotten |
| `conversation` | in focus: 3 updates of 3 kinds under 2 pollers and 2 faults; 2 deliveries and 2 presses; 2 panels and a row of 3 versions; 2 handlers of `/labs`, 2 flags of 2 and 3 versions; 34 hours of a schedule | `UpdatesPromise`, `ReviewPromise`, `PanelsPromise` |
| `operations` | in focus, fair: 2 runners, 2 candidates, 1 fault; 2 drains, 2 pages, 3 faults; 2 runtimes, 1 fault; 3 workers; 2 scans of a feed; 2 calls, 2 providers; 2 walks of 3 free models; a batch of 3 candidates; a draft of every evidence and switch; 4 posts, 2 senders, 1 fault; 2 releases, 1 fault | safety: `CurationPromise`, `CompletedIsFinal`, `RuntimePromise`, `SourcesPromise`, `ProvidersPromise`, `DraftPromise`, `MilestonesPromise`, `DeploymentPromise`; liveness: `OperationsEnd`, that pipelines, drains and stops end and a serving runtime becomes visible |
| `draft_collect` | violation | the editorial pass ships its rewrite in collect mode |

A promise is the conjunction of the component's named properties, each stated on its
own above it (`UpdatesPromise` is `ForgottenIsAccountedFor` and `ClosedForGood`, and so
on); `PROJECT.json` has a mutant of the code for every part.

### Why the bounds are enough

Publication: a wrong second send needs two executions with a crash, a release or a
reset between them, and the proofs of section 4 cover more; a story conflict needs
two drafts, and so does replacing an aged claim. An aged claim that was replaced, given
back and taken again needs a third execution: that is left to the proof of
`RefinesPromise`. Both drafts have the story: a draft
without one is in the proofs only, and its steps are those of a story nobody else
wants. `MaxVersion` bounds settings changes: the retry is exhausted after two.
Executions are interchangeable and properties mention none by name, so they are
permuted; liveness uses no symmetry.
Scheduler: a takeover needs two workers and one fault or stall; a mixed-up
checkpoint needs two drafts; what one occurrence leaves to the next needs two.
`MaxRuns`, `MaxFaults` and `MaxChanges` bound occurrences, failures and settings
changes; time is not bounded.
NewsJobs: a takeover needs two workers and a crash or a stall; a refusal needs two
requests; a second article needs two drafts, and three executions let the first
fail, the second resume and the third repeat. Attempt budgets of two have a first
and a last attempt; `MaxFaults` bounds failures. No statement of the queue depends on
which draft a row names, so `jobs_queue` has none; one channel makes every second request a rival, and that one
job is claimed at a time across channels is left to the proof of `TypeCorrect`.
`jobs_one_article` does not stall, because a stalled worker does send (see Remarks).
It uses no symmetry, for liveness.

TelegramUpdates: a skipped update needs one that fails between one that is handled and
one that is not ours; an overtaken handler needs two pollers, and a stall with a crash
is two faults. Two attempts have a first and a last. `telegram_review` has one fault,
so that two presses are never inside the use case at once; `conversation` has the two
handlers race each other and two deliveries, without the poller.
AiProviders: the storm bound needs a breaker that opens under another call, hence two
callers; the second provider is where the cascade goes; a fact search, outside the
breakers, shares nothing with a call at the same time. OpenRouter: one walk to fail
where another has answered; a preference that is not the first of the catalogue.
NightPause: a night of which midnight is the middle and the next morning, before and
after a change of the clocks in either direction; an interval that ends in the next
night and one that is a day. Milestones: two milestones of
two posts, so that the second can overtake the first. Milestones and Deployment have
one fault, a failing command, a kill or a dead bot, and are proved for any number.
RuntimeHealth has one, a process that dies or a write or read of the file that fails,
because the next heartbeat makes good for a write. Drafting: one publisher below
the threshold, one weak, the origin; every combination of flags and evidence is an
initial state. Settings: a row that changes twice between a menu and its press; limits
(three topics, two of them custom) that the presses reach. Labs: a flag that changes
under a press, and under the answer to one. Sources: five failures in
a row tell the day from the week. Research: an overtaken runner needs two; one
candidate of the web or primary class, which can be extracted or stand in as a
summary, and one of the community, which cannot; a plan of one window and a plan of
two. TopicPolicy: three candidates over two workers, so that one returns after two others.
NotionOutbox: a row whose claim two drains hold needs a stall, a refusal and a
death at most. RuntimeCoordinator: a worker before, during and after the one in
whose start the stop arrives. `Max...` constants bound faults, versions, prompts and
previews; the modules' headers say which.

### Fairness

`Publication!Fairness`: an execution that can go on does (a process does not stop
without dying, and crashing is a step), Telegram or the network settles a
request, and the operator reconciles what stays in `publishing`.
`Scheduler!Fairness`: an execution goes on; clocks move and nights end; another
pipeline ends or its lease expires; the loop polls every 30 seconds, so a row
that is claimable again and again is claimed (strong fairness). `RunsEnd` sets
aside a behaviour in which night falls on the same occurrence for ever. Workers
do not stall in that run: the heartbeat period is a third of the threshold.
Clocks agree there: a worker whose clock stays in the night while the database's
left it would defer the same occurrence for ever.
`NewsJobs!Fairness`: a worker polls and its execution goes on; a backoff ends and an
abandoned claim goes stale. No strong fairness is needed, because one job is claimed
at a time and a claimable row stays claimable until it is claimed.

### Findings

Three runs show the code doing what its documentation says it does not;
`PROJECT.json` quotes each:

* `pub_garbled_reply` (`src/telegram.js:47`): a reply that cannot be read counts as
  a rejection.
* `sched_unresolved`
  (`src/scheduler/application/run-scheduled-news-once.use-case.ts:65`): a successor
  does not recognise an unresolved publication.
* `draft_collect` (`src/editorial/legacy-editorial-draft.gateway.ts:560`): in collect
  mode the rewrite becomes the review body, which the Labs page says it does not.

### Remarks

Met while modelling; the models do what the code does, and no property contradicts it.

`/news` jobs:

* `telegram-news-job-worker.ts:85`: the typed worker retries an unresolved
  publication, which is terminal in the code it mirrors. The retry sends nothing and
  ends as failed.
* `:349`: the answer of the heartbeat is dropped, so a worker that lost its claim
  still publishes (a draft once, all the same).
* `typed-news-job-delivery.adapter.ts:135`: the draft is created before the checkpoint
  that names it; after a crash between the two the admin may read that nothing was
  drafted. A lease lost during generation orphans a draft likewise.

Telegram:

* The offset is kept in memory (`telegram-polling-worker.ts:390`), although
  `docs/nestjs-drizzle-migration-blueprint.md:279-281` says it is persisted; a restart
  relies on the ledger.
* An update may be completed and forgotten without a word to its admin: outcomes
  without a text (`telegram-bot-api.gateway.ts:256-257`, `:301-302`), the notice of a
  block, whose failure is swallowed (`:263-269`), and the callback toasts
  (`decide-telegram-review.use-case.ts:137-150`). `ForgottenIsAccountedFor` therefore
  says that the message an outcome *requires* arrived, and `NoPressIsSwallowed` that
  a press which was told nothing found its draft rejected or blocked.
* An update nobody here handles that another poller has under way goes to the failure
  ledger as one not to be retried (`telegram-polling-worker.ts:413-414`), where an
  update for us is waited for.
* The answers `review_ready` and `unavailable` can be untrue
  (`telegram-scheduler-review-delivery.adapter.ts:65-67`,
  `telegram-bot-api.gateway.ts:289`).
* A custom topic is lost when its handling fails after the prompt was consumed.

Scheduler: it looks for an open review minutes before it delivers its own
(`run-scheduled-news-once.use-case.ts:517`, `:646`), and a `/news` job looks for none,
so that a review of either may be open beside the other's; `docs/operations.md:278-280`
promises the check before the draft. `OneReviewAtATime` is about the scheduler's own.

Audit: what Notion refuses of a run that *failed* is not enqueued
(`notion-audit.js:179-197`), nor is anything where the caller has no outbox
(`:213-215`), and an enqueue that fails throws (`:216`), although
`docs/operations.md:309-310` says without exception that the payload is stored.
`OutboxDrains` is about what the outbox has taken.

Research and sources:

* The call that opens a search run is outside the `try`
  (`typed-research-execution.gateway.ts:288`): when it commits and its answer is lost,
  the run stays `running` behind a pipeline that goes on to its end.
* A `failSearchRun` that fails leaves its search run `running` for ever; on a run that
  is closed it throws and hides the error before it. `evaluateStoryDuplicate` records
  a cancellation as `uncertain`.
* A classification that fails or is cancelled blocks its candidate as `uncertain`:
  `evaluateExcludedTopics` catches every error, so that the rejection the comment at
  `excluded-topic-policy.js:274` speaks of never comes and nothing aborts the policy.
* A `markSourceFetchSuccess` that fails counts as a failed fetch. The completion of a
  source discovery is not fenced.

Settings and deployment:

* When the redraw of a Labs page fails after the flag was written, the update is
  handled again and its admin reads that the menu is out of date
  (`telegram-labs.js:380-382`); the change stands.
* `deploy.yml:35-37` serialises by `github.ref`, and every release is a tag, so two
  tags pushed together deploy at once; `deploy.sh` takes no lock. The model assumes
  one deployment after another.
* A deployment killed after it promoted an environment leaves one whose credential was
  not reconciled. A later deployment of the same environment that fails early restores
  the old image under it and reports the environment unchanged (`deploy.sh:128-130`);
  `RestoredIsAsBefore` asks for a production that was whole. A release that is accepted
  makes it whole again.
* `up -d` leaves a container that is already what is asked for, restarts and all, which
  the gate then refuses (`deploy-gate.sh:36`).

AI and drafts:

* An abort during the telemetry write that opens an attempt still sends the attempt.
  A deadline that passes in a retry pause skips the breaker. Aborted calls are not
  recorded; a late success closes a breaker. Exa's daily cap is counted per port.
* The lookup of OpenRouter's models has the signal of the call that came first: when
  that call is aborted meanwhile, the process keeps to its preferences and the default
  until it restarts.
* `publisherOf` compares host names (`source-policy.ts:94-113`), so two hosts of one
  newsroom are two publishers.
* `stripPublishingFurniture` removes the hashtag line of a rewritten draft, although
  `telegram-labs.js:201` says hashtags are appended to new drafts.

Readiness: a stopped worker whose file could not be removed, or not be read
(`runtime-health.ts:271-275`), leaves it behind, and the probe finds its process alive
until the drain ends (`runtime-health-check.ts:231`).

Milestones: a crash, or a mark that fails, leaves `sending` for the operator; a
milestone may be skipped when posts commit out of order or the event is lost; the
Telegram adapter never reports a rejection, so `failed` comes from the operator only.

## 4. What is proved

Eight modules hold proofs. Each theorem is for all values of the constants that the
named assumption of its module admits; the runs of section 3 check the same
properties, and TLC checked each inductive invariant on such an instance before it was
proved. A component's theorems are about its own specification. The compositions that
the runs with a focus check are proved as well: a step of `ConversationSpec` or
`OpsSpec` is a step of each component or leaves it alone (`EachConverses`, `EachMoves`),
so the conjunction of the components' invariants is inductive and what each promises
holds beside the others. Every safety property of a passing run is a theorem, some
under a hypothesis named below.

### Publication (`PublicationProofs`), for any drafts, executions, stories and versions

* `TypeCorrect`: the type invariant, and an execution past its start has a draft.
* `AtMostOnceHolds`, `ApprovedMeansUnsentHolds`, `OneHolderHolds`, under
  `~GarbledReplies` and `OperatorWaits`. `AtMostOnce` is not inductive: a draft may
  be sent once more if its row says approved while a message is in flight. `IInv`
  adds `WireInv` (what request an execution has made, by its program point) and
  `ExposureInv` (a draft with a holder, a message in flight or on the channel is in
  `publishing` or `published`, and one execution only accounts for it). Each step
  either exposes nobody new and leaves exposed drafts' status alone
  (`ExposureKept`), or is the claim, which finds the draft approved and therefore
  unexposed, or finalizes. The two assumptions are needed: `pub_garbled_reply`
  drops the first, a hasty reset drops the second.
* `ReceiptsTruthfulHolds`, `AnswersTruthfulHolds`, `PolicyCurrentAtClaimHolds`, under
  no assumption: what the rows and the answers say does not depend on readable
  replies. `RequestInv` says what a request on the wire is for.
* `BlockedNeverSentHolds`, under the two: `BlockInv` ties a block to rows that
  nothing reopens.
* `RefinesPromise`, under the two: `Spec => KeepsPromise`. `StoryInv` adds the
  story claims, of which one at most is held by a draft that is reserved or shown
  within the window; `DetailInv` is `IInv`, `RequestInv`, `ReceiptsTruthful` and it. Each step is one of ChannelPromise or invisible to the reader.

### Scheduler (`SchedulerProofs`), for any drafts, workers and bounds

* `TypeCorrect`: types, and every statement of the scheduler satisfies the CHECK
  constraints of `news_bot_settings`. The strengthening adds that a claim is always
  for a run (`ClaimHasRun`), without which a checkpoint could be written to a row
  with no run, and `ReceiptOfDraft`.
* `OccurrenceImmutableHolds`: snapshot and checkpoints do not change while a run
  lasts; `ReceiptOfDraft` is why a second worker's receipt is the same one.
* `OneArticlePerRunHolds`, `HonestStatusHolds`: stalls, takeovers and skewed clocks
  included. A worker that was overtaken goes on with what it knew, so `ExecutionInv`
  says what an execution may still know: which run it claimed (`Claims`), what its
  program point says of the draft it is bound to (`Knows`), that executions of one
  run are bound to one draft and one of them sends it (`Agree`), and that what was
  sent for a run is that run's draft (`RunInv`).
* `OneReviewAtATimeHolds`, for `~Stalls`: an execution looks for an open review and
  delivers its own much later. `SteadyInv` says that only the holder of the claim
  executes, so that no other occurrence delivers in between, and that nothing renews the
  review of an occurrence that is over. Sessions that run out and reviews of `/news`
  jobs, which open and end at any time, are included. A worker that stalls is taken over
  and delivers a second one, which is why `sched_sequence` has none either.

### `/news` (`NewsJobsProofs`), for any requests, channels, workers, drafts and budgets

* `TypeCorrect`: types, and every statement satisfies the CHECK constraints and the
  partial unique indexes of `telegram_news_jobs`, stalls included.
* `RefinesPromise`: the queue implements RequestPromise, stalls included. Neither is
  inductive. `IInv` adds `Budgets` (a job is worked on only while its attempts last, or
  a counter would pass its bound), `AnsweredWhenSettled` (a retry clears an outcome
  that was not there, so it shows the promise nothing), `Equipped` and `CheckpointInv`
  (what a worker records names a draft exactly if it is about one) and `Placed` (who
  delivers delivers a settled job, even if the claim is gone; who completes has told).
  The proof takes each step to one of the promise (`EnqueueShows` ... `CompleteShows`)
  or to a stutter (`SamePhase`, `OthersShowNothing`).
* `OneArticlePerRequestHolds`, `OutcomeIsCheckpointedHolds`, `ToldTheTruthHolds`, for
  `~Stalls`. `SoloInv` says that work is done under a claim its worker holds
  (`Holding`), that what a worker has in hand is its request's and is checkpointed
  before it is approved, published or recorded (`Knows`), that a draft anyone decided
  on is the checkpointed one of its request (`Traced`), and that what was told is the
  outcome and the outcome the checkpoint's (`Telling`). The hypothesis is needed: the
  heartbeat's answer is dropped, so that a worker that lost its claim while it stalled
  sends a draft of its own (Remarks).

### Telegram (`ConversationProofs`, `TelegramReviewProofs`)

* `CursorsCorrect`, `UpdatesPromiseHolds`: what Telegram forgets is accounted for, and
  a closed update stays closed, for any updates, pollers and faults. `HandledInv` says
  that a control update is completed only after its outcome, with the message that
  requires, or its refusal. `CursorInv` is why: below
  a poller's offset, and below the first update in its hands, everything is closed in
  the ledger, for an overtaken poller too. The least of a batch exists by
  well-foundedness (`MinIsLeast`).
* `ReviewPromiseHolds`: the draft follows the one decision, and a preview is inert
  until the session is bound to it, for any deliveries and presses. `ReviewInv` says
  which previews a delivery may bind or activate, and that one press sends.
* `PollsAsUpdates`: TelegramReview, which has the review use case in the handler's
  place, implements TelegramUpdates, whose handler may do anything.
  `NoPressIsSwallowedHolds`, for any presses, pollers and faults: `ToldInv` says that
  a press past its presentation was told of a publication, or its draft is rejected or
  blocked (`HeardOf`); `PressPromiseHolds` adds `AnswersAreTrueHolds` to it.
  `TypeCorrect` and `ReviewPromiseKept` are proved of the composition too. Its
  assumption `MaxPreviews >= 1` says that a preview can be sent at all.

### Panels and hours (`ConversationProofs`)

* `SettingsPromiseHolds`, for any panels, topics, versions and prompts. A version
  stands for what its row shows: `RowInv` keeps what a menu of each version would
  show (`drawn`) and that what was read of the row is what its version shows, so that
  the compare-and-set on the version is one on the contents. `PanelInv` adds that
  what a handler is about to save is valid by the limits it checked, `PauseInv` that
  whoever is about to switch an unresolved schedule on read it before the pause or
  after its reconciliation, `PromptInv` that a prompt is bound, in one hand, or gone.
* `LabsPromiseHolds`, for any features and handlers: what a button or a handler holds
  of a flag is no newer than the flag, and is the flag while the version is the same.
* `NightPromiseHolds`, for any clock: `NextIsFirst` computes, for a night of which any
  part precedes the change of clocks, that `NextAllowed` answers the first hour out of
  the night. It needs two assumptions: the clocks change at 01:00 UTC
  (`ShiftHour % 24 = 1`), and an interval is a day at most, as the CHECK constraint on
  `schedule_interval_minutes` has it.
* `ConversationIsTyped`, `PanelsKeepTheirPromise`, `ConversationKeepsItsPromises`: the
  same of updates, reviews, panels and hours in one specification.

### Research (`ResearchProofs`), for any runners, candidates, windows and faults

`ResearchInv`: `WindowInv` (the windows to come have no run yet), `KeptInv` (by a
runner's program point, what it has kept is new, compared or left out, and what is
compared passed, unless another runner wrote over the decision) and `DraftedInv`
(whoever still holds a drafted article lost its lease to the run that drafted it).
From it `TheDraftWasCompared`, `ArticlesStaySettled`, `SearchRunsKeepTheirOutcome` and
`FilteredSearchesWere`. A runner that was overtaken goes on until it looks at its
lease, which is why the comparison of a draft may have been written over since
(`Overtaken`). A feed brings finitely many candidates (`Brings`).

### Services (`ServicesProofs`)

* `MilestonesPromiseHolds`: a milestone is announced once and recorded truthfully,
  for any posts, senders, distance and faults. `OwnerInv`: the row is taken while its
  sender is not at rest, by that sender alone.
* `CascadeKeepsItsPromise`, for any callers, providers and thresholds. `StormInv`
  counts: while a breaker is closed its throttled calls brought `SearchAttempts`
  replies each at most; once it is open, only the calls under way when it opened add
  to them, so that the storm and what they may still bring stay under the ceiling.
* `RouterKeepsItsPromise`, for any catalogue and preferences: a walk that failed has
  been through the list it was given (`WalkInv`).
* `ReadinessIsTrue`, for any runtimes over one file: `WorkerInv` says when a file may
  be a runtime's, `ProbeInv` what a probe half way may conclude.
* `CoordinatorStopsWell`, for any list of workers: what was started is among the
  attempted, and a stop reaches all of those.
* `PolicyHolds`, for any batch and pool: `TopicInv` counts that what was taken from
  the batch is in flight or has returned, once each.

### Operations (`OperationsProofs`)

* `SourcesPromiseHolds`: `FailuresCounted` (the failures of a row are the scans that
  recorded no success since) and `SearchesPaused` (a search that is under way, or was
  paid for, is within its pause, and no other is under way).
* `DraftPromiseHolds`: `Grounded` (the evidence is what was given until corroboration
  ends, and its outcome says what was added), `Allowed` (evidence that is not primary
  is allowed by the time it is used) and `Marks` (mark and notes follow the evidence).
* `DeploymentPromiseHolds`: `Ahead` (what each command leaves behind), `Migrated` (the
  migrations of every image that runs, may run next or may come back are applied),
  `Untouched` and `WayBack` (what the script remembers of a change, and what a rollback
  finds and has restored).
* `CompletedIsFinalHolds`: a completed row of the outbox is a finished page and is not
  opened again. `DeliveredInv` needs no bound on batches.
* `OpsInv` puts the invariants side by side, with what the types need besides
  (`BatchesInv`, `NotesInv`, `GateInv`). From it `OperationsAreTyped` and the promises
  of the run: `CurationKeepsItsPromise`, `RuntimeKeepsItsPromise`,
  `ProvidersKeepTheirPromise`, `DeliveredIsFinal`, `OperationsKeepTheirPromises`.

### Assumptions

Besides the type of each constant: a mark for "none" is not one of the values it marks
the absence of (`None`, `Never`, `NoReply`, `NoModel`, `NoProvider`, `Unclaimed`);
what is counted or searched for a least element is finite (callers, slots, topics,
what a runner finds); there is a preset to begin with, and at least one attempt,
preview, threshold and candidate of a batch where the code has a positive constant.
None bounds how many processes, rows or failures there are.

### Only model-checked

* Liveness: `PublicationResolves`, `RunsEnd`, `RequestsAreClosed`, `ApprovalIsActedOn`,
  `EveryUpdateIsClosed`, `OperationsEnd`. It needs fairness and ENABLED, which are out
  of the prover's reach.
* What holds on hypotheses that a run drops is refuted there (`pub_garbled_reply`), or
  described in the Remarks.
* The three violation runs, which show behaviours and prove nothing.

## 5. What would come next

The JavaScript originals (section 6), should the rollback entry point be used again;
the notifications and the audit record of a scheduled run; the text of status and list
commands. Of what is modelled, liveness is the part without a proof.

## 6. What is not modelled

* Prompts, HTTP, parsing, scoring and wording: text, or any outcome in the models.
* The JavaScript originals of the typed services (`src/research.js`,
  `src/news-repository.js`, `src/telegram-control.js`, `src/telegram-polling.js`,
  `src/telegram-news-jobs.js`, `src/news-scheduler.js`, `src/pipeline.js`). What is
  modelled is the runtime production runs (`ops/production-runtime.env` sets
  `BOT_ENTRYPOINT` to `dist/composition/runtime-entry.js`); `src/telegram-bot.js`, the
  default of `compose.yaml` and the `Dockerfile`, is its rollback and, with the command
  line tools, all that reaches the originals. They share the database functions with
  their twins.
* `checks/`: test applications of the same services, another large share.
* The texts of status and help; the article publication of `send-message`.
* Pure algorithms over text (window widening, URL canonicalisation).
* Telemetry rows; the integration stage, backups and bootstrap scripts.

## Running

    tlc -workers 2 -config PubResolves.cfg MCPublication
    tlc -workers 2 -config Operations.cfg MCOperations
    tlapm PublicationProofs.tla      (and the other modules named ...Proofs)
