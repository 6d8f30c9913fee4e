---------------------------- MODULE Publication ----------------------------
(***************************************************************************)
(* Publication of approved drafts to one Telegram channel.                 *)
(*                                                                         *)
(* A publisher is one execution of PublishApprovedDraftUseCase.execute     *)
(* (src/editorial/application/publish-approved-draft.use-case.ts), started *)
(* by the scheduler, a /news job, a review button or the drafts CLI.       *)
(* Executions run concurrently, crash between any two steps, and share     *)
(* only the database.  Every plpgsql function takes row locks and commits  *)
(* or rolls back as a whole, so each call is one action.                   *)
(*                                                                         *)
(* Data abstracted away: a draft stands for its row and its article's row  *)
(* (create_review_draft makes at most one draft per article); the body and *)
(* its SHA-256 are left out because no statement updates drafts.body after *)
(* the insert, so 'outbound_changed' cannot occur; the channel id is the   *)
(* deployment's one TELEGRAM_CHANNEL_ID; a Telegram message is named by    *)
(* the execution that sent it, because an execution sends at most once.    *)
(***************************************************************************)
EXTENDS Naturals, FiniteSets

CONSTANTS
  Drafts,           \* draft rows, each with its own article row
  Publishers,       \* executions of the publish use case
  Stories,          \* story fingerprints
  Story,            \* the fingerprint recorded for a draft, or None
  None,             \* SQL null
  MaxVersion,       \* bound on news_bot_settings.version
  GarbledReplies,   \* may Telegram's success reply be cut off mid-body?
  OperatorWaits     \* does the operator wait for live executions before
                    \* confirming TELEGRAM_NOT_SENT?

ASSUME PublicationAssumption ==
  /\ None \notin Drafts \cup Publishers \cup Stories
  /\ Story \in [Drafts -> Stories \cup {None}]
  /\ MaxVersion \in Nat
  /\ GarbledReplies \in BOOLEAN
  /\ OperatorWaits \in BOOLEAN

VARIABLES
  draftStatus,      \* drafts.status; "absent" before the row exists
  articleStatus,    \* articles.status of the draft's article
  posts,            \* published_posts.telegram_message_id by draft, or None
  claimDraft,       \* story_publication_claims.draft_id by story, or None
  claimStatus,      \* story_publication_claims.status by story
  agedClaims,       \* stories whose published claim is older than 14 days
  blocks,           \* drafts with a publication_policy_blocks row
  doubted,          \* drafts whose story decision forbids publication
  settings,         \* [version, topicsOn] of news_bot_settings
  pc,               \* where each execution is in execute()
  target,           \* input.draftId of the execution
  attempt,          \* the bounded retry's loop variable
  version,          \* settings.version the execution classified under
  result,           \* how the execution returned or threw
  wire,             \* the execution's sendMessage request
  channel           \* executions whose message is on the channel

dbVars      == <<draftStatus, articleStatus, posts, claimDraft, claimStatus,
                 agedClaims, blocks, doubted, settings>>
processVars == <<pc, target, attempt, version, result>>
telegramVars == <<wire, channel>>
vars        == <<dbVars, processVars, telegramVars>>

DraftStatus   == {"absent", "review", "approved", "publishing", "published",
                  "rejected"}
ArticleStatus == {"discovered", "drafted", "approved", "published", "rejected"}
ClaimStatus   == {"none", "publishing", "published"}
Point         == {"idle", "findBlock", "readSettings", "claim", "block",
                  "send", "await", "release", "finalize", "done"}
Result        == {"none", "published", "already_published", "blocked",
                  "already_blocked", "stale_settings", "not_publishable",
                  "duplicate_story", "rejected", "unresolved", "failed",
                  "crashed"}
Wire          == {"none", "sent", "accepted", "refused", "lost"}

TypeOK ==
  /\ draftStatus \in [Drafts -> DraftStatus]
  /\ articleStatus \in [Drafts -> ArticleStatus]
  /\ posts \in [Drafts -> Publishers \cup {None}]
  /\ claimDraft \in [Stories -> Drafts \cup {None}]
  /\ claimStatus \in [Stories -> ClaimStatus]
  /\ agedClaims \subseteq Stories
  /\ blocks \subseteq Drafts
  /\ doubted \subseteq Drafts
  /\ settings \in [version : Nat, topicsOn : BOOLEAN]
  /\ pc \in [Publishers -> Point]
  /\ target \in [Publishers -> Drafts \cup {None}]
  /\ attempt \in [Publishers -> {0, 1}]
  /\ version \in [Publishers -> Nat]
  /\ result \in [Publishers -> Result]
  /\ wire \in [Publishers -> Wire]
  /\ channel \subseteq Publishers

Init ==
  /\ draftStatus = [d \in Drafts |-> "absent"]
  /\ articleStatus = [d \in Drafts |-> "discovered"]
  /\ posts = [d \in Drafts |-> None]
  /\ claimDraft = [s \in Stories |-> None]
  /\ claimStatus = [s \in Stories |-> "none"]
  /\ agedClaims = {}
  /\ blocks = {}
  /\ doubted = {}
  /\ settings \in [version : {1}, topicsOn : BOOLEAN]
  /\ pc = [p \in Publishers |-> "idle"]
  /\ target = [p \in Publishers |-> None]
  /\ attempt = [p \in Publishers |-> 0]
  /\ version = [p \in Publishers |-> 0]
  /\ result = [p \in Publishers |-> "none"]
  /\ wire = [p \in Publishers |-> "none"]
  /\ channel = {}

-----------------------------------------------------------------------------
(* Helper state formulas *)

(* The executions that hold the publication claim of draft d.              *)
Claiming == {"send", "await", "release", "finalize"}
Holders(d) == {p \in Publishers : target[p] = d /\ pc[p] \in Claiming}
InFlight(d) == {p \in Publishers : target[p] = d /\ wire[p] = "sent"}
Messages(d) == {p \in channel : target[p] = d}

Goto(p, point) == pc' = [pc EXCEPT ![p] = point]
Return(p, r) ==
  /\ Goto(p, "done")
  /\ result' = [result EXCEPT ![p] = r]

(* Mutants of Gate: the status check, or the version check, is left out.   *)
GateWithoutStatus(d, v) ==
  CASE posts[d] # None       -> "already_published"
    [] d \in blocks          -> "already_blocked"
    [] v # settings.version  -> "stale_settings"
    [] OTHER                 -> "open"
GateWithoutVersion(d, v) ==
  CASE posts[d] # None       -> "already_published"
    [] d \in blocks          -> "already_blocked"
    [] draftStatus[d] # "approved" -> "not_publishable"
    [] OTHER                 -> "open"

(* The checks claim_draft_for_publication_with_policy and                  *)
(* block_draft_publication make before anything else, in their order.      *)
Gate(d, v) ==
  CASE posts[d] # None                -> "already_published"
    [] posts[d] = None /\ d \in blocks -> "already_blocked"
    [] posts[d] = None /\ d \notin blocks /\ v # settings.version
                                      -> "stale_settings"
    [] posts[d] = None /\ d \notin blocks /\ v = settings.version
         /\ draftStatus[d] # "approved" -> "not_publishable"
    [] OTHER                          -> "open"

(* Mutant: any published claim is replaced, however recent.                *)
StoryFreeAnyAge(d) ==
  \A s \in Stories : Story[d] = s => claimStatus[s] # "publishing"

(* claim_draft_for_publication: the insert into story_publication_claims   *)
(* succeeds on a free key or replaces a published claim older than 14      *)
(* days; an uncertain or duplicate decision raises before it.              *)
StoryFree(d) ==
  \A s \in Stories : Story[d] = s =>
    \/ claimStatus[s] = "none"
    \/ claimStatus[s] = "published" /\ s \in agedClaims

ReserveStory(d) ==
  IF Story[d] = None
  THEN UNCHANGED <<claimDraft, claimStatus, agedClaims>>
  ELSE /\ claimDraft' = [claimDraft EXCEPT ![Story[d]] = d]
       /\ claimStatus' = [claimStatus EXCEPT ![Story[d]] = "publishing"]
       /\ agedClaims' = agedClaims \ {Story[d]}

(* delete from story_publication_claims where draft_id = d and 'publishing' *)
DropPublishingClaim(d) ==
  LET dropped == {s \in Stories : claimDraft[s] = d
                                  /\ claimStatus[s] = "publishing"}
  IN /\ claimDraft' = [s \in Stories |->
                         IF s \in dropped THEN None ELSE claimDraft[s]]
     /\ claimStatus' = [s \in Stories |->
                         IF s \in dropped THEN "none" ELSE claimStatus[s]]
     /\ UNCHANGED agedClaims

(* Mutants: a posted draft is put back too; only one without a story claim  *)
(* is.                                                                     *)
UnclaimableWithReceipt(d) == draftStatus[d] \in {"publishing", "published"}
UnclaimableWithoutStory(d) ==
  draftStatus[d] = "publishing" /\ posts[d] = None
  /\ \A s \in Stories : claimDraft[s] # d

(* reset_draft_publication and release_rejected_draft_publication share    *)
(* their body: a publishing draft without a receipt goes back to approved  *)
(* and its story claim is deleted.  Neither takes an ownership token.      *)
Unclaimable(d) == draftStatus[d] = "publishing" /\ posts[d] = None
BackToApproved(d) ==
  /\ Unclaimable(d)
  /\ draftStatus' = [draftStatus EXCEPT ![d] = "approved"]
  /\ DropPublishingClaim(d)
  /\ UNCHANGED <<articleStatus, posts, blocks, doubted, settings>>

(* finalize_draft_publication: raises (and rolls back) unless the draft is *)
(* publishing, its article approved, and the message id unrecorded.        *)
Finalizable(d, m) ==
  /\ draftStatus[d] = "publishing"
  /\ articleStatus[d] = "approved"
  /\ posts[d] = None
  /\ \A e \in Drafts : posts[e] # m
FinalizeDraftPublication(d, m) ==
  /\ Finalizable(d, m)
  /\ posts' = [posts EXCEPT ![d] = m]
  /\ draftStatus' = [draftStatus EXCEPT ![d] = "published"]
  /\ articleStatus' = [articleStatus EXCEPT ![d] = "published"]
  /\ claimStatus' = [s \in Stories |->
                       IF claimDraft[s] = d THEN "published" ELSE claimStatus[s]]
  /\ UNCHANGED <<claimDraft, agedClaims, blocks, doubted, settings>>

-----------------------------------------------------------------------------
(* Editorial commands *)

(* create_review_draft: discovered -> extracted -> reviewed -> drafted in  *)
(* one transaction; the lease it checks is modelled with the pipeline.     *)
CreateReviewDraft(d) ==
  /\ draftStatus[d] = "absent"
  /\ articleStatus[d] = "discovered"
  /\ draftStatus' = [draftStatus EXCEPT ![d] = "review"]
  /\ articleStatus' = [articleStatus EXCEPT ![d] = "drafted"]
  /\ UNCHANGED <<posts, claimDraft, claimStatus, agedClaims, blocks, doubted,
                 settings, processVars, telegramVars>>

ApproveDraft(d) ==
  /\ draftStatus[d] = "review"
  /\ articleStatus[d] = "drafted"
  /\ draftStatus' = [draftStatus EXCEPT ![d] = "approved"]
  /\ articleStatus' = [articleStatus EXCEPT ![d] = "approved"]
  /\ UNCHANGED <<posts, claimDraft, claimStatus, agedClaims, blocks, doubted,
                 settings, processVars, telegramVars>>

RejectDraft(d) ==
  /\ draftStatus[d] \in {"review", "approved"}
  /\ articleStatus[d] \in {"drafted", "approved"}
  /\ draftStatus' = [draftStatus EXCEPT ![d] = "rejected"]
  /\ articleStatus' = [articleStatus EXCEPT ![d] = "rejected"]
  /\ UNCHANGED <<posts, claimDraft, claimStatus, agedClaims, blocks, doubted,
                 settings, processVars, telegramVars>>

(* recordStoryDedupDecision is an unfenced upsert: a research run that     *)
(* lost its lease while classifying may overwrite the decision of an       *)
(* article that already has a draft.  A decision is "doubted" when it is   *)
(* uncertain or a duplicate (of an article that, being in the comparison   *)
(* set, is already published on the channel).                              *)
RecordStoryDecision(d) ==
  /\ draftStatus[d] # "absent"
  /\ doubted' \in {doubted \cup {d}, doubted \ {d}}
  /\ UNCHANGED <<draftStatus, articleStatus, posts, claimDraft, claimStatus,
                 agedClaims, blocks, settings, processVars, telegramVars>>

(* Every settings statement bumps version; topicsOn stands for a nonempty  *)
(* excluded_topic_codes.                                                   *)
UpdateSettings ==
  /\ settings.version < MaxVersion
  /\ \E on \in BOOLEAN :
       settings' = [version |-> settings.version + 1, topicsOn |-> on]
  /\ UNCHANGED <<draftStatus, articleStatus, posts, claimDraft, claimStatus,
                 agedClaims, blocks, doubted, processVars, telegramVars>>

(* updated_at of a published claim falls behind now() - 14 days.           *)
AgeClaim(s) ==
  /\ claimStatus[s] = "published"
  /\ agedClaims' = agedClaims \cup {s}
  /\ UNCHANGED <<draftStatus, articleStatus, posts, claimDraft, claimStatus,
                 blocks, doubted, settings, processVars, telegramVars>>

-----------------------------------------------------------------------------
(* One execution of PublishApprovedDraftUseCase *)

FindPublicationByDraft(p, d) ==
  /\ pc[p] = "idle"
  /\ draftStatus[d] # "absent"
  /\ target' = [target EXCEPT ![p] = d]
  /\ \/ posts[d] # None /\ Return(p, "already_published")
     \/ posts[d] = None /\ Goto(p, "findBlock") /\ UNCHANGED result
  /\ UNCHANGED <<dbVars, attempt, version, telegramVars>>

FindPublicationPolicyBlock(p) ==
  /\ pc[p] = "findBlock"
  /\ \/ target[p] \in blocks /\ Return(p, "already_blocked")
     \/ target[p] \notin blocks /\ Goto(p, "readSettings") /\ UNCHANGED result
  /\ UNCHANGED <<dbVars, target, attempt, version, telegramVars>>

(* getNewsSettings, then the classifier when topics are excluded.  The     *)
(* classifier shares no state, so its verdict (any answer but "allow", an  *)
(* error included, blocks) is drawn here.                                  *)
ReadSettings(p) ==
  /\ pc[p] = "readSettings"
  /\ version' = [version EXCEPT ![p] = settings.version]
  /\ \/ Goto(p, "claim")
     \/ settings.topicsOn /\ Goto(p, "block")
  /\ UNCHANGED <<dbVars, target, attempt, result, telegramVars>>

(* Stale settings are read again, once.  Mutant: as often as it takes.      *)
RetryUnbounded(p) == attempt' = [attempt EXCEPT ![p] = @ + 1]
RetryOnce(p) == attempt[p] = 0 /\ attempt' = [attempt EXCEPT ![p] = 1]

StaleSettings(p) ==
  /\ pc[p] \in {"claim", "block"}
  /\ Gate(target[p], version[p]) = "stale_settings"
  /\ RetryOnce(p)
  /\ Goto(p, "readSettings")
  /\ UNCHANGED <<dbVars, target, version, result, telegramVars>>

(* Any other outcome of the claim or the block but success.                *)
TurnedAway(p) ==
  LET outcome == Gate(target[p], version[p]) IN
  /\ pc[p] \in {"claim", "block"}
  /\ outcome # "open"
  /\ outcome = "stale_settings" => attempt[p] = 1
  /\ Return(p, outcome)
  /\ UNCHANGED <<dbVars, target, attempt, version, telegramVars>>

BlockDraftPublication(p) ==
  LET d == target[p] IN
  /\ pc[p] = "block"
  /\ Gate(d, version[p]) = "open"
  /\ blocks' = blocks \cup {d}
  /\ draftStatus' = [draftStatus EXCEPT ![d] = "rejected"]
  /\ articleStatus' = [articleStatus EXCEPT ![d] =
                         IF @ \in {"drafted", "approved"} THEN "rejected" ELSE @]
  /\ Return(p, "blocked")
  /\ UNCHANGED <<posts, claimDraft, claimStatus, agedClaims, doubted, settings,
                 target, attempt, version, telegramVars>>

(* Mutant: a draft that is being published is claimed once more.            *)
ClaimDraftForPublicationAgain(p) ==
  LET d == target[p] IN
  /\ pc[p] = "claim"
  /\ d \notin doubted
  /\ \/ Gate(d, version[p]) = "open" /\ StoryFree(d)
     \/ draftStatus[d] = "publishing"
  /\ ReserveStory(d)
  /\ draftStatus' = [draftStatus EXCEPT ![d] = "publishing"]
  /\ Goto(p, "send")
  /\ UNCHANGED <<articleStatus, posts, blocks, doubted, settings, target,
                 attempt, version, result, telegramVars>>

ClaimDraftForPublication(p) ==
  LET d == target[p] IN
  /\ pc[p] = "claim"
  /\ Gate(d, version[p]) = "open"
  /\ d \notin doubted
  /\ StoryFree(d)
  /\ ReserveStory(d)
  /\ draftStatus' = [draftStatus EXCEPT ![d] = "publishing"]
  /\ Goto(p, "send")
  /\ UNCHANGED <<articleStatus, posts, blocks, doubted, settings, target,
                 attempt, version, result, telegramVars>>

(* duplicate_story_publication / uncertain_story_publication are raised.   *)
ClaimRaises(p) ==
  /\ pc[p] = "claim"
  /\ Gate(target[p], version[p]) = "open"
  /\ target[p] \in doubted \/ ~StoryFree(target[p])
  /\ Return(p, "duplicate_story")
  /\ UNCHANGED <<dbVars, target, attempt, version, telegramVars>>

Send(p) ==
  /\ pc[p] = "send"
  /\ wire' = [wire EXCEPT ![p] = "sent"]
  /\ Goto(p, "await")
  /\ UNCHANGED <<dbVars, target, attempt, version, result, channel>>

(* A reply reaches callTelegram.  A reply that is not ok is a TelegramError *)
(* and counts as a definitive rejection; so is a success whose body cannot *)
(* be parsed, since response.json().catch(() => null) leaves no payload.   *)
ReadReply(p) ==
  /\ pc[p] = "await"
  /\ \/ wire[p] = "accepted" /\ Goto(p, "finalize")
     \/ wire[p] = "accepted" /\ GarbledReplies /\ Goto(p, "release")
     \/ wire[p] = "refused" /\ Goto(p, "release")
  /\ UNCHANGED <<dbVars, target, attempt, version, result, telegramVars>>

(* Mutant: a request without a reply counts as rejected.                   *)
LoseReplyAsRejection(p) ==
  /\ pc[p] \in {"send", "await"}
  /\ Goto(p, "release")
  /\ UNCHANGED <<dbVars, target, attempt, version, result, telegramVars>>

(* The message is rejected before it is sent, the request fails without a  *)
(* reply, the signal aborts it, or the receipt carries no message id.      *)
LoseReply(p) ==
  /\ pc[p] \in {"send", "await"}
  /\ Return(p, "unresolved")
  /\ UNCHANGED <<dbVars, target, attempt, version, telegramVars>>

ReleaseRejectedDraftPublication(p) ==
  /\ pc[p] = "release"
  /\ \/ BackToApproved(target[p]) /\ Return(p, "rejected")
     \/ ~Unclaimable(target[p]) /\ Return(p, "failed") /\ UNCHANGED dbVars
  /\ UNCHANGED <<target, attempt, version, telegramVars>>

(* Mutants: a receipt that cannot be stored releases the draft for retry;  *)
(* a failed insert is reported as published.                               *)
StoreReceiptOrRelease(p) ==
  /\ pc[p] = "finalize"
  /\ \/ FinalizeDraftPublication(target[p], p) /\ Return(p, "published")
     \/ BackToApproved(target[p]) /\ Return(p, "failed")
  /\ UNCHANGED <<target, attempt, version, telegramVars>>
StoreReceiptUnchecked(p) ==
  /\ pc[p] = "finalize"
  /\ \/ FinalizeDraftPublication(target[p], p)
     \/ UNCHANGED dbVars
  /\ Return(p, "published")
  /\ UNCHANGED <<target, attempt, version, telegramVars>>

(* The receipt is stored, or storing it fails; a commit whose answer is    *)
(* lost throws although the row is there.                                  *)
StoreReceipt(p) ==
  /\ pc[p] = "finalize"
  /\ \/ /\ FinalizeDraftPublication(target[p], p)
        /\ \E r \in {"published", "unresolved"} : Return(p, r)
     \/ Return(p, "unresolved") /\ UNCHANGED dbVars
  /\ UNCHANGED <<target, attempt, version, telegramVars>>

(* A database call fails or the signal aborts outside the send.            *)
Fail(p) ==
  /\ pc[p] \in {"findBlock", "readSettings", "claim", "block", "release"}
  /\ Return(p, "failed")
  /\ UNCHANGED <<dbVars, target, attempt, version, telegramVars>>

(* The process dies; its request, if sent, is still travelling.            *)
Crash(p) ==
  /\ pc[p] \notin {"idle", "done"}
  /\ Return(p, "crashed")
  /\ UNCHANGED <<dbVars, target, attempt, version, telegramVars>>

-----------------------------------------------------------------------------
(* The Telegram Bot API *)

TelegramAccepts(p) ==
  /\ wire[p] = "sent"
  /\ wire' = [wire EXCEPT ![p] = "accepted"]
  /\ channel' = channel \cup {p}
  /\ UNCHANGED <<dbVars, processVars>>

TelegramRefuses(p) ==
  /\ wire[p] = "sent"
  /\ wire' = [wire EXCEPT ![p] = "refused"]
  /\ UNCHANGED <<dbVars, processVars, channel>>

RequestLost(p) ==
  /\ wire[p] = "sent"
  /\ wire' = [wire EXCEPT ![p] = "lost"]
  /\ UNCHANGED <<dbVars, processVars, channel>>

-----------------------------------------------------------------------------
(* The operator: drafts reconcile-sent and reconcile-not-sent, used as     *)
(* docs/operations.md says, "after independently checking Telegram".       *)

ReconcileSent(d) ==
  /\ \E m \in Messages(d) : FinalizeDraftPublication(d, m)
  /\ UNCHANGED <<processVars, telegramVars>>

ReconcileNotSent(d) ==
  /\ Messages(d) = {}
  /\ OperatorWaits => Holders(d) = {} /\ InFlight(d) = {}
  /\ BackToApproved(d)
  /\ UNCHANGED <<processVars, telegramVars>>

-----------------------------------------------------------------------------

EditorialStep ==
  \/ \E d \in Drafts :
       \/ CreateReviewDraft(d)
       \/ ApproveDraft(d)
       \/ RejectDraft(d)
       \/ RecordStoryDecision(d)
  \/ UpdateSettings
  \/ \E s \in Stories : AgeClaim(s)

PublisherStep(p) ==
  \/ \E d \in Drafts : FindPublicationByDraft(p, d)
  \/ FindPublicationPolicyBlock(p)
  \/ ReadSettings(p)
  \/ StaleSettings(p)
  \/ TurnedAway(p)
  \/ BlockDraftPublication(p)
  \/ ClaimDraftForPublication(p)
  \/ ClaimRaises(p)
  \/ Send(p)
  \/ ReadReply(p)
  \/ LoseReply(p)
  \/ ReleaseRejectedDraftPublication(p)
  \/ StoreReceipt(p)
  \/ Fail(p)
  \/ Crash(p)

TelegramStep(p) == TelegramAccepts(p) \/ TelegramRefuses(p) \/ RequestLost(p)

OperatorStep(d) == ReconcileSent(d) \/ ReconcileNotSent(d)

Next ==
  \/ EditorialStep
  \/ \E p \in Publishers : PublisherStep(p) \/ TelegramStep(p)
  \/ \E d \in Drafts : OperatorStep(d)

Spec == Init /\ [][Next]_vars

(* A request that is sent is answered or lost, a live execution moves on,  *)
(* and the operator works through the unresolved publications: the bot     *)
(* pauses the interval until "an operator reconciles the publication".     *)
Fairness ==
  /\ \A p \in Publishers : WF_vars(TelegramStep(p))
  /\ \A p \in Publishers : WF_vars(pc[p] # "idle" /\ PublisherStep(p))
  /\ \A d \in Drafts : WF_vars(OperatorStep(d))

FairSpec == Spec /\ Fairness

-----------------------------------------------------------------------------
(* Properties *)

(* A post is never published twice (README.md:86): over all crashes, lost  *)
(* replies, retries and reconciliations, the channel holds at most one     *)
(* message of a draft.                                                     *)
AtMostOnce ==
  \A p, q \in channel : target[p] = target[q] => p = q

(* An uncertain send parks the draft: a draft anyone may claim again has   *)
(* no execution sending it, no request travelling and no message on the    *)
(* channel.                                                                *)
ApprovedMeansUnsent ==
  \A d \in Drafts : draftStatus[d] = "approved" =>
    Holders(d) = {} /\ InFlight(d) = {} /\ Messages(d) = {}

(* Two executions never both believe they own one draft's publication.     *)
OneHolder ==
  \A p, q \in Publishers :
    pc[p] \in Claiming /\ pc[q] \in Claiming /\ target[p] = target[q] => p = q

(* published_posts never records a message that is not on the channel, or  *)
(* is another draft's; the draft and article rows agree with it, and with  *)
(* each other whenever finalize_draft_publication relies on it.            *)
ReceiptsTruthful ==
  \A d \in Drafts :
    /\ posts[d] # None => posts[d] \in channel /\ target[posts[d]] = d
    /\ posts[d] # None <=> draftStatus[d] = "published"
    /\ posts[d] # None <=> articleStatus[d] = "published"
    /\ draftStatus[d] \in {"approved", "publishing"}
         => articleStatus[d] = "approved"

(* A policy block is final: no message of a blocked draft is on, or on its *)
(* way to, the channel.                                                    *)
BlockedNeverSent ==
  \A d \in blocks :
    /\ draftStatus[d] = "rejected" /\ articleStatus[d] = "rejected"
    /\ Messages(d) = {} /\ InFlight(d) = {}

(* What execute() tells its caller is so: the caller finishes its schedule *)
(* or job on this answer.                                                  *)
AnswersTruthful ==
  \A p \in Publishers :
    /\ result[p] \in {"published", "already_published"}
         => posts[target[p]] # None
    /\ result[p] \in {"blocked", "already_blocked"} => target[p] \in blocks

(* A draft is claimed only by an execution that classified it under the    *)
(* settings still current, whatever changed while the classifier ran.      *)
PolicyCurrentAtClaim ==
  [][\A d \in Drafts :
       draftStatus[d] # "publishing" /\ draftStatus'[d] = "publishing" =>
         \E p \in Publishers :
           /\ target[p] = d /\ pc'[p] = "send"
           /\ version[p] = settings.version]_vars

(* No publication stays unresolved for ever: reconciliation can always     *)
(* succeed, whatever state the failure left behind.                        *)
PublicationResolves ==
  \A d \in Drafts : draftStatus[d] = "publishing" ~> draftStatus[d] # "publishing"

(* The promise to the reader, as an abstract specification.                *)
PhaseOf(d) ==
  IF Messages(d) # {} THEN "shown"
  ELSE IF draftStatus[d] = "publishing" THEN "reserved"
  ELSE IF draftStatus[d] = "rejected" THEN "closed"
  ELSE "open"

(* A message is old once its receipt is stored and its story's claim has    *)
(* aged, been replaced by another draft's or been deleted with that one.    *)
Old(d) ==
  /\ draftStatus[d] = "published"
  /\ claimDraft[Story[d]] # d \/ Story[d] \in agedClaims
Fresh(s) == \E d \in Drafts : Story[d] = s /\ Messages(d) # {} /\ ~Old(d)

Promise == INSTANCE ChannelPromise WITH
  MessageIds <- Publishers,
  phase <- [d \in Drafts |-> PhaseOf(d)],
  shown <- {<<p, target[p]>> : p \in channel},
  expired <- {s \in Stories : ~Fresh(s)}

(* The executions and the operator together implement the promise: every   *)
(* step of theirs is a promised step or invisible to the reader.           *)
KeepsPromise == Promise!PromiseSpec
=============================================================================
