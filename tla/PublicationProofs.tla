-------------------------- MODULE PublicationProofs --------------------------
(***************************************************************************)
(* Theorems about Publication, for any sets of drafts, executions and      *)
(* stories.                                                                *)
(***************************************************************************)
EXTENDS Publication, TLAPS

USE DEF DraftStatus, ArticleStatus, ClaimStatus, Point, Result, Wire

-----------------------------------------------------------------------------
(* Type correctness *)

(* The outcomes of claim_draft_for_publication_with_policy.                *)
LEMMA GateType ==
  ASSUME NEW d, NEW v
  PROVE  Gate(d, v) \in {"already_published", "already_blocked",
                         "stale_settings", "not_publishable", "open"}
  BY DEF Gate

(* Resetting and releasing keep the rows' types and touch nothing else.    *)
LEMMA BackToApprovedType ==
  ASSUME TypeOK, NEW d \in Drafts, BackToApproved(d)
  PROVE  /\ draftStatus' \in [Drafts -> DraftStatus]
         /\ claimDraft' \in [Stories -> Drafts \cup {None}]
         /\ claimStatus' \in [Stories -> ClaimStatus]
         /\ UNCHANGED <<agedClaims, articleStatus, posts, blocks, doubted,
                        settings>>
  BY DEF TypeOK, BackToApproved, DropPublishingClaim

(* So does finalize_draft_publication, which also stores the receipt.      *)
LEMMA FinalizeType ==
  ASSUME TypeOK, NEW d \in Drafts, NEW m \in Publishers,
         FinalizeDraftPublication(d, m)
  PROVE  /\ draftStatus' \in [Drafts -> DraftStatus]
         /\ articleStatus' \in [Drafts -> ArticleStatus]
         /\ posts' \in [Drafts -> Publishers \cup {None}]
         /\ claimStatus' \in [Stories -> ClaimStatus]
         /\ UNCHANGED <<claimDraft, agedClaims, blocks, doubted, settings>>
  BY DEF TypeOK, FinalizeDraftPublication

(* Every execution past its first step has a draft to work on.             *)
HasTarget == \A p \in Publishers : pc[p] # "idle" => target[p] \in Drafts

(* Every variable keeps its type, and an execution keeps its draft.        *)
THEOREM TypeCorrect == Spec => [](TypeOK /\ HasTarget)
<1>1. Init => TypeOK /\ HasTarget
  BY PublicationAssumption DEF Init, TypeOK, HasTarget
<1>2. TypeOK /\ HasTarget /\ [Next]_vars => (TypeOK /\ HasTarget)'
  <2> SUFFICES ASSUME TypeOK, HasTarget, [Next]_vars
               PROVE  TypeOK' /\ HasTarget'
    OBVIOUS
  <2> USE DEF TypeOK, HasTarget, dbVars, processVars, telegramVars
  <2>1. CASE EditorialStep
    BY <2>1 DEF EditorialStep, CreateReviewDraft, ApproveDraft, RejectDraft,
                RecordStoryDecision, UpdateSettings, AgeClaim
  <2>2. ASSUME NEW p \in Publishers, PublisherStep(p)
        PROVE  TypeOK' /\ HasTarget'
    <3> USE DEF Return, Goto
    <3>1. CASE \E d \in Drafts : FindPublicationByDraft(p, d)
      BY <3>1 DEF FindPublicationByDraft
    <3>2. CASE FindPublicationPolicyBlock(p)
      BY <3>2 DEF FindPublicationPolicyBlock
    <3>3. CASE ReadSettings(p)
      BY <3>3 DEF ReadSettings
    <3>4. CASE StaleSettings(p)
      BY <3>4 DEF StaleSettings, RetryOnce
    <3>5. CASE TurnedAway(p)
      BY <3>5, GateType DEF TurnedAway
    <3>6. CASE BlockDraftPublication(p)
      BY <3>6 DEF BlockDraftPublication
    <3>7. CASE ClaimDraftForPublication(p)
      BY <3>7, PublicationAssumption DEF ClaimDraftForPublication, ReserveStory
    <3>8. CASE ClaimRaises(p)
      BY <3>8 DEF ClaimRaises
    <3>9. CASE Send(p) \/ ReadReply(p) \/ LoseReply(p)
      BY <3>9 DEF Send, ReadReply, LoseReply
    <3>10. CASE ReleaseRejectedDraftPublication(p)
      BY <3>10, BackToApprovedType DEF ReleaseRejectedDraftPublication
    <3>11. CASE StoreReceipt(p)
      BY <3>11, FinalizeType DEF StoreReceipt
    <3>12. CASE Fail(p) \/ Crash(p)
      BY <3>12 DEF Fail, Crash
    <3> QED
      BY <2>2, <3>1, <3>2, <3>3, <3>4, <3>5, <3>6, <3>7, <3>8, <3>9, <3>10,
         <3>11, <3>12 DEF PublisherStep
  <2>3. ASSUME NEW p \in Publishers, TelegramStep(p)
        PROVE  TypeOK' /\ HasTarget'
    BY <2>3 DEF TelegramStep, TelegramAccepts, TelegramRefuses, RequestLost
  <2>4. ASSUME NEW d \in Drafts, OperatorStep(d)
        PROVE  TypeOK' /\ HasTarget'
    <3>1. CASE ReconcileSent(d)
      BY <3>1, FinalizeType DEF ReconcileSent, Messages
    <3>2. CASE ReconcileNotSent(d)
      BY <3>2, BackToApprovedType DEF ReconcileNotSent
    <3> QED BY <2>4, <3>1, <3>2 DEF OperatorStep
  <2>5. CASE UNCHANGED vars
    BY <2>5 DEF vars
  <2> QED BY <2>1, <2>2, <2>3, <2>4, <2>5 DEF Next
<1> QED BY <1>1, <1>2, PTL DEF Spec

-----------------------------------------------------------------------------
(* At most one message of a draft                                          *)
(*                                                                         *)
(* The two assumptions are about what the code does not control: Telegram's*)
(* success replies are readable, and the operator confirms "not sent" only *)
(* once nothing of the draft is live.  Run pub_garbled_reply shows that the*)
(* first cannot be dropped.                                                *)

(* An execution is exposed while its message is, or may come to be, on the *)
(* channel without the draft's row saying published.                       *)
Exposed(p) == pc[p] \in Claiming \/ wire[p] = "sent" \/ p \in channel

(* The request an execution has made, by where the execution is.           *)
WireInv ==
  \A p \in Publishers :
    /\ pc[p] \notin {"await", "release", "finalize", "done"} => wire[p] = "none"
    /\ pc[p] = "release" => wire[p] = "refused"
    /\ p \in channel <=> wire[p] = "accepted"

(* An exposed draft is out of reach of every claim, approval and rejection,*)
(* and is exposed once.                                                    *)
ExposureInv ==
  /\ \A p \in Publishers : Exposed(p) =>
       draftStatus[target[p]] \in {"publishing", "published"}
  /\ \A p, q \in Publishers :
       Exposed(p) /\ Exposed(q) /\ target[p] = target[q] => p = q

IInv == TypeOK /\ HasTarget /\ WireInv /\ ExposureInv

(* A step that exposes no further execution and touches the status of      *)
(* unexposed drafts only keeps ExposureInv.                                *)
LEMMA ExposureKept ==
  ASSUME TypeOK, ExposureInv, WireInv, HasTarget,
         \A p \in Publishers : Exposed(p)' => Exposed(p) /\ target'[p] = target[p],
         \A d \in Drafts : draftStatus'[d] # draftStatus[d] =>
           \/ draftStatus'[d] \in {"publishing", "published"}
           \/ \A p \in Publishers : target[p] = d => ~Exposed(p)'
  PROVE  ExposureInv'
<1> SUFFICES
      ASSUME NEW p \in Publishers, Exposed(p)'
      PROVE  /\ draftStatus'[target'[p]] \in {"publishing", "published"}
             /\ \A q \in Publishers :
                  Exposed(q)' /\ target'[p] = target'[q] => p = q
  BY DEF ExposureInv
<1>1. Exposed(p) /\ target'[p] = target[p] OBVIOUS
<1>2. target[p] \in Drafts
  BY <1>1 DEF Exposed, Claiming, WireInv, HasTarget
<1>3. draftStatus[target[p]] \in {"publishing", "published"}
  BY <1>1 DEF ExposureInv
<1>4. draftStatus'[target'[p]] \in {"publishing", "published"}
  BY <1>1, <1>2, <1>3
<1>5. \A q \in Publishers : Exposed(q)' /\ target'[p] = target'[q] => p = q
  BY <1>1 DEF ExposureInv
<1> QED BY <1>4, <1>5

(* Without garbled replies and with an operator who waits, every step of   *)
(* executions, Telegram, operator and settings keeps the invariant.        *)
LEMMA Inductive ==
  ASSUME ~GarbledReplies, OperatorWaits, IInv, (TypeOK /\ HasTarget)', [Next]_vars
  PROVE  WireInv' /\ ExposureInv'
<1> USE DEF IInv, dbVars, processVars, telegramVars
<1>1. CASE EditorialStep
  <2>1. WireInv'
    BY <1>1 DEF WireInv, EditorialStep, CreateReviewDraft, ApproveDraft,
         RejectDraft, RecordStoryDecision, UpdateSettings, AgeClaim
  <2>2. \A p \in Publishers : Exposed(p)' => Exposed(p) /\ target'[p] = target[p]
    BY <1>1 DEF Exposed, EditorialStep, CreateReviewDraft, ApproveDraft,
         RejectDraft, RecordStoryDecision, UpdateSettings, AgeClaim
  <2>3. ASSUME NEW d \in Drafts, draftStatus'[d] # draftStatus[d]
        PROVE  \A p \in Publishers : target[p] = d => ~Exposed(p)'
    <3>1. draftStatus[d] \in {"absent", "review", "approved"}
      BY <1>1, <2>3 DEF EditorialStep, CreateReviewDraft, ApproveDraft,
           RejectDraft, RecordStoryDecision, UpdateSettings, AgeClaim, TypeOK
    <3> QED BY <3>1, <2>2 DEF ExposureInv
  <2> QED BY <2>1, <2>2, <2>3, ExposureKept
<1>2. ASSUME NEW p \in Publishers, PublisherStep(p)
      PROVE  WireInv' /\ ExposureInv'
  <2> USE DEF Return, Goto, Claiming
  <2>1. CASE \/ \E d \in Drafts : FindPublicationByDraft(p, d)
             \/ FindPublicationPolicyBlock(p)
             \/ ReadSettings(p)
             \/ StaleSettings(p)
             \/ TurnedAway(p)
             \/ ClaimRaises(p)
    <3>1. UNCHANGED <<draftStatus, wire, channel>>
      BY <2>1 DEF FindPublicationByDraft, FindPublicationPolicyBlock,
           ReadSettings, StaleSettings, TurnedAway, ClaimRaises
    <3>2. /\ pc[p] \notin Claiming /\ pc[p] \notin {"done"}
          /\ pc'[p] \notin Claiming
          /\ \A q \in Publishers \ {p} :
               pc'[q] = pc[q] /\ target'[q] = target[q]
      BY <2>1 DEF FindPublicationByDraft, FindPublicationPolicyBlock,
           ReadSettings, StaleSettings, TurnedAway, ClaimRaises, TypeOK
    <3>3. wire[p] = "none" /\ p \notin channel
      BY <3>2 DEF WireInv
    <3>4. WireInv'
      BY <3>1, <3>2, <3>3 DEF WireInv
    <3>5. \A q \in Publishers : Exposed(q)' => Exposed(q) /\ target'[q] = target[q]
      BY <3>1, <3>2, <3>3 DEF Exposed
    <3> QED BY <3>1, <3>4, <3>5, ExposureKept
  <2>2. CASE BlockDraftPublication(p)
    <3>1. draftStatus[target[p]] = "approved" /\ target[p] \in Drafts
      BY <2>2 DEF BlockDraftPublication, Gate, HasTarget, TypeOK
    <3>2. \A q \in Publishers : target[q] = target[p] => ~Exposed(q)
      BY <3>1 DEF ExposureInv
    <3>3. WireInv'
      BY <2>2 DEF BlockDraftPublication, WireInv, TypeOK
    <3>4. \A q \in Publishers : Exposed(q)' => Exposed(q) /\ target'[q] = target[q]
      BY <2>2 DEF BlockDraftPublication, Exposed, TypeOK
    <3>5. \A d \in Drafts : draftStatus'[d] # draftStatus[d] => d = target[p]
      BY <2>2 DEF BlockDraftPublication, TypeOK
    <3> QED BY <3>2, <3>3, <3>4, <3>5, ExposureKept
  <2>3. CASE ClaimDraftForPublication(p)
    <3>1. draftStatus[target[p]] = "approved" /\ target[p] \in Drafts
      BY <2>3 DEF ClaimDraftForPublication, Gate, HasTarget, TypeOK
    <3>2. \A q \in Publishers : target[q] = target[p] => ~Exposed(q)
      BY <3>1 DEF ExposureInv
    <3>3. WireInv'
      BY <2>3 DEF ClaimDraftForPublication, WireInv, TypeOK
    <3>4. \A q \in Publishers \ {p} : Exposed(q)' => Exposed(q)
      BY <2>3 DEF ClaimDraftForPublication, Exposed, TypeOK
    <3>5. UNCHANGED target
      BY <2>3 DEF ClaimDraftForPublication
    <3>6. draftStatus' = [draftStatus EXCEPT ![target[p]] = "publishing"]
      BY <2>3 DEF ClaimDraftForPublication
    <3>7. ASSUME NEW q \in Publishers, Exposed(q)'
          PROVE  draftStatus'[target'[q]] \in {"publishing", "published"}
      <4>1. CASE q = p
        BY <4>1, <3>1, <3>5, <3>6 DEF TypeOK
      <4>2. CASE q # p
        <5>1. Exposed(q) BY <4>2, <3>4, <3>7
        <5>2. target[q] # target[p] BY <5>1, <3>2
        <5>3. draftStatus[target[q]] \in {"publishing", "published"}
          BY <5>1 DEF ExposureInv
        <5> QED BY <5>2, <5>3, <3>1, <3>5, <3>6 DEF TypeOK
      <4> QED BY <4>1, <4>2
    <3>8. ASSUME NEW q \in Publishers, NEW r \in Publishers,
                 Exposed(q)', Exposed(r)', target'[q] = target'[r]
          PROVE  q = r
      BY <3>2, <3>4, <3>5, <3>8 DEF ExposureInv
    <3> QED BY <3>3, <3>7, <3>8 DEF ExposureInv
  <2>4. CASE Send(p) \/ ReadReply(p) \/ LoseReply(p) \/ Fail(p) \/ Crash(p)
    <3>1. UNCHANGED <<draftStatus, target, channel>>
      BY <2>4 DEF Send, ReadReply, LoseReply, Fail, Crash
    <3>2. WireInv'
      BY <2>4 DEF Send, ReadReply, LoseReply, Fail, Crash, WireInv, TypeOK
    <3>3. \A q \in Publishers : Exposed(q)' => Exposed(q)
      BY <2>4 DEF Send, ReadReply, LoseReply, Fail, Crash, Exposed, TypeOK
    <3> QED BY <3>1, <3>2, <3>3, ExposureKept
  <2>5. CASE ReleaseRejectedDraftPublication(p)
    <3>1. UNCHANGED <<target, wire, channel>> /\ pc' = [pc EXCEPT ![p] = "done"]
      BY <2>5 DEF ReleaseRejectedDraftPublication
    <3>2. pc[p] = "release" /\ wire[p] = "refused" /\ p \notin channel
      BY <2>5 DEF ReleaseRejectedDraftPublication, WireInv
    <3>3. WireInv'
      BY <3>1, <3>2 DEF WireInv, TypeOK
    <3>4. \A q \in Publishers : Exposed(q)' => Exposed(q)
      BY <3>1, <3>2 DEF Exposed, TypeOK
    <3>5. ~Exposed(p)'
      BY <3>1, <3>2 DEF Exposed, TypeOK
    <3>6. \A d \in Drafts : draftStatus'[d] # draftStatus[d] => d = target[p]
      BY <2>5 DEF ReleaseRejectedDraftPublication, BackToApproved, TypeOK
    <3>7. \A q \in Publishers : Exposed(q)' => target[q] # target[p]
      BY <3>2, <3>4, <3>5 DEF ExposureInv, Exposed
    <3> QED BY <3>1, <3>3, <3>4, <3>6, <3>7, ExposureKept
  <2>6. CASE StoreReceipt(p)
    <3>1. UNCHANGED <<target, wire, channel>> /\ pc' = [pc EXCEPT ![p] = "done"]
      BY <2>6 DEF StoreReceipt
    <3>2. WireInv'
      BY <2>6, <3>1 DEF StoreReceipt, WireInv, TypeOK
    <3>3. \A q \in Publishers : Exposed(q)' => Exposed(q)
      BY <3>1 DEF Exposed, TypeOK
    <3>4. \A d \in Drafts : draftStatus'[d] # draftStatus[d]
            => draftStatus'[d] = "published"
      BY <2>6 DEF StoreReceipt, FinalizeDraftPublication, TypeOK
    <3> QED BY <3>1, <3>2, <3>3, <3>4, ExposureKept
  <2> QED
    BY <1>2, <2>1, <2>2, <2>3, <2>4, <2>5, <2>6 DEF PublisherStep
<1>3. ASSUME NEW p \in Publishers, TelegramStep(p)
      PROVE  WireInv' /\ ExposureInv'
  <2>1. UNCHANGED <<draftStatus, target, pc>> /\ wire[p] = "sent"
    BY <1>3 DEF TelegramStep, TelegramAccepts, TelegramRefuses, RequestLost
  <2>2. WireInv'
    BY <1>3, <2>1 DEF TelegramStep, TelegramAccepts, TelegramRefuses,
         RequestLost, WireInv, TypeOK
  <2>3. \A q \in Publishers : Exposed(q)' => Exposed(q)
    BY <1>3, <2>1 DEF TelegramStep, TelegramAccepts, TelegramRefuses,
         RequestLost, Exposed, TypeOK
  <2> QED BY <2>1, <2>2, <2>3, ExposureKept
<1>4. ASSUME NEW d \in Drafts, OperatorStep(d)
      PROVE  WireInv' /\ ExposureInv'
  <2>1. UNCHANGED <<target, wire, channel, pc>>
    BY <1>4 DEF OperatorStep, ReconcileSent, ReconcileNotSent
  <2>2. WireInv' /\ \A q \in Publishers : Exposed(q)' <=> Exposed(q)
    BY <2>1 DEF WireInv, Exposed
  <2>3. CASE ReconcileSent(d)
    BY <2>1, <2>2, <2>3, ExposureKept
       DEF ReconcileSent, FinalizeDraftPublication, TypeOK
  <2>4. CASE ReconcileNotSent(d)
    <3>1. \A q \in Publishers : target[q] = d => ~Exposed(q)
      BY <2>4 DEF ReconcileNotSent, Holders, InFlight, Messages, Exposed
    <3>2. \A e \in Drafts : draftStatus'[e] # draftStatus[e] => e = d
      BY <2>4 DEF ReconcileNotSent, BackToApproved, TypeOK
    <3> QED BY <2>1, <2>2, <3>1, <3>2, ExposureKept
  <2> QED BY <1>4, <2>3, <2>4 DEF OperatorStep
<1>5. CASE UNCHANGED vars
  BY <1>5 DEF vars, WireInv, ExposureInv, Exposed, HasTarget
<1> QED BY <1>1, <1>2, <1>3, <1>4, <1>5 DEF Next

(* The inductive invariant holds in every reachable state.                 *)
THEOREM Invariance ==
  ASSUME ~GarbledReplies, OperatorWaits
  PROVE  Spec => []IInv
<1>1. Init => WireInv /\ ExposureInv
  BY DEF Init, WireInv, ExposureInv, Exposed, Claiming
<1>2. IInv /\ (TypeOK /\ HasTarget)' /\ [Next]_vars => (WireInv /\ ExposureInv)'
  BY Inductive
<1> QED BY <1>1, <1>2, TypeCorrect, PTL DEF Spec, IInv

(* For every number of drafts, executions and stories, and whatever        *)
(* crashes, lost replies, retries, resets and settings changes occur, no   *)
(* draft is on the channel twice.                                          *)
THEOREM AtMostOnceHolds ==
  ASSUME ~GarbledReplies, OperatorWaits
  PROVE  Spec => []AtMostOnce
<1>1. IInv => AtMostOnce
  BY DEF IInv, TypeOK, ExposureInv, Exposed, AtMostOnce
<1> QED BY <1>1, Invariance, PTL

(* A draft that may be claimed again was certainly not sent.               *)
THEOREM ApprovedMeansUnsentHolds ==
  ASSUME ~GarbledReplies, OperatorWaits
  PROVE  Spec => []ApprovedMeansUnsent
<1>1. IInv => ApprovedMeansUnsent
  BY DEF IInv, TypeOK, ExposureInv, Exposed, ApprovedMeansUnsent, Holders,
         InFlight, Messages
<1> QED BY <1>1, Invariance, PTL

(* Two executions never both hold a draft's publication claim.             *)
THEOREM OneHolderHolds ==
  ASSUME ~GarbledReplies, OperatorWaits
  PROVE  Spec => []OneHolder
<1>1. IInv => OneHolder
  BY DEF IInv, ExposureInv, Exposed, OneHolder
<1> QED BY <1>1, Invariance, PTL

-----------------------------------------------------------------------------
(* Rows, receipts and answers, whatever Telegram or the operator does      *)

(* An execution asks for nothing before it sends, stores only a message    *)
(* that was accepted, and has no answer before it returns.                 *)
RequestInv ==
  \A p \in Publishers :
    /\ pc[p] \notin {"await", "release", "finalize", "done"} => wire[p] = "none"
    /\ pc[p] = "finalize" => wire[p] = "accepted"
    /\ p \in channel <=> wire[p] = "accepted"
    /\ pc[p] # "done" => result[p] = "none"

(* Every step of executions, Telegram, operator and settings keeps it.     *)
LEMMA RequestKept ==
  ASSUME TypeOK, HasTarget, RequestInv, [Next]_vars
  PROVE  RequestInv'
<1> USE DEF TypeOK, RequestInv, dbVars, processVars, telegramVars
<1>1. CASE EditorialStep
  BY <1>1 DEF EditorialStep, CreateReviewDraft, ApproveDraft, RejectDraft,
              RecordStoryDecision, UpdateSettings, AgeClaim
<1>2. ASSUME NEW p \in Publishers, PublisherStep(p)
      PROVE  RequestInv'
  <2> USE DEF Return, Goto
  <2>1. CASE \E d \in Drafts : FindPublicationByDraft(p, d)
    BY <2>1 DEF FindPublicationByDraft
  <2>2. CASE FindPublicationPolicyBlock(p) \/ ReadSettings(p)
    BY <2>2 DEF FindPublicationPolicyBlock, ReadSettings
  <2>3. CASE StaleSettings(p) \/ TurnedAway(p) \/ ClaimRaises(p)
    BY <2>3 DEF StaleSettings, TurnedAway, ClaimRaises
  <2>4. CASE BlockDraftPublication(p)
    BY <2>4 DEF BlockDraftPublication
  <2>5. CASE ClaimDraftForPublication(p)
    BY <2>5 DEF ClaimDraftForPublication
  <2>6. CASE Send(p)
    BY <2>6 DEF Send
  <2>7. CASE ReadReply(p) \/ LoseReply(p)
    BY <2>7 DEF ReadReply, LoseReply
  <2>8. CASE ReleaseRejectedDraftPublication(p)
    BY <2>8 DEF ReleaseRejectedDraftPublication
  <2>9. CASE StoreReceipt(p)
    BY <2>9 DEF StoreReceipt
  <2>10. CASE Fail(p) \/ Crash(p)
    BY <2>10 DEF Fail, Crash
  <2> QED
    BY <1>2, <2>1, <2>2, <2>3, <2>4, <2>5, <2>6, <2>7, <2>8, <2>9, <2>10
       DEF PublisherStep
<1>3. ASSUME NEW p \in Publishers, TelegramStep(p)
      PROVE  RequestInv'
  BY <1>3 DEF TelegramStep, TelegramAccepts, TelegramRefuses, RequestLost
<1>4. CASE \E d \in Drafts : OperatorStep(d)
  BY <1>4 DEF OperatorStep, ReconcileSent, ReconcileNotSent
<1>5. CASE UNCHANGED vars
  BY <1>5 DEF vars
<1> QED BY <1>1, <1>2, <1>3, <1>4, <1>5 DEF Next

(* A message once on the channel stays there and stays its draft's.        *)
LEMMA MessagesStay ==
  ASSUME TypeOK, HasTarget, RequestInv, [Next]_vars
  PROVE  \A p \in channel : p \in channel' /\ target'[p] = target[p]
<1> USE DEF TypeOK, RequestInv, dbVars, processVars, telegramVars
<1>1. CASE EditorialStep
  BY <1>1 DEF EditorialStep, CreateReviewDraft, ApproveDraft, RejectDraft,
              RecordStoryDecision, UpdateSettings, AgeClaim
<1>2. ASSUME NEW p \in Publishers, PublisherStep(p)
      PROVE  \A q \in channel : q \in channel' /\ target'[q] = target[q]
  <2>1. channel' = channel
    BY <1>2 DEF PublisherStep, FindPublicationByDraft,
         FindPublicationPolicyBlock, ReadSettings, StaleSettings, TurnedAway,
         BlockDraftPublication, ClaimDraftForPublication, ClaimRaises, Send,
         ReadReply, LoseReply, ReleaseRejectedDraftPublication, StoreReceipt,
         Fail, Crash
  <2>2. CASE \E d \in Drafts : FindPublicationByDraft(p, d)
    BY <2>1, <2>2 DEF FindPublicationByDraft
  <2>3. CASE ~ \E d \in Drafts : FindPublicationByDraft(p, d)
    <3>1. target' = target
      BY <1>2, <2>3 DEF PublisherStep, FindPublicationPolicyBlock,
           ReadSettings, StaleSettings, TurnedAway, BlockDraftPublication,
           ClaimDraftForPublication, ClaimRaises, Send, ReadReply, LoseReply,
           ReleaseRejectedDraftPublication, StoreReceipt, Fail, Crash
    <3> QED BY <2>1, <3>1
  <2> QED BY <2>2, <2>3
<1>3. CASE \E p \in Publishers : TelegramStep(p)
  BY <1>3 DEF TelegramStep, TelegramAccepts, TelegramRefuses, RequestLost
<1>4. CASE \E d \in Drafts : OperatorStep(d)
  BY <1>4 DEF OperatorStep, ReconcileSent, ReconcileNotSent
<1>5. CASE UNCHANGED vars
  BY <1>5 DEF vars
<1> QED BY <1>1, <1>2, <1>3, <1>4, <1>5 DEF Next

(* What a step does to a draft's row and its article's row and receipt.    *)
LEMMA RowStep ==
  ASSUME TypeOK, HasTarget, RequestInv, ReceiptsTruthful, [Next]_vars,
         NEW d \in Drafts
  PROVE  \/ /\ draftStatus'[d] = draftStatus[d]
            /\ articleStatus'[d] = articleStatus[d]
            /\ posts'[d] = posts[d]
         \/ /\ draftStatus[d] = "absent" /\ draftStatus'[d] = "review"
            /\ articleStatus'[d] = "drafted" /\ posts'[d] = posts[d]
         \/ /\ draftStatus[d] = "review" /\ draftStatus'[d] = "approved"
            /\ articleStatus'[d] = "approved" /\ posts'[d] = posts[d]
         \/ /\ draftStatus[d] \in {"review", "approved"}
            /\ draftStatus'[d] = "rejected"
            /\ articleStatus'[d] = "rejected" /\ posts'[d] = posts[d]
         \/ /\ draftStatus[d] = "approved" /\ draftStatus'[d] = "publishing"
            /\ articleStatus'[d] = articleStatus[d] /\ posts'[d] = posts[d]
            /\ d \notin blocks
         \/ /\ draftStatus[d] = "publishing" /\ draftStatus'[d] = "approved"
            /\ articleStatus'[d] = articleStatus[d] /\ posts'[d] = posts[d]
         \/ /\ draftStatus[d] = "publishing" /\ draftStatus'[d] = "published"
            /\ articleStatus'[d] = "published"
            /\ posts'[d] \in channel /\ target[posts'[d]] = d
<1> USE DEF TypeOK, dbVars
<1>1. CASE EditorialStep
  BY <1>1 DEF EditorialStep, CreateReviewDraft, ApproveDraft, RejectDraft,
              RecordStoryDecision, UpdateSettings, AgeClaim
<1>2. ASSUME NEW p \in Publishers, PublisherStep(p),
             \/ BlockDraftPublication(p)
             \/ ClaimDraftForPublication(p)
             \/ ReleaseRejectedDraftPublication(p)
             \/ StoreReceipt(p)
      PROVE  \/ /\ draftStatus'[d] = draftStatus[d]
                /\ articleStatus'[d] = articleStatus[d]
                /\ posts'[d] = posts[d]
             \/ /\ draftStatus[d] = "approved" /\ draftStatus'[d] = "rejected"
                /\ articleStatus'[d] = "rejected" /\ posts'[d] = posts[d]
             \/ /\ draftStatus[d] = "approved" /\ draftStatus'[d] = "publishing"
                /\ articleStatus'[d] = articleStatus[d] /\ posts'[d] = posts[d]
                /\ d \notin blocks
             \/ /\ draftStatus[d] = "publishing" /\ draftStatus'[d] = "approved"
                /\ articleStatus'[d] = articleStatus[d] /\ posts'[d] = posts[d]
             \/ /\ draftStatus[d] = "publishing" /\ draftStatus'[d] = "published"
                /\ articleStatus'[d] = "published"
                /\ posts'[d] \in channel /\ target[posts'[d]] = d
  <2>1. CASE BlockDraftPublication(p)
    BY <2>1 DEF BlockDraftPublication, Gate, ReceiptsTruthful, HasTarget
  <2>2. CASE ClaimDraftForPublication(p)
    BY <2>2 DEF ClaimDraftForPublication, Gate, HasTarget
  <2>3. CASE ReleaseRejectedDraftPublication(p)
    BY <2>3 DEF ReleaseRejectedDraftPublication, BackToApproved, Unclaimable
  <2>4. CASE StoreReceipt(p)
    <3>1. p \in channel
      BY <2>4 DEF StoreReceipt, RequestInv
    <3> QED BY <2>4, <3>1 DEF StoreReceipt, FinalizeDraftPublication, Finalizable
  <2> QED BY <1>2, <2>1, <2>2, <2>3, <2>4
<1>3. ASSUME NEW p \in Publishers,
             \/ \E e \in Drafts : FindPublicationByDraft(p, e)
             \/ FindPublicationPolicyBlock(p) \/ ReadSettings(p)
             \/ StaleSettings(p) \/ TurnedAway(p) \/ ClaimRaises(p)
             \/ Send(p) \/ ReadReply(p) \/ LoseReply(p) \/ Fail(p) \/ Crash(p)
             \/ TelegramStep(p)
      PROVE  UNCHANGED <<draftStatus, articleStatus, posts>>
  BY <1>3 DEF FindPublicationByDraft, FindPublicationPolicyBlock, ReadSettings,
       StaleSettings, TurnedAway, ClaimRaises, Send, ReadReply, LoseReply, Fail,
       Crash, TelegramStep, TelegramAccepts, TelegramRefuses, RequestLost
<1>4. ASSUME NEW e \in Drafts, OperatorStep(e)
      PROVE  \/ /\ draftStatus'[d] = draftStatus[d]
                /\ articleStatus'[d] = articleStatus[d]
                /\ posts'[d] = posts[d]
             \/ /\ draftStatus[d] = "publishing" /\ draftStatus'[d] = "approved"
                /\ articleStatus'[d] = articleStatus[d] /\ posts'[d] = posts[d]
             \/ /\ draftStatus[d] = "publishing" /\ draftStatus'[d] = "published"
                /\ articleStatus'[d] = "published"
                /\ posts'[d] \in channel /\ target[posts'[d]] = d
  <2>1. CASE ReconcileSent(e)
    BY <2>1 DEF ReconcileSent, Messages, FinalizeDraftPublication, Finalizable
  <2>2. CASE ReconcileNotSent(e)
    BY <2>2 DEF ReconcileNotSent, BackToApproved, Unclaimable
  <2> QED BY <1>4, <2>1, <2>2 DEF OperatorStep
<1>5. CASE UNCHANGED vars
  BY <1>5 DEF vars
<1> QED
  BY <1>1, <1>2, <1>3, <1>4, <1>5 DEF Next, PublisherStep

(* Rows and receipts agree after every step.                               *)
LEMMA ReceiptsKept ==
  ASSUME TypeOK, HasTarget, RequestInv, ReceiptsTruthful, [Next]_vars
  PROVE  ReceiptsTruthful'
<1> SUFFICES
      ASSUME NEW d \in Drafts
      PROVE  /\ posts'[d] # None => posts'[d] \in channel' /\ target'[posts'[d]] = d
             /\ posts'[d] # None <=> draftStatus'[d] = "published"
             /\ posts'[d] # None <=> articleStatus'[d] = "published"
             /\ draftStatus'[d] \in {"approved", "publishing"}
                  => articleStatus'[d] = "approved"
  BY DEF ReceiptsTruthful
<1>1. /\ posts[d] # None => posts[d] \in channel /\ target[posts[d]] = d
      /\ posts[d] # None <=> draftStatus[d] = "published"
      /\ posts[d] # None <=> articleStatus[d] = "published"
      /\ draftStatus[d] \in {"approved", "publishing"}
           => articleStatus[d] = "approved"
  BY DEF ReceiptsTruthful
<1>2. channel \subseteq Publishers /\ None \notin channel
  BY PublicationAssumption DEF TypeOK
<1> QED BY <1>1, <1>2, RowStep, MessagesStay

(* Both hold in every reachable state.                                     *)
LEMMA ReceiptInvariance == Spec => [](RequestInv /\ ReceiptsTruthful)
<1>1. Init => RequestInv /\ ReceiptsTruthful
  BY DEF Init, RequestInv, ReceiptsTruthful
<1>2. /\ RequestInv /\ ReceiptsTruthful /\ TypeOK /\ HasTarget /\ [Next]_vars
      => (RequestInv /\ ReceiptsTruthful)'
  BY RequestKept, ReceiptsKept
<1> QED BY <1>1, <1>2, TypeCorrect, PTL DEF Spec

(* Whatever replies are garbled and whoever resets a live publication, a   *)
(* receipt names a message of its draft that is on the channel, and the    *)
(* draft's and the article's rows agree with it.                           *)
THEOREM ReceiptsTruthfulHolds == Spec => []ReceiptsTruthful
BY ReceiptInvariance, PTL

(* No step takes a receipt or a policy block back.                         *)
LEMMA AnswersStay ==
  ASSUME TypeOK, HasTarget, RequestInv, ReceiptsTruthful, [Next]_vars
  PROVE  /\ \A d \in Drafts : posts[d] # None => posts'[d] # None
         /\ blocks \subseteq blocks'
<1>1. ASSUME NEW d \in Drafts, posts[d] # None
      PROVE  posts'[d] # None
  <2>1. draftStatus[d] = "published"
    BY <1>1 DEF ReceiptsTruthful
  <2> QED BY <1>1, <2>1, RowStep
<1>2. blocks \subseteq blocks'
  BY DEF Next, vars, dbVars, EditorialStep, CreateReviewDraft, ApproveDraft,
       RejectDraft, RecordStoryDecision, UpdateSettings, AgeClaim,
       PublisherStep, FindPublicationByDraft, FindPublicationPolicyBlock,
       ReadSettings, StaleSettings, TurnedAway, BlockDraftPublication,
       ClaimDraftForPublication, ClaimRaises, Send, ReadReply, LoseReply,
       ReleaseRejectedDraftPublication, BackToApproved, StoreReceipt,
       FinalizeDraftPublication, Fail, Crash, TelegramStep, TelegramAccepts,
       TelegramRefuses, RequestLost, OperatorStep, ReconcileSent,
       ReconcileNotSent
<1> QED BY <1>1, <1>2

(* The answer of one execution, as AnswersTruthful states it of all.       *)
Truthful(p) ==
  /\ result[p] \in {"published", "already_published"} => posts[target[p]] # None
  /\ result[p] \in {"blocked", "already_blocked"} => target[p] \in blocks

(* The steps that give an answer give a true one.                          *)
LEMMA AnswerGiven ==
  ASSUME TypeOK, HasTarget, RequestInv, ReceiptsTruthful,
         NEW p \in Publishers, PublisherStep(p)
  PROVE  \/ result' = result /\ (pc[p] = "idle" \/ target' = target)
         \/ Truthful(p)' /\ \A q \in Publishers \ {p} :
              result'[q] = result[q] /\ target'[q] = target[q]
<1> USE DEF TypeOK, HasTarget, Return, Goto, dbVars, Truthful
<1>1. CASE \E d \in Drafts : FindPublicationByDraft(p, d)
  BY <1>1 DEF FindPublicationByDraft
<1>2. CASE FindPublicationPolicyBlock(p) \/ ReadSettings(p) \/ StaleSettings(p)
  BY <1>2 DEF FindPublicationPolicyBlock, ReadSettings, StaleSettings
<1>3. CASE TurnedAway(p)
  <2>1. /\ Gate(target[p], version[p]) = "already_published"
             => posts[target[p]] # None
        /\ Gate(target[p], version[p]) = "already_blocked"
             => target[p] \in blocks
        /\ Gate(target[p], version[p]) \notin {"published", "blocked"}
    BY DEF Gate
  <2> QED BY <1>3, <2>1 DEF TurnedAway
<1>4. CASE BlockDraftPublication(p)
  BY <1>4 DEF BlockDraftPublication
<1>5. CASE ClaimDraftForPublication(p) \/ ClaimRaises(p)
  BY <1>5 DEF ClaimDraftForPublication, ClaimRaises
<1>6. CASE Send(p) \/ ReadReply(p) \/ LoseReply(p) \/ Fail(p) \/ Crash(p)
  BY <1>6 DEF Send, ReadReply, LoseReply, Fail, Crash
<1>7. CASE ReleaseRejectedDraftPublication(p)
  BY <1>7 DEF ReleaseRejectedDraftPublication
<1>8. CASE StoreReceipt(p)
  BY <1>8, PublicationAssumption DEF StoreReceipt, FinalizeDraftPublication
<1> QED
  BY <1>1, <1>2, <1>3, <1>4, <1>5, <1>6, <1>7, <1>8 DEF PublisherStep

(* True answers stay true.                                                 *)
LEMMA AnswersKept ==
  ASSUME TypeOK, HasTarget, RequestInv, ReceiptsTruthful, AnswersTruthful,
         [Next]_vars
  PROVE  AnswersTruthful'
<1> SUFFICES ASSUME NEW q \in Publishers PROVE Truthful(q)'
  BY DEF AnswersTruthful, Truthful
<1>1. ASSUME result'[q] = result[q],
             target'[q] = target[q] \/ result[q] = "none"
      PROVE  Truthful(q)'
  <2>1. CASE result[q] = "none"
    BY <1>1, <2>1 DEF Truthful
  <2>2. CASE result[q] # "none"
    <3>1. pc[q] # "idle" /\ target[q] \in Drafts
      BY <2>2 DEF RequestInv, HasTarget
    <3> QED BY <1>1, <2>2, <3>1, AnswersStay DEF AnswersTruthful, Truthful
  <2> QED BY <2>1, <2>2
<1>2. ASSUME NEW p \in Publishers, PublisherStep(p)
      PROVE  Truthful(q)'
  <2>1. pc[p] = "idle" => result[p] = "none"
    BY DEF RequestInv
  <2>2. CASE pc[p] = "idle" /\ result' = result
    <3>1. \A r \in Publishers \ {p} : target'[r] = target[r]
      BY <1>2, <2>2 DEF PublisherStep, FindPublicationByDraft,
           FindPublicationPolicyBlock, ReadSettings, StaleSettings, TurnedAway,
           BlockDraftPublication, ClaimDraftForPublication, ClaimRaises, Send,
           ReadReply, LoseReply, ReleaseRejectedDraftPublication, StoreReceipt,
           Fail, Crash, TypeOK
    <3> QED BY <1>1, <2>1, <2>2, <3>1
  <2> QED BY <1>1, <1>2, <2>1, <2>2, AnswerGiven
<1>3. CASE \/ EditorialStep
           \/ \E p \in Publishers : TelegramStep(p)
           \/ \E d \in Drafts : OperatorStep(d)
           \/ UNCHANGED vars
  <2>1. UNCHANGED <<result, target>>
    BY <1>3 DEF EditorialStep, CreateReviewDraft, ApproveDraft, RejectDraft,
         RecordStoryDecision, UpdateSettings, AgeClaim, TelegramStep,
         TelegramAccepts, TelegramRefuses, RequestLost, OperatorStep,
         ReconcileSent, ReconcileNotSent, processVars, vars
  <2> QED BY <1>1, <2>1
<1> QED BY <1>2, <1>3 DEF Next

(* What an execution tells its caller is so, and stays so: a draft it says *)
(* is published has its receipt, one it says is blocked has its block.     *)
THEOREM AnswersTruthfulHolds == Spec => []AnswersTruthful
<1>1. Init => AnswersTruthful
  BY DEF Init, AnswersTruthful
<1>2. /\ TypeOK /\ HasTarget /\ RequestInv /\ ReceiptsTruthful
      /\ AnswersTruthful /\ [Next]_vars
      => AnswersTruthful'
  BY AnswersKept
<1> QED BY <1>1, <1>2, TypeCorrect, ReceiptInvariance, PTL DEF Spec

-----------------------------------------------------------------------------
(* Policy                                                                  *)

(* However settings, decisions and other executions change between the     *)
(* classification and the claim, a draft is claimed only by an execution   *)
(* that classified it under the settings in force at the claim.            *)
THEOREM PolicyCurrentAtClaimHolds == Spec => PolicyCurrentAtClaim
<1> DEFINE Claimed(d) ==
      draftStatus[d] # "publishing" /\ draftStatus'[d] = "publishing" =>
        \E p \in Publishers :
          /\ target[p] = d /\ pc'[p] = "send"
          /\ version[p] = settings.version
<1>1. ASSUME TypeOK, HasTarget, [Next]_vars, NEW d \in Drafts
      PROVE  Claimed(d)
  <2> SUFFICES ASSUME draftStatus[d] # "publishing", draftStatus'[d] = "publishing"
               PROVE  \E p \in Publishers :
                        /\ target[p] = d /\ pc'[p] = "send"
                        /\ version[p] = settings.version
    OBVIOUS
  <2> USE <1>1 DEF TypeOK, dbVars
  <2>1. CASE EditorialStep
    BY <2>1 DEF EditorialStep, CreateReviewDraft, ApproveDraft, RejectDraft,
                RecordStoryDecision, UpdateSettings, AgeClaim
  <2>2. ASSUME NEW p \in Publishers, PublisherStep(p)
        PROVE  ClaimDraftForPublication(p)
    BY <2>2 DEF PublisherStep, FindPublicationByDraft,
         FindPublicationPolicyBlock, ReadSettings, StaleSettings, TurnedAway,
         BlockDraftPublication, ClaimRaises, Send, ReadReply, LoseReply,
         ReleaseRejectedDraftPublication, BackToApproved, StoreReceipt,
         FinalizeDraftPublication, Fail, Crash
  <2>3. ASSUME NEW p \in Publishers, ClaimDraftForPublication(p)
        PROVE  target[p] = d /\ pc'[p] = "send" /\ version[p] = settings.version
    BY <2>3 DEF ClaimDraftForPublication, Gate, Goto
  <2>4. ~ \E p \in Publishers : TelegramStep(p)
    BY DEF TelegramStep, TelegramAccepts, TelegramRefuses, RequestLost
  <2>5. ~ \E e \in Drafts : OperatorStep(e)
    BY DEF OperatorStep, ReconcileSent, ReconcileNotSent, BackToApproved,
         FinalizeDraftPublication
  <2>6. ~ UNCHANGED vars
    BY DEF vars
  <2> QED BY <2>1, <2>2, <2>3, <2>4, <2>5, <2>6 DEF Next
<1>2. TypeOK /\ HasTarget /\ [Next]_vars => [\A d \in Drafts : Claimed(d)]_vars
  BY <1>1
<1> QED BY <1>2, TypeCorrect, PTL DEF Spec, PolicyCurrentAtClaim

(* A blocked draft's rows say rejected.                                    *)
BlockInv ==
  \A d \in blocks : draftStatus[d] = "rejected" /\ articleStatus[d] = "rejected"

(* No step writes the rows of a blocked draft.                             *)
LEMMA BlockKept ==
  ASSUME TypeOK, HasTarget, RequestInv, ReceiptsTruthful, BlockInv, [Next]_vars
  PROVE  BlockInv'
<1>1. ASSUME NEW d \in blocks
      PROVE  draftStatus'[d] = "rejected" /\ articleStatus'[d] = "rejected"
  <2>1. d \in Drafts /\ draftStatus[d] = "rejected" /\ articleStatus[d] = "rejected"
    BY DEF TypeOK, BlockInv
  <2> QED BY <2>1, RowStep
<1>2. CASE \E p \in Publishers : BlockDraftPublication(p)
  <2> PICK p \in Publishers : BlockDraftPublication(p)
    BY <1>2
  <2>1. target[p] \in Drafts /\ draftStatus[target[p]] = "approved"
    BY DEF BlockDraftPublication, Gate, HasTarget
  <2>2. articleStatus[target[p]] = "approved"
    BY <2>1 DEF ReceiptsTruthful
  <2>3. blocks' = blocks \cup {target[p]}
    BY DEF BlockDraftPublication
  <2>4. /\ draftStatus'[target[p]] = "rejected"
        /\ articleStatus'[target[p]] = "rejected"
    BY <2>1, <2>2 DEF BlockDraftPublication, TypeOK
  <2> QED BY <1>1, <2>3, <2>4 DEF BlockInv
<1>3. CASE ~ \E p \in Publishers : BlockDraftPublication(p)
  <2>1. blocks' = blocks
    BY <1>3 DEF Next, vars, dbVars, EditorialStep, CreateReviewDraft,
         ApproveDraft, RejectDraft, RecordStoryDecision, UpdateSettings,
         AgeClaim, PublisherStep, FindPublicationByDraft,
         FindPublicationPolicyBlock, ReadSettings, StaleSettings, TurnedAway,
         ClaimDraftForPublication, ClaimRaises, Send, ReadReply, LoseReply,
         ReleaseRejectedDraftPublication, BackToApproved, StoreReceipt,
         FinalizeDraftPublication, Fail, Crash, TelegramStep, TelegramAccepts,
         TelegramRefuses, RequestLost, OperatorStep, ReconcileSent,
         ReconcileNotSent
  <2> QED BY <1>1, <2>1 DEF BlockInv
<1> QED BY <1>2, <1>3

(* A policy block is final: what it blocked is not on the channel, not on  *)
(* its way there, and its rows stay rejected.                              *)
THEOREM BlockedNeverSentHolds ==
  ASSUME ~GarbledReplies, OperatorWaits
  PROVE  Spec => []BlockedNeverSent
<1>1. Init => BlockInv
  BY DEF Init, BlockInv
<1>2. /\ TypeOK /\ HasTarget /\ RequestInv /\ ReceiptsTruthful
      /\ BlockInv /\ [Next]_vars
      => BlockInv'
  BY BlockKept
<1>3. IInv /\ BlockInv => BlockedNeverSent
  BY DEF IInv, TypeOK, BlockInv, ExposureInv, Exposed, BlockedNeverSent,
         Messages, InFlight
<1> QED
  BY <1>1, <1>2, <1>3, TypeCorrect, ReceiptInvariance, Invariance, PTL DEF Spec

-----------------------------------------------------------------------------
(* The publication keeps the channel's promise                             *)

(* The story claims: a draft being published holds its story's, and what   *)
(* is aged is a published one.                                             *)
StoryInv ==
  /\ \A d \in Drafts : Story[d] # None /\ draftStatus[d] = "publishing" =>
       claimDraft[Story[d]] = d /\ claimStatus[Story[d]] = "publishing"
  /\ \A s \in Stories : claimStatus[s] = "none" => claimDraft[s] = None
  /\ \A s \in agedClaims : claimStatus[s] = "published"

(* A draft that names a story names one of them.                            *)
LEMMA StoryOf ==
  ASSUME NEW d \in Drafts, Story[d] # None
  PROVE  Story[d] \in Stories
  BY PublicationAssumption

(* Deleting the publishing claims of one draft leaves the others' alone.   *)
LEMMA DropKeepsClaims ==
  ASSUME TypeOK, StoryInv, NEW d \in Drafts, BackToApproved(d)
  PROVE  StoryInv'
<1> DEFINE dropped == {s \in Stories : claimDraft[s] = d
                                       /\ claimStatus[s] = "publishing"}
<1>1. /\ \A s \in dropped : claimDraft'[s] = None /\ claimStatus'[s] = "none"
      /\ \A s \in Stories \ dropped :
           claimDraft'[s] = claimDraft[s] /\ claimStatus'[s] = claimStatus[s]
      /\ agedClaims' = agedClaims
  BY DEF BackToApproved, DropPublishingClaim
<1>2. \A e \in Drafts : draftStatus'[e] = "publishing" =>
        draftStatus[e] = "publishing" /\ e # d
  BY DEF BackToApproved, TypeOK
<1>3. ASSUME NEW e \in Drafts, Story[e] # None, draftStatus'[e] = "publishing"
      PROVE  claimDraft'[Story[e]] = e /\ claimStatus'[Story[e]] = "publishing"
  BY <1>1, <1>2, <1>3, StoryOf DEF StoryInv
<1>4. \A s \in Stories : claimStatus'[s] = "none" => claimDraft'[s] = None
  BY <1>1 DEF StoryInv
<1>5. \A s \in agedClaims' : claimStatus'[s] = "published"
  BY <1>1 DEF StoryInv, TypeOK
<1> QED BY <1>3, <1>4, <1>5 DEF StoryInv

(* A stored receipt makes its draft's claim a published one.               *)
LEMMA FinalizeKeepsClaims ==
  ASSUME TypeOK, StoryInv, NEW d \in Drafts, NEW m \in Publishers,
         FinalizeDraftPublication(d, m)
  PROVE  StoryInv'
<1>1. /\ \A s \in Stories : claimStatus'[s] =
           IF claimDraft[s] = d THEN "published" ELSE claimStatus[s]
      /\ UNCHANGED <<claimDraft, agedClaims>>
  BY DEF FinalizeDraftPublication
<1>2. \A e \in Drafts : draftStatus'[e] = "publishing" =>
        draftStatus[e] = "publishing" /\ e # d
  BY DEF FinalizeDraftPublication, TypeOK
<1>3. ASSUME NEW e \in Drafts, Story[e] # None, draftStatus'[e] = "publishing"
      PROVE  claimDraft'[Story[e]] = e /\ claimStatus'[Story[e]] = "publishing"
  BY <1>1, <1>2, <1>3, StoryOf DEF StoryInv
<1>4. \A s \in Stories : claimStatus'[s] = "none" => claimDraft'[s] = None
  BY <1>1 DEF StoryInv
<1>5. \A s \in agedClaims' : claimStatus'[s] = "published"
  BY <1>1 DEF StoryInv, TypeOK
<1> QED BY <1>3, <1>4, <1>5 DEF StoryInv

(* Every step keeps the story claims in order.                             *)
LEMMA StoryKept ==
  ASSUME TypeOK, HasTarget, StoryInv, [Next]_vars
  PROVE  StoryInv'
<1> USE DEF dbVars
<1>1. CASE EditorialStep
  BY <1>1 DEF EditorialStep, CreateReviewDraft, ApproveDraft, RejectDraft,
       RecordStoryDecision, UpdateSettings, AgeClaim, TypeOK, StoryInv
<1>2. ASSUME NEW p \in Publishers, PublisherStep(p)
      PROVE  StoryInv'
  <2>1. CASE \/ \E d \in Drafts : FindPublicationByDraft(p, d)
             \/ FindPublicationPolicyBlock(p) \/ ReadSettings(p)
             \/ StaleSettings(p) \/ TurnedAway(p) \/ ClaimRaises(p)
             \/ Send(p) \/ ReadReply(p) \/ LoseReply(p) \/ Fail(p) \/ Crash(p)
    BY <2>1 DEF FindPublicationByDraft, FindPublicationPolicyBlock,
         ReadSettings, StaleSettings, TurnedAway, ClaimRaises, Send, ReadReply,
         LoseReply, Fail, Crash, StoryInv
  <2>2. CASE BlockDraftPublication(p)
    BY <2>2 DEF BlockDraftPublication, TypeOK, StoryInv
  <2>3. CASE ClaimDraftForPublication(p)
    <3> DEFINE d == target[p]
    <3>1. d \in Drafts
      BY <2>3 DEF ClaimDraftForPublication, HasTarget
    <3>2. CASE Story[d] = None
      BY <2>3, <3>1, <3>2, PublicationAssumption
         DEF ClaimDraftForPublication, ReserveStory, TypeOK, StoryInv
    <3>3. CASE Story[d] # None
      <4>1. Story[d] \in Stories
        BY <3>1, <3>3, PublicationAssumption
      <4>2. claimStatus[Story[d]] # "publishing"
        BY <2>3, <3>1, <4>1 DEF ClaimDraftForPublication, StoryFree
      <4>3. /\ \A e \in Drafts : draftStatus'[e] = "publishing" =>
                 draftStatus[e] = "publishing" \/ e = d
            /\ claimDraft' = [claimDraft EXCEPT ![Story[d]] = d]
            /\ claimStatus' = [claimStatus EXCEPT ![Story[d]] = "publishing"]
            /\ agedClaims' = agedClaims \ {Story[d]}
        BY <2>3, <3>3 DEF ClaimDraftForPublication, ReserveStory, TypeOK
      <4>4. ASSUME NEW e \in Drafts, Story[e] # None,
                   draftStatus'[e] = "publishing"
            PROVE  /\ claimDraft'[Story[e]] = e
                   /\ claimStatus'[Story[e]] = "publishing"
        <5>1. Story[e] \in Stories BY <4>4, StoryOf
        <5>2. CASE e = d BY <4>1, <4>3, <5>2 DEF TypeOK
        <5>3. CASE e # d
          BY <4>2, <4>3, <4>4, <5>1, <5>3 DEF StoryInv, TypeOK
        <5> QED BY <5>2, <5>3
      <4>5. \A s \in Stories : claimStatus'[s] = "none" => claimDraft'[s] = None
        BY <4>1, <4>3 DEF StoryInv, TypeOK
      <4>6. \A s \in agedClaims' : claimStatus'[s] = "published"
        BY <4>1, <4>3 DEF StoryInv, TypeOK
      <4> QED BY <4>4, <4>5, <4>6 DEF StoryInv
    <3> QED BY <3>2, <3>3
  <2>4. CASE ReleaseRejectedDraftPublication(p)
    BY <2>4, DropKeepsClaims
       DEF ReleaseRejectedDraftPublication, HasTarget, StoryInv
  <2>5. CASE StoreReceipt(p)
    BY <2>5, FinalizeKeepsClaims DEF StoreReceipt, HasTarget, StoryInv
  <2> QED BY <1>2, <2>1, <2>2, <2>3, <2>4, <2>5 DEF PublisherStep
<1>3. CASE \E p \in Publishers : TelegramStep(p)
  BY <1>3 DEF TelegramStep, TelegramAccepts, TelegramRefuses, RequestLost,
       StoryInv
<1>4. ASSUME NEW d \in Drafts, OperatorStep(d)
      PROVE  StoryInv'
  BY <1>4, DropKeepsClaims, FinalizeKeepsClaims
     DEF OperatorStep, ReconcileSent, ReconcileNotSent, Messages, TypeOK
<1>5. CASE UNCHANGED vars
  BY <1>5 DEF vars, StoryInv
<1> QED BY <1>1, <1>2, <1>3, <1>4, <1>5 DEF Next

DetailInv == IInv /\ RequestInv /\ ReceiptsTruthful /\ StoryInv

(* It holds in every reachable state.                                      *)
LEMMA DetailInvariance ==
  ASSUME ~GarbledReplies, OperatorWaits
  PROVE  Spec => []DetailInv
<1>1. Init => StoryInv
  BY DEF Init, StoryInv
<1>2. TypeOK /\ HasTarget /\ StoryInv /\ [Next]_vars => StoryInv'
  BY StoryKept
<1> QED
  BY <1>1, <1>2, TypeCorrect, ReceiptInvariance, Invariance, PTL
     DEF Spec, DetailInv

(* The promise's variables in terms of the rows and the channel.           *)
Phases  == [d \in Drafts |-> PhaseOf(d)]
Shown   == {<<p, target[p]>> : p \in channel}
Expired == {s \in Stories : ~Fresh(s)}

(* A draft with a message is being published or published.                 *)
LEMMA ShownStatus ==
  ASSUME DetailInv, NEW d \in Drafts, Messages(d) # {}
  PROVE  draftStatus[d] \in {"publishing", "published"}
  BY DEF DetailInv, IInv, TypeOK, ExposureInv, Exposed, Messages

(* What the reader sees of the messages depends on the channel alone.      *)
LEMMA SameMessages ==
  ASSUME channel' = channel, \A p \in channel : target'[p] = target[p]
  PROVE  /\ \A d \in Drafts : Messages(d)' = Messages(d)
         /\ Shown' = Shown
  BY DEF Messages, Shown

(* A story's window closes and opens with its messages and their age.      *)
LEMMA SameAge ==
  ASSUME \A d \in Drafts : Messages(d)' = Messages(d),
         \A d \in Drafts : Story[d] \in Stories /\ Messages(d) # {} =>
           (Old(d)' <=> Old(d))
  PROVE  Expired' = Expired
<1>1. ASSUME NEW s \in Stories
      PROVE  Fresh(s)' <=> Fresh(s)
  BY DEF Fresh
<1> QED BY <1>1 DEF Expired

(* Once a story's claim may be taken, its messages are old.                *)
LEMMA FreeMeansExpired ==
  ASSUME DetailInv, NEW s \in Stories,
         claimStatus[s] = "none" \/ s \in agedClaims
  PROVE  s \in Expired
<1> SUFFICES ASSUME NEW d \in Drafts, Story[d] = s, Messages(d) # {}
             PROVE  Old(d)
  BY DEF Expired, Fresh
<1>1. Story[d] # None
  BY PublicationAssumption
<1>2. draftStatus[d] = "published"
  BY <1>1, ShownStatus DEF DetailInv, StoryInv
<1>3. claimStatus[s] = "none" => claimDraft[s] # d
  BY PublicationAssumption DEF DetailInv, StoryInv
<1> QED BY <1>2, <1>3 DEF Old

(* A step that touches neither the channel nor what makes a message old,   *)
(* and no status but from one open one to another, shows the reader        *)
(* nothing.                                                                *)
LEMMA ShowsNothing ==
  ASSUME channel' = channel, \A p \in channel : target'[p] = target[p],
         UNCHANGED <<claimDraft, agedClaims>>,
         \A d \in Drafts :
           \/ draftStatus'[d] = draftStatus[d]
           \/ /\ draftStatus[d] \in {"absent", "review", "approved"}
              /\ draftStatus'[d] \in {"absent", "review", "approved"}
  PROVE  UNCHANGED <<Phases, Shown, Expired>>
<1>1. (\A d \in Drafts : Messages(d)' = Messages(d)) /\ Shown' = Shown
  BY SameMessages
<1>2. \A d \in Drafts : PhaseOf(d)' = PhaseOf(d)
  BY <1>1 DEF PhaseOf
<1>3. \A d \in Drafts : Old(d)' <=> Old(d)
  BY DEF Old
<1> QED BY <1>1, <1>2, <1>3, SameAge DEF Phases

(* A draft that is rejected or blocked closes.                             *)
LEMMA RejectCloses ==
  ASSUME DetailInv, NEW d \in Drafts,
         draftStatus[d] \in {"review", "approved"},
         draftStatus' = [draftStatus EXCEPT ![d] = "rejected"],
         UNCHANGED <<claimDraft, agedClaims, channel, target>>
  PROVE  Promise!Close(d)
<1>1. (\A e \in Drafts : Messages(e)' = Messages(e)) /\ Shown' = Shown
  BY SameMessages
<1>2. Messages(d) = {}
  BY ShownStatus
<1>3. /\ PhaseOf(d) = "open" /\ PhaseOf(d)' = "closed"
      /\ \A e \in Drafts \ {d} : PhaseOf(e)' = PhaseOf(e)
  BY <1>1, <1>2 DEF PhaseOf, DetailInv, IInv, TypeOK
<1>4. \A e \in Drafts : Old(e)' <=> Old(e)
  BY DEF Old, DetailInv, IInv, TypeOK
<1>5. Expired' = Expired
  BY <1>1, <1>4, SameAge
<1> QED BY <1>1, <1>3, <1>5 DEF Promise!Close, Phases, Shown, Expired

(* A draft that goes back to approved, unsent, is free again.              *)
LEMMA BackFrees ==
  ASSUME DetailInv, NEW d \in Drafts, BackToApproved(d), Messages(d) = {},
         UNCHANGED <<channel, target>>
  PROVE  Promise!Free(d)
<1>1. (\A e \in Drafts : Messages(e)' = Messages(e)) /\ Shown' = Shown
  BY SameMessages
<1>2. /\ draftStatus[d] = "publishing"
      /\ draftStatus' = [draftStatus EXCEPT ![d] = "approved"]
      /\ agedClaims' = agedClaims
      /\ \A s \in Stories : claimDraft'[s] # claimDraft[s] =>
           claimDraft[s] = d /\ claimDraft'[s] = None
  BY DEF BackToApproved, Unclaimable, DropPublishingClaim
<1>3. /\ PhaseOf(d) = "reserved" /\ PhaseOf(d)' = "open"
      /\ \A e \in Drafts \ {d} : PhaseOf(e)' = PhaseOf(e)
  BY <1>1, <1>2 DEF PhaseOf, DetailInv, IInv, TypeOK
<1>4. ASSUME NEW e \in Drafts, Story[e] \in Stories, Messages(e) # {}
      PROVE  Old(e)' <=> Old(e)
  <2>1. e # d /\ draftStatus'[e] = draftStatus[e]
    BY <1>2, <1>4 DEF DetailInv, IInv, TypeOK
  <2>2. claimDraft'[Story[e]] # e <=> claimDraft[Story[e]] # e
    BY <1>2, <1>4, <2>1, PublicationAssumption
  <2> QED BY <1>2, <2>1, <2>2 DEF Old
<1>5. Expired' = Expired
  BY <1>1, <1>4, SameAge
<1> QED BY <1>1, <1>3, <1>5 DEF Promise!Free, Phases, Shown, Expired

(* The receipt of a message shows the reader nothing.                      *)
LEMMA ReceiptShowsNothing ==
  ASSUME DetailInv, NEW d \in Drafts, NEW m \in Publishers,
         FinalizeDraftPublication(d, m), Messages(d) # {},
         UNCHANGED <<channel, target>>
  PROVE  UNCHANGED <<Phases, Shown, Expired>>
<1>1. (\A e \in Drafts : Messages(e)' = Messages(e)) /\ Shown' = Shown
  BY SameMessages
<1>2. /\ draftStatus[d] = "publishing"
      /\ draftStatus' = [draftStatus EXCEPT ![d] = "published"]
      /\ UNCHANGED <<agedClaims, claimDraft>>
  BY DEF FinalizeDraftPublication, Finalizable
<1>3. \A e \in Drafts : PhaseOf(e)' = PhaseOf(e)
  BY <1>1, <1>2 DEF PhaseOf, DetailInv, IInv, TypeOK
<1>4. ASSUME NEW e \in Drafts, Story[e] \in Stories
      PROVE  Old(e)' <=> Old(e)
  <2>1. CASE e = d
    <3>1. Story[d] # None
      BY <1>4, <2>1, PublicationAssumption
    <3>2. claimDraft[Story[d]] = d /\ Story[d] \notin agedClaims
      BY <1>2, <3>1 DEF DetailInv, StoryInv
    <3> QED BY <1>2, <2>1, <3>2 DEF Old
  <2>2. CASE e # d
    BY <1>2, <2>2 DEF Old, DetailInv, IInv, TypeOK
  <2> QED BY <2>1, <2>2
<1>5. Expired' = Expired
  BY <1>1, <1>4, SameAge
<1> QED BY <1>1, <1>3, <1>5 DEF Phases

(* A claim reserves the draft, when no rival is reserved or shown within   *)
(* the window.                                                             *)
LEMMA ClaimReserves ==
  ASSUME DetailInv, NEW p \in Publishers, ClaimDraftForPublication(p)
  PROVE  Promise!Reserve(target[p])
<1> PICK d \in Drafts : d = target[p]
  BY DEF ClaimDraftForPublication, DetailInv, IInv, HasTarget
<1>1. draftStatus[d] = "approved"
  BY DEF ClaimDraftForPublication, Gate
<1>2. /\ draftStatus' = [draftStatus EXCEPT ![d] = "publishing"]
      /\ UNCHANGED <<channel, target>> /\ StoryFree(d) /\ ReserveStory(d)
  BY DEF ClaimDraftForPublication, telegramVars
<1>3. (\A e \in Drafts : Messages(e)' = Messages(e)) /\ Shown' = Shown
  BY <1>2, SameMessages
<1>4. Messages(d) = {}
  BY <1>1, ShownStatus
<1>5. /\ PhaseOf(d) = "open" /\ PhaseOf(d)' = "reserved"
      /\ \A e \in Drafts \ {d} : PhaseOf(e)' = PhaseOf(e)
  BY <1>1, <1>2, <1>3, <1>4 DEF PhaseOf, DetailInv, IInv, TypeOK
<1>6. ASSUME Story[d] # None
      PROVE  /\ Story[d] \in Stories /\ Story[d] \in Expired
             /\ claimStatus[Story[d]] # "publishing"
  BY <1>1, <1>2, <1>6, StoryOf, FreeMeansExpired DEF StoryFree
<1>7. ASSUME NEW e \in Drafts, Promise!Rival(d, e)
      PROVE  /\ PhaseOf(e) # "reserved"
             /\ PhaseOf(e) = "shown" => Story[d] \in Expired
  <2>1. Story[d] # None /\ Story[e] = Story[d]
    BY <1>7 DEF Promise!Rival
  <2>2. draftStatus[e] # "publishing"
    BY <1>6, <2>1 DEF DetailInv, StoryInv
  <2> QED BY <1>6, <2>1, <2>2 DEF PhaseOf
<1>8. ASSUME NEW e \in Drafts, Story[e] \in Stories, Messages(e) # {}
      PROVE  Old(e)' <=> Old(e)
  <2>1. e # d /\ draftStatus'[e] = draftStatus[e]
    BY <1>1, <1>2, <1>4, <1>8 DEF DetailInv, IInv, TypeOK
  <2>2. CASE Story[d] = None \/ Story[e] # Story[d]
    BY <1>1, <1>2, <2>1, <2>2, <1>8 DEF ReserveStory, Old, DetailInv, IInv, TypeOK
  <2>3. CASE Story[d] # None /\ Story[e] = Story[d]
    <3>1. Old(e)
      BY <1>6, <1>8, <2>3 DEF Expired, Fresh
    <3>2. claimDraft'[Story[e]] = d
      BY <1>2, <1>6, <2>3 DEF ReserveStory, DetailInv, IInv, TypeOK
    <3> QED BY <2>1, <3>1, <3>2 DEF Old
  <2> QED BY <2>2, <2>3
<1>9. Expired' = Expired
  BY <1>3, <1>8, SameAge
<1>10. /\ Phases[d] = "open" /\ Phases' = [Phases EXCEPT ![d] = "reserved"]
       /\ \A e \in Drafts : Promise!Rival(d, e) =>
            Phases[e] # "reserved" /\ (Phases[e] = "shown" => Story[d] \in Expired)
  BY <1>1, <1>5, <1>7 DEF Phases
<1> QED BY <1>3, <1>9, <1>10 DEF Promise!Reserve, Phases, Shown, Expired

(* Telegram shows the message of a reserved draft.                         *)
LEMMA AcceptShows ==
  ASSUME DetailInv, NEW p \in Publishers, TelegramAccepts(p)
  PROVE  Promise!Show(target[p], p)
<1> USE DEF DetailInv, IInv, TypeOK
<1>1. /\ wire[p] = "sent" /\ channel' = channel \cup {p}
      /\ UNCHANGED <<target, draftStatus, claimDraft, agedClaims>>
  BY DEF TelegramAccepts, dbVars, processVars
<1> PICK d \in Drafts : d = target[p]
  BY <1>1 DEF RequestInv, HasTarget
<1>2. p \notin channel
  BY <1>1 DEF RequestInv
<1>3. Messages(d) = {}
  BY <1>1, <1>2 DEF Messages, ExposureInv, Exposed
<1>4. draftStatus[d] = "publishing"
  <2>1. draftStatus[d] \in {"publishing", "published"}
    BY <1>1 DEF ExposureInv, Exposed
  <2>2. posts[d] # None => posts[d] \in Messages(d)
    BY <1>2 DEF ReceiptsTruthful, Messages
  <2> QED BY <1>2, <1>3, <2>1, <2>2 DEF ReceiptsTruthful
<1>5. /\ p \in Messages(d)'
      /\ \A e \in Drafts \ {d} : Messages(e)' = Messages(e)
      /\ Shown' = Shown \cup {<<p, d>>}
  BY <1>1, <1>2 DEF Messages, Shown
<1>6. /\ PhaseOf(d) = "reserved" /\ PhaseOf(d)' = "shown"
      /\ \A e \in Drafts \ {d} : PhaseOf(e)' = PhaseOf(e)
  BY <1>1, <1>3, <1>4, <1>5 DEF PhaseOf
<1>7. \A e \in Drafts : <<p, e>> \notin Shown
  BY <1>2 DEF Shown
<1>8. ASSUME NEW s \in Stories
      PROVE  Fresh(s)' <=> Fresh(s) \/ Story[d] = s
  <2>1. \A e \in Drafts : Old(e)' <=> Old(e)
    BY <1>1 DEF Old
  <2>2. ~Old(d)'
    BY <1>1, <1>4 DEF Old
  <2>3. CASE Story[d] = s
    BY <1>2, <1>5, <2>2, <2>3 DEF Fresh
  <2>4. CASE Story[d] # s
    BY <1>5, <2>1, <2>4 DEF Fresh
  <2> QED BY <2>3, <2>4
<1>9. Expired' = Expired \ {Story[d]}
  BY <1>8 DEF Expired
<1>10. /\ Phases[d] = "reserved"
       /\ Phases' = [Phases EXCEPT ![d] = "shown"]
  <2> HIDE DEF DetailInv, IInv, TypeOK
  <2> QED BY <1>6 DEF Phases
<1> QED
  BY <1>5, <1>7, <1>9, <1>10 DEF Promise!Show, Phases, Shown, Expired

(* A published claim that ages takes the last message out of the window.   *)
LEMMA AgeExpires ==
  ASSUME DetailInv, NEW s \in Stories, AgeClaim(s)
  PROVE  Promise!Expire(s)
<1>1. /\ claimStatus[s] = "published" /\ agedClaims' = agedClaims \cup {s}
      /\ UNCHANGED <<draftStatus, claimDraft, channel, target>>
  BY DEF AgeClaim, processVars, telegramVars
<1>2. (\A e \in Drafts : Messages(e)' = Messages(e)) /\ Shown' = Shown
  BY <1>1, SameMessages
<1>3. \A e \in Drafts : PhaseOf(e)' = PhaseOf(e)
  BY <1>1, <1>2 DEF PhaseOf
<1>4. ASSUME NEW e \in Drafts, Story[e] = s
      PROVE  draftStatus[e] # "publishing"
  BY <1>1, <1>4, PublicationAssumption DEF DetailInv, StoryInv
<1>5. \A e \in Drafts : Story[e] = s => PhaseOf(e) # "reserved"
  BY <1>4 DEF PhaseOf
<1>6. ~Fresh(s)'
  <2> SUFFICES ASSUME NEW e \in Drafts, Story[e] = s, Messages(e) # {}
               PROVE  Old(e)'
    BY <1>2 DEF Fresh
  <2>1. draftStatus[e] = "published"
    BY <1>4, ShownStatus
  <2> QED BY <1>1, <2>1 DEF Old
<1>7. ASSUME NEW t \in Stories, t # s
      PROVE  Fresh(t)' <=> Fresh(t)
  BY <1>1, <1>2, <1>7 DEF Fresh, Old
<1>8. Expired' = Expired \cup {s}
  BY <1>6, <1>7 DEF Expired
<1> QED
  BY <1>2, <1>3, <1>5, <1>8 DEF Promise!Expire, Phases, Shown, Expired

(* A step of an execution reserves, frees or closes a draft, or is not     *)
(* seen.                                                                   *)
LEMMA PublisherShows ==
  ASSUME DetailInv, [Next]_vars, NEW p \in Publishers, PublisherStep(p)
  PROVE  \/ UNCHANGED <<Phases, Shown, Expired>>
         \/ \E d \in Drafts : \/ Promise!Reserve(d) \/ Promise!Free(d)
                              \/ Promise!Close(d)
<1>1. \A q \in channel : target'[q] = target[q]
  BY MessagesStay DEF DetailInv, IInv
<1>2. CASE \/ \E d \in Drafts : FindPublicationByDraft(p, d)
           \/ FindPublicationPolicyBlock(p) \/ ReadSettings(p)
           \/ StaleSettings(p) \/ TurnedAway(p) \/ ClaimRaises(p)
           \/ Send(p) \/ ReadReply(p) \/ LoseReply(p) \/ Fail(p) \/ Crash(p)
  <2>1. UNCHANGED <<draftStatus, claimDraft, agedClaims, channel>>
    BY <1>2 DEF FindPublicationByDraft, FindPublicationPolicyBlock,
         ReadSettings, StaleSettings, TurnedAway, ClaimRaises, Send, ReadReply,
         LoseReply, Fail, Crash, dbVars, telegramVars
  <2> QED BY <1>1, <2>1, ShowsNothing
<1>3. CASE BlockDraftPublication(p)
  <2>1. target[p] \in Drafts /\ draftStatus[target[p]] = "approved"
    BY <1>3 DEF BlockDraftPublication, Gate, DetailInv, IInv, HasTarget
  <2> QED BY <1>3, <2>1, RejectCloses DEF BlockDraftPublication, telegramVars
<1>4. CASE ClaimDraftForPublication(p)
  BY <1>4, ClaimReserves
     DEF ClaimDraftForPublication, DetailInv, IInv, HasTarget
<1>5. CASE ReleaseRejectedDraftPublication(p)
  <2> PICK d \in Drafts : d = target[p]
    BY <1>5 DEF ReleaseRejectedDraftPublication, DetailInv, IInv, HasTarget
  <2>1. UNCHANGED <<channel, target>>
    BY <1>5 DEF ReleaseRejectedDraftPublication, telegramVars
  <2>2. CASE BackToApproved(d)
    <3>1. pc[p] = "release" /\ p \notin channel
      BY <1>5 DEF ReleaseRejectedDraftPublication, DetailInv, IInv, WireInv
    <3>2. Messages(d) = {}
      BY <3>1 DEF Messages, DetailInv, IInv, TypeOK, ExposureInv, Exposed,
           Claiming
    <3> QED BY <2>1, <2>2, <3>2, BackFrees
  <2>3. CASE ~BackToApproved(d)
    <3>1. UNCHANGED <<draftStatus, claimDraft, agedClaims>>
      BY <1>5, <2>3 DEF ReleaseRejectedDraftPublication, dbVars
    <3> QED BY <1>1, <2>1, <3>1, ShowsNothing
  <2> QED BY <2>2, <2>3
<1>6. CASE StoreReceipt(p)
  <2> PICK d \in Drafts : d = target[p]
    BY <1>6 DEF StoreReceipt, DetailInv, IInv, HasTarget
  <2>1. UNCHANGED <<channel, target>> /\ p \in channel
    BY <1>6 DEF StoreReceipt, telegramVars, DetailInv, RequestInv
  <2>2. CASE FinalizeDraftPublication(d, p)
    BY <2>1, <2>2, ReceiptShowsNothing DEF Messages
  <2>3. CASE ~FinalizeDraftPublication(d, p)
    <3>1. UNCHANGED <<draftStatus, claimDraft, agedClaims>>
      BY <1>6, <2>3 DEF StoreReceipt, dbVars
    <3> QED BY <1>1, <2>1, <3>1, ShowsNothing
  <2> QED BY <2>2, <2>3
<1> QED
  BY <1>2, <1>3, <1>4, <1>5, <1>6, PublisherStep(p) DEF PublisherStep

(* Editorial commands close a draft or expire a story, or are not seen.    *)
LEMMA EditorialShows ==
  ASSUME DetailInv, EditorialStep
  PROVE  \/ UNCHANGED <<Phases, Shown, Expired>>
         \/ \E d \in Drafts : Promise!Close(d)
         \/ \E s \in Stories : Promise!Expire(s)
<1>1. CASE \E d \in Drafts : \/ CreateReviewDraft(d) \/ ApproveDraft(d)
                             \/ RecordStoryDecision(d)
  BY <1>1, ShowsNothing
     DEF CreateReviewDraft, ApproveDraft, RecordStoryDecision, DetailInv, IInv,
         TypeOK, processVars, telegramVars
<1>2. CASE UpdateSettings
  BY <1>2, ShowsNothing DEF UpdateSettings, processVars, telegramVars
<1>3. ASSUME NEW d \in Drafts, RejectDraft(d)
      PROVE  Promise!Close(d)
  BY <1>3, RejectCloses DEF RejectDraft, processVars, telegramVars
<1>4. CASE \E s \in Stories : AgeClaim(s)
  BY <1>4, AgeExpires
<1> QED BY <1>1, <1>2, <1>3, <1>4, EditorialStep DEF EditorialStep

(* The operator frees a draft, or is not seen.                             *)
LEMMA OperatorShows ==
  ASSUME DetailInv, NEW d \in Drafts, OperatorStep(d)
  PROVE  UNCHANGED <<Phases, Shown, Expired>> \/ Promise!Free(d)
<1>1. UNCHANGED <<channel, target>>
  BY DEF OperatorStep, ReconcileSent, ReconcileNotSent, processVars,
         telegramVars
<1>2. CASE ReconcileSent(d)
  BY <1>1, <1>2, ReceiptShowsNothing
     DEF ReconcileSent, Messages, DetailInv, IInv, TypeOK
<1>3. CASE ReconcileNotSent(d)
  BY <1>1, <1>3, BackFrees DEF ReconcileNotSent
<1> QED BY <1>2, <1>3, OperatorStep(d) DEF OperatorStep

(* Executions that crash, retry and race, Telegram, the settings and an    *)
(* operator who waits implement the promise to the reader: a draft is      *)
(* shown once, only while reserved, and two drafts of one story never      *)
(* within the window.                                                      *)
THEOREM RefinesPromise ==
  ASSUME ~GarbledReplies, OperatorWaits
  PROVE  Spec => KeepsPromise
<1>1. Init => Promise!PromiseInit
  BY DEF Init, Promise!PromiseInit, PhaseOf, Messages, Fresh
<1>2. DetailInv /\ [Next]_vars => [Promise!PromiseNext]_(Promise!promiseVars)
  <2> SUFFICES ASSUME DetailInv, [Next]_vars
               PROVE  \/ UNCHANGED <<Phases, Shown, Expired>>
                      \/ Promise!PromiseNext
    BY DEF Promise!promiseVars, Phases, Shown, Expired
  <2> USE DEF Promise!PromiseNext
  <2>1. CASE EditorialStep
    BY <2>1, EditorialShows
  <2>2. CASE \E p \in Publishers : PublisherStep(p)
    BY <2>2, PublisherShows
  <2>3. ASSUME NEW p \in Publishers, TelegramStep(p)
        PROVE  UNCHANGED <<Phases, Shown, Expired>> \/ Promise!PromiseNext
    <3>1. CASE TelegramAccepts(p)
      <4>1. target[p] \in Drafts
        BY <3>1 DEF TelegramAccepts, DetailInv, IInv, RequestInv, HasTarget
      <4> QED BY <3>1, <4>1, AcceptShows
    <3>2. CASE TelegramRefuses(p) \/ RequestLost(p)
      BY <3>2, ShowsNothing
         DEF TelegramRefuses, RequestLost, dbVars, processVars
    <3> QED BY <2>3, <3>1, <3>2 DEF TelegramStep
  <2>4. CASE \E d \in Drafts : OperatorStep(d)
    BY <2>4, OperatorShows
  <2>5. CASE UNCHANGED vars
    BY <2>5, ShowsNothing DEF vars, dbVars, processVars, telegramVars
  <2> QED BY <2>1, <2>2, <2>3, <2>4, <2>5 DEF Next
<1> QED
  BY <1>1, <1>2, DetailInvariance, PTL DEF Spec, KeepsPromise, Promise!PromiseSpec
=============================================================================
