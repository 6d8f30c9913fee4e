--------------------------- MODULE ReviewSessions ----------------------------
(***************************************************************************)
(* Review of one draft in a private Telegram chat: its session             *)
(* (telegram_review_sessions and its functions), the delivery of a preview *)
(* (application/deliver-telegram-review.use-case.ts) and the handling of a *)
(* press on Publish or Reject (decide-telegram-review.use-case.ts).        *)
(*                                                                         *)
(* Deliverers are executions of the delivery for the draft, by the /news   *)
(* job worker or the scheduler; a failed one is tried again by its caller. *)
(* Handlers are presses being handled.  The row is unique by draft, so the *)
(* buttons of every preview carry the one session.  A preview is sent      *)
(* without buttons; restoreControls shows them.  Publication of the        *)
(* approved draft is module Publication seen from the caller.              *)
(***************************************************************************)
EXTENDS Naturals, FiniteSets

CONSTANTS
  Deliverers, Handlers,
  MaxPreviews,      \* bound on preview messages
  MaxMishaps        \* bound on calls that fail or are not answered

ASSUME ReviewSessionsAssumption ==
  MaxPreviews \in Nat /\ MaxMishaps \in Nat

VARIABLES
  draft,            \* drafts.status
  session,          \* the draft's row
  sent,             \* previews 1..sent are in the chat, ...
  gone,             \*   but for those the admin deleted
  shown,            \* previews that show the buttons
  bound,            \* previews the row was ever bound to (history)
  deliverer, handler,
  mishaps

chatVars == <<sent, gone, shown>>
reviewVars == <<draft, session, chatVars, bound, deliverer, handler, mishaps>>

Previews == 1..MaxPreviews
Actions == {"publish", "reject"}
NoSession == [message |-> 0, decision |-> "none", expired |-> FALSE]

(* Mutant: the answer without a row is not told from one with. *)
ExistsUnchecked == TRUE

Exists == session.message # 0
Undecided == Exists /\ session.decision = "none"

(* message and old: the row as it was read; new: the preview just sent;     *)
(* said: what the caller was told.                                          *)
Delivery == [at : {"idle", "restore", "renew", "disable", "send", "create",
                   "rebind", "recover", "activate"},
             message : 0..MaxPreviews, old : BOOLEAN, new : 0..MaxPreviews,
             said : {"none", "failed", "ready", "unavailable"}]
NoDelivery == [at |-> "idle", message |-> 0, old |-> FALSE, new |-> 0,
               said |-> "none"]

Press == [at : {"idle", "decide", "disable", "publish", "send", "done"},
          action : Actions, message : 0..MaxPreviews,
          result : {"none", "rejected", "published", "blocked",
                    "terminal", "retry"}]
NoPress == [at |-> "idle", action |-> "reject", message |-> 0, result |-> "none"]

ReviewTypeOK ==
  /\ draft \in {"review", "approved", "publishing", "published", "rejected",
                "blocked"}
  /\ session \in [message : 0..MaxPreviews, decision : Actions \cup {"none"},
                  expired : BOOLEAN]
  /\ sent \in 0..MaxPreviews
  /\ gone \subseteq 1..sent /\ shown \subseteq 1..sent /\ bound \subseteq 1..sent
  /\ deliverer \in [Deliverers -> Delivery]
  /\ handler \in [Handlers -> Press]
  /\ mishaps \in 0..MaxMishaps

ReviewInit ==
  /\ draft = "review" /\ session = NoSession
  /\ sent = 0 /\ gone = {} /\ shown = {} /\ bound = {}
  /\ deliverer = [d \in Deliverers |-> NoDelivery]
  /\ handler = [h \in Handlers |-> NoPress]
  /\ mishaps = 0

(* One preview delivered and nothing pressed: a state ReviewInit leads to. *)
ReviewDelivered ==
  /\ draft = "review" /\ session = [NoSession EXCEPT !.message = 1]
  /\ sent = 1 /\ gone = {} /\ shown = {1} /\ bound = {1}
  /\ deliverer = [d \in Deliverers |-> [NoDelivery EXCEPT !.said = "ready"]]
  /\ handler = [h \in Handlers |-> NoPress]
  /\ mishaps = 0

Mishap == mishaps < MaxMishaps /\ mishaps' = mishaps + 1

-----------------------------------------------------------------------------
(* Delivery of the preview *)

Continue(d, point) == deliverer' = [deliverer EXCEPT ![d].at = point]
Says(d, what) ==
  deliverer' = [deliverer EXCEPT ![d] = [NoDelivery EXCEPT !.said = what]]

(* The caller asks, again after a failure or when the review expired;      *)
(* findTelegramReviewSessionByDraft.                                       *)
FindSession(d) ==
  /\ deliverer[d].at = "idle"
  /\ deliverer[d].said \in {"none", "failed"} \/ (Undecided /\ session.expired)
  /\ \/ ~Exists /\ Continue(d, "send")
     \/ /\ Exists /\ session.decision # "none"
        /\ Says(d, "unavailable")
     \/ /\ Undecided
        /\ deliverer' = [deliverer EXCEPT ![d] =
             [NoDelivery EXCEPT !.at = "restore", !.message = session.message,
                                !.old = session.expired]]
  /\ UNCHANGED <<draft, session, chatVars, bound, handler, mishaps>>

(* restoreControls on the bound preview; any error but a cancellation reads *)
(* as a missing message.                                                    *)
RestoreControls(d) ==
  LET m == deliverer[d].message
  IN /\ deliverer[d].at = "restore"
     /\ \/ /\ m \notin gone
           /\ shown' = shown \cup {m} /\ UNCHANGED mishaps
           /\ IF deliverer[d].old THEN Continue(d, "renew") ELSE Says(d, "ready")
        \/ /\ m \in gone
           /\ Continue(d, "send") /\ UNCHANGED <<shown, mishaps>>
        \/ /\ m \notin gone /\ Mishap
           /\ shown' \in {shown, shown \cup {m}} /\ Continue(d, "send")
     /\ UNCHANGED <<draft, session, sent, gone, bound, handler>>

(* renew_telegram_review_session: only a review that is still expired. *)
RenewSession(d) ==
  /\ deliverer[d].at = "renew"
  /\ IF draft = "review" /\ Undecided /\ session.expired
     THEN session' = [session EXCEPT !.expired = FALSE] /\ Says(d, "ready")
     ELSE Continue(d, "disable") /\ UNCHANGED session
  /\ UNCHANGED <<draft, chatVars, bound, handler, mishaps>>

(* disableControls, best effort, on the preview that is not to be used. *)
DisablePreview(d) ==
  LET m == IF deliverer[d].new # 0 THEN deliverer[d].new ELSE deliverer[d].message
  IN /\ deliverer[d].at = "disable"
     /\ \/ shown' = shown \ {m} /\ UNCHANGED mishaps
        \/ Mishap /\ UNCHANGED shown
     /\ Says(d, "unavailable")
     /\ UNCHANGED <<draft, session, sent, gone, bound, handler>>

(* sendReview: a preview without buttons, first or in place of another. *)
SendReview(d) ==
  /\ deliverer[d].at = "send" /\ sent < MaxPreviews
  /\ sent' = sent + 1
  /\ \/ /\ deliverer' = [deliverer EXCEPT ![d].new = sent + 1, ![d].at =
             IF deliverer[d].message = 0 THEN "create" ELSE "rebind"]
        /\ UNCHANGED mishaps
     \/ Mishap /\ Says(d, "failed")
  /\ UNCHANGED <<draft, session, gone, shown, bound, handler>>

Bind(m) ==
  /\ session' = [session EXCEPT !.message = m, !.expired = FALSE]
  /\ bound' = bound \cup {m}

(* createTelegramReviewSession: the second row of a draft is refused. *)
CreateSession(d) ==
  /\ deliverer[d].at = "create"
  /\ \/ /\ ~Exists /\ Bind(deliverer[d].new)
        /\ Continue(d, "activate") /\ UNCHANGED mishaps
     \/ /\ ~Exists /\ Mishap
        /\ Bind(deliverer[d].new) \/ UNCHANGED <<session, bound>>
        /\ Says(d, "failed")
     \/ /\ Exists /\ UNCHANGED <<session, bound, mishaps>>
        /\ Says(d, "failed")
  /\ UNCHANGED <<draft, chatVars, handler>>

(* Mutant: the rebind looks at the preview only. *)
RebindableDecided(d) == session.message = deliverer[d].message

(* rebind_telegram_review_session: only from the preview that was read. *)
Rebindable(d) ==
  draft = "review" /\ Undecided /\ session.message = deliverer[d].message

RebindSession(d) ==
  /\ deliverer[d].at = "rebind"
  /\ \/ /\ Rebindable(d) /\ Bind(deliverer[d].new)
        /\ Continue(d, "activate") /\ UNCHANGED mishaps
     \/ /\ ~Rebindable(d) /\ UNCHANGED <<session, bound, mishaps>>
        /\ Continue(d, "disable")
     \/ /\ Mishap /\ Continue(d, "recover")
        /\ \/ Rebindable(d) /\ Bind(deliverer[d].new)
           \/ UNCHANGED <<session, bound>>
  /\ UNCHANGED <<draft, chatVars, handler>>

(* Mutant: the rebind is taken for made. *)
RecoverRebindUnread(d) ==
  /\ deliverer[d].at = "recover" /\ Continue(d, "activate")
  /\ UNCHANGED <<draft, session, chatVars, bound, handler, mishaps>>

(* The rebind was not answered: was it made? *)
RecoverRebind(d) ==
  /\ deliverer[d].at = "recover"
  /\ IF Undecided /\ session.message = deliverer[d].new
     THEN Continue(d, "activate") ELSE Says(d, "failed")
  /\ UNCHANGED <<draft, session, chatVars, bound, handler, mishaps>>

(* activateControls: the bound preview gets its buttons, or the delivery    *)
(* fails.                                                                   *)
ActivateControls(d) ==
  LET m == deliverer[d].new
  IN /\ deliverer[d].at = "activate"
     /\ \/ /\ m \notin gone /\ Says(d, "ready")
           /\ shown' = shown \cup {m} /\ UNCHANGED mishaps
        \/ /\ m \in gone /\ Says(d, "failed")
           /\ UNCHANGED <<shown, mishaps>>
        \/ /\ m \notin gone /\ Mishap /\ Says(d, "failed")
           /\ shown' \in {shown, shown \cup {m}}
     /\ UNCHANGED <<draft, session, sent, gone, bound, handler>>

(* Cancelled, crashed, or a database call that failed. *)
DeliveryFails(d) ==
  /\ deliverer[d].at # "idle" /\ Mishap /\ Says(d, "failed")
  /\ UNCHANGED <<draft, session, chatVars, bound, handler>>

Deliver(d) ==
  \/ FindSession(d) \/ RestoreControls(d) \/ RenewSession(d) \/ DisablePreview(d)
  \/ SendReview(d) \/ CreateSession(d) \/ RebindSession(d) \/ RecoverRebind(d)
  \/ ActivateControls(d)

-----------------------------------------------------------------------------
(* A press on a button *)

Proceed(h, point) == handler' = [handler EXCEPT ![h].at = point]
Ends(h, result) ==
  handler' = [handler EXCEPT ![h] =
    [NoPress EXCEPT !.at = "done", !.result = result]]

(* The admin's client may still show the buttons of any preview that ever   *)
(* had them.                                                                *)
PressButton(h, a, m) ==
  handler' = [handler EXCEPT ![h] =
    [NoPress EXCEPT !.at = "decide", !.action = a, !.message = m]]

(* Mutant: the row is not locked, a decision or two may be under way. *)
DecidableTwice == ~session.expired

Decidable == session.decision = "none" /\ ~session.expired /\ draft = "review"

(* Mutant: a second press on Publish is answered as the first was. *)
ResumeAsDone(h) == Ends(h, "published")

(* A press on a review already decided to be published goes on to publish. *)
Resume(h) == Proceed(h, "publish")

(* decide_telegram_review_session and the error it is turned into. *)
DecideSession(h) ==
  LET a == handler[h].action
      known == Exists /\ session.message = handler[h].message
  IN /\ handler[h].at = "decide"
     /\ \/ /\ known /\ Decidable
           /\ session' = [session EXCEPT !.decision = a]
           /\ draft' = IF a = "publish" THEN "approved" ELSE "rejected"
           /\ Proceed(h, "disable")
        \/ /\ UNCHANGED <<draft, session>>
           /\ \/ /\ known /\ session.decision = "publish"
                 /\ Resume(h)
              \/ /\ known /\ session.decision = "reject"
                 /\ Ends(h, "rejected")
              \/ /\ known => session.decision = "none" /\ session.expired
                 /\ Ends(h, "terminal")
     /\ UNCHANGED <<chatVars, bound, deliverer, mishaps>>

(* The winning press takes the buttons away, best effort. *)
DisableControls(h) ==
  /\ handler[h].at = "disable"
  /\ \/ shown' = shown \ {handler[h].message} /\ UNCHANGED mishaps
     \/ Mishap /\ UNCHANGED shown
  /\ IF session.decision = "publish" THEN Proceed(h, "publish")
                                     ELSE Ends(h, "rejected")
  /\ UNCHANGED <<draft, session, sent, gone, bound, deliverer>>

(* Mutant: a publication under way is answered as one that is done. *)
PublishApprovedDraftTold(h) ==
  /\ handler[h].at = "publish"
  /\ \/ /\ draft \in {"published", "publishing"}
        /\ Ends(h, "published") /\ UNCHANGED draft
     \/ /\ draft = "approved"
        /\ draft' = "publishing" /\ Proceed(h, "send")
  /\ UNCHANGED <<session, chatVars, bound, deliverer, mishaps>>

(* publishApprovedDraft up to its claim of the draft ... *)
PublishApprovedDraft(h) ==
  /\ handler[h].at = "publish"
  /\ \/ /\ draft = "published"
        /\ Ends(h, "published") /\ UNCHANGED draft
     \/ /\ draft \in {"approved", "blocked"}
        /\ draft' = "blocked" /\ Ends(h, "blocked")
     \/ /\ draft = "approved"
        /\ draft' = "publishing" /\ Proceed(h, "send")
     \/ /\ draft = "publishing"
        /\ Ends(h, "retry") /\ UNCHANGED draft
  /\ UNCHANGED <<session, chatVars, bound, deliverer, mishaps>>

(* ... and the send: done, refused by Telegram, or unresolved. *)
SendPublication(h) ==
  /\ handler[h].at = "send"
  /\ \/ /\ draft' = "published" /\ Ends(h, "published") /\ UNCHANGED mishaps
     \/ /\ Mishap
        /\ \/ draft' = "approved" /\ Ends(h, "retry")
           \/ UNCHANGED draft /\ Ends(h, "terminal")
  /\ UNCHANGED <<session, chatVars, bound, deliverer>>

(* A call that throws: tried again with the update. *)
HandlerFails(h) ==
  /\ handler[h].at \in {"decide", "publish"} /\ Mishap
  /\ Ends(h, "retry")
  /\ UNCHANGED <<draft, session, chatVars, bound, deliverer>>

Handle(h) ==
  \/ DecideSession(h) \/ DisableControls(h) \/ PublishApprovedDraft(h)
  \/ SendPublication(h)

-----------------------------------------------------------------------------
(* The admin, the operator and time *)

SessionExpires ==
  /\ Undecided /\ ~session.expired
  /\ session' = [session EXCEPT !.expired = TRUE]
  /\ UNCHANGED <<draft, chatVars, bound, deliverer, handler, mishaps>>

DeletePreview ==
  /\ \E m \in shown : gone' = gone \cup {m} /\ shown' = shown \ {m}
  /\ UNCHANGED <<draft, session, sent, bound, deliverer, handler, mishaps>>

(* reconcile-sent and reconcile-not-sent, when nobody is sending. *)
ReconcilePublication ==
  /\ draft = "publishing" /\ \A h \in Handlers : handler[h].at # "send"
  /\ draft' \in {"approved", "published"}
  /\ UNCHANGED <<session, chatVars, bound, deliverer, handler, mishaps>>

ReviewWorld == SessionExpires \/ DeletePreview \/ ReconcilePublication

ReviewNext ==
  \/ ReviewWorld
  \/ \E d \in Deliverers : Deliver(d) \/ DeliveryFails(d)
  \/ \E h \in Handlers :
       \/ Handle(h) \/ HandlerFails(h)
       \/ /\ handler[h].at \in {"idle", "done"}
          /\ \E a \in Actions, m \in bound : PressButton(h, a, m)
          /\ UNCHANGED <<draft, session, chatVars, bound, deliverer, mishaps>>

ReviewSpec == ReviewInit /\ [][ReviewNext]_reviewVars
-----------------------------------------------------------------------------
(* What a review promises *)

(* Buttons are shown only on a preview the session was bound to first: a    *)
(* send or an insert whose outcome is unknown leaves an inert preview.      *)
InertUntilBound == shown \subseteq bound

(* The draft goes the way of the one decision: two presses, or a press and  *)
(* a delivery, that race leave no approved reject and no rejected publish.  *)
DraftFollowsDecision ==
  /\ draft = "review" <=> session.decision = "none"
  /\ draft = "rejected" <=> session.decision = "reject"

(* A decided session is never bound again, renewed or decided otherwise. *)
DecisionIsFinal ==
  [][session.decision # "none" => session' = session]_reviewVars

(* Buttons only on a preview the session knows, and one decision, which is  *)
(* final and which the draft follows.                                       *)
ReviewPromise ==
  [](InertUntilBound /\ DraftFollowsDecision) /\ DecisionIsFinal
=============================================================================
