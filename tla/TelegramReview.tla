--------------------------- MODULE TelegramReview ----------------------------
(***************************************************************************)
(* TelegramUpdates and ReviewSessions together: presses on the buttons of  *)
(* a preview reach the bot as updates, and routing one is the use case     *)
(* that decides the review and publishes the draft, interrupted wherever   *)
(* its process crashes, stops or loses the lease, and taken up again by    *)
(* whoever handles the update next (HandleTelegramControlUpdateUseCase,    *)
(* route "review").                                                        *)
(***************************************************************************)
EXTENDS TelegramUpdates, ReviewSessions

VARIABLES
  press,       \* what each update asks for
  told         \* what each press was answered (history)

presses == <<press, told>>
vars == <<updateVars, reviewVars, presses>>

(* The handlers are the pollers, and there is a preview to press on. *)
ASSUME TelegramReviewAssumption == Handlers = Pollers /\ MaxPreviews >= 1

TypeOK ==
  /\ UpdatesTypeOK /\ ReviewTypeOK
  /\ press \in [Updates -> Actions \X (0..MaxPreviews)]
  /\ told \in [Updates -> SUBSET {"rejected", "published", "blocked"}]

(* Deliveries are ReviewSessions' own; here the preview is already there. *)
Init ==
  /\ UpdatesInit /\ ReviewDelivered
  /\ press = [u \in Updates |-> <<"reject", 0>>]
  /\ told = [u \in Updates |-> {}]

-----------------------------------------------------------------------------
(* Routing a press *)

(* The admin presses a button of a preview that was ever active, or sends   *)
(* what is not a press.                                                     *)
Pressed ==
  /\ Arrive
  /\ IF IsControl(arrived + 1)
     THEN \E a \in Actions, m \in bound : press' = [press EXCEPT ![arrived + 1] = <<a, m>>]
     ELSE UNCHANGED press
  /\ UNCHANGED <<reviewVars, told>>

(* requireAdmin: allowed, forbidden, or unavailable. *)
Authorise(p) ==
  /\ At(p, "route") /\ handler[p].at = "idle"
  /\ \/ /\ PressButton(p, press[Current(p)][1], press[Current(p)][2])
        /\ UNCHANGED <<updateVars, mishaps>>
     \/ /\ Route(p, "terminal") /\ UNCHANGED <<handler, mishaps>>
     \/ /\ Route(p, "retry") /\ UNCHANGED handler
        /\ IF Aborted(p) THEN UNCHANGED mishaps ELSE Mishap
  /\ UNCHANGED <<draft, session, chatVars, bound, deliverer, presses>>

(* A rejection is told on the button itself, and may get lost. *)
Toast(p) ==
  IF handler'[p].result = "rejected"
  THEN {told, [told EXCEPT ![Current(p)] = @ \cup {"rejected"}]}
  ELSE {told}

Review(p) ==
  /\ At(p, "route") /\ (Handle(p) \/ HandlerFails(p))
  /\ told' \in Toast(p)
  /\ UNCHANGED <<updateVars, press>>

(* The abort signal is looked at before the decision and the publication. *)
AbortReview(p) ==
  /\ At(p, "route") /\ Aborted(p) /\ handler[p].at \in {"decide", "publish"}
  /\ Ends(p, "retry")
  /\ UNCHANGED <<updateVars, draft, session, chatVars, bound, deliverer, mishaps,
                 presses>>

(* Mutant: an error is presented like an outcome. *)
RouteOfAny(result) == "ok"

RouteOf(result) == IF result \in {"terminal", "retry"} THEN result ELSE "ok"

Reviewed(p) ==
  /\ handler[p].at = "done" /\ Route(p, RouteOf(handler[p].result))
  /\ handler' = [handler EXCEPT ![p].at = "idle"]
  /\ UNCHANGED <<draft, session, chatVars, bound, deliverer, mishaps, presses>>

(* A publication must be told, a block may get lost, and of a rejection      *)
(* there is nothing left to tell.                                          *)
Answer(p) ==
  /\ \E got \in BOOLEAN :
       /\ got => handler[p].result # "rejected"
       /\ Present(p, handler[p].result = "published", got)
       /\ told' = IF got
                  THEN [told EXCEPT ![Current(p)] = @ \cup {handler[p].result}]
                  ELSE told
  /\ UNCHANGED <<reviewVars, press>>

(* The other steps of a poller; a process that ends takes its press along.  *)
Crashes(p) ==
  /\ Crash(p) /\ handler' = [handler EXCEPT ![p] = NoPress]
  /\ UNCHANGED <<draft, session, chatVars, bound, deliverer, mishaps, presses>>

Polls(p) ==
  /\ \/ Start(p) \/ Acquire(p) \/ LeaveLoop(p) \/ Detach(p) \/ GetUpdates(p)
     \/ Malformed(p) \/ ClaimTelegramUpdate(p) \/ FinishForeign(p)
     \/ Finish(p) \/ Settle(p) \/ RecordFailure(p) \/ LedgerUnavailable(p)
  /\ UNCHANGED <<reviewVars, presses>>

PollerTurn(p) ==
  \/ Polls(p) \/ Authorise(p) \/ Review(p) \/ AbortReview(p) \/ Reviewed(p)
  \/ Answer(p)

Beats(p) == Heartbeat(p) /\ UNCHANGED <<reviewVars, presses>>

Next ==
  \/ Pressed
  \/ \E p \in Pollers : PollerTurn(p) \/ Crashes(p) \/ Beats(p)
  \/ /\ \/ LeaseExpires \/ \E u \in Updates : ClaimGoesStale(u) \/ HandlerStalls(u)
        \/ \E p \in Pollers : Conflict(p) \/ Stop(p)
     /\ UNCHANGED <<reviewVars, presses>>
  \/ ReviewWorld /\ UNCHANGED <<updateVars, presses>>

Spec == Init /\ [][Next]_vars

(* As in TelegramUpdates; the use case runs with its poller. *)
Fairness ==
  /\ \A p \in Pollers : WF_vars(PollerTurn(p)) /\ WF_vars(Beats(p))
  /\ WF_vars(leaseOwner = Dead /\ LeaseExpires /\ UNCHANGED <<reviewVars, presses>>)
  /\ \A u \in Updates : WF_vars(ClaimGoesStale(u) /\ UNCHANGED <<reviewVars, presses>>)

FairSpec == Spec /\ Fairness

-----------------------------------------------------------------------------
(* What a press promises *)

(* An admin is told that the draft was published, blocked or rejected only  *)
(* when it is, whichever press and whichever poller did it.                 *)
AnswersAreTrue == \A u \in Updates : told[u] \subseteq {draft}

(* A press Telegram has forgotten had an effect its admin can know of: it    *)
(* was told that the draft is published, or the draft is rejected or        *)
(* blocked, of which the notice may be lost, or the press was refused for   *)
(* good, or is quarantined after all its attempts.                          *)
NoPressIsSwallowed ==
  \A u \in Updates : u < confirmed /\ IsControl(u) =>
    \/ "published" \in told[u]
    \/ draft \in {"rejected", "blocked"}
    \/ u \in refused
    \/ ledger[u].status = "quarantined" /\ ledger[u].failures >= MaxAttempts

(* A press is told the truth, and never swallowed.                          *)
PressPromise == AnswersAreTrue /\ NoPressIsSwallowed

(* An approval is acted on: the draft leaves "approved", whatever crash or  *)
(* lease loss interrupts the press, unless a Publish ends in quarantine or  *)
(* is refused, its admin no longer being one when it is taken up again.     *)
GivenUp(u) ==
  press[u][1] = "publish" /\ (u \in refused \/ ledger[u].status = "quarantined")

ApprovalIsActedOn ==
  []<>(session.decision = "publish"
         => draft # "approved" \/ \E u \in Updates : GivenUp(u))
=============================================================================
