------------------------- MODULE TelegramReviewProofs -------------------------
(***************************************************************************)
(* Theorems about TelegramReview: it polls as TelegramUpdates does, and it *)
(* tells the admin the truth, for any number of pollers, presses, previews, *)
(* crashes and mishaps.                                                    *)
(***************************************************************************)
EXTENDS TelegramReview, ConversationProofs

-----------------------------------------------------------------------------
(* Handling presses is a way of routing updates                            *)

(* Every step of the composition is one of the update router, or a stutter.  *)
LEMMA StepIsUpdatesStep ==
  ASSUME [Next]_vars
  PROVE  [UpdatesNext]_updateVars
<1>1. CASE UNCHANGED vars
  BY <1>1 DEF vars
<1>2. CASE Pressed
  BY <1>2 DEF Pressed, UpdatesNext, Outside
<1>3. ASSUME NEW p \in Pollers, PollerTurn(p)
      PROVE  [UpdatesNext]_updateVars
  <2>1. CASE Polls(p)
    BY <2>1 DEF Polls, PollerStep, UpdatesNext
  <2>2. CASE Authorise(p)
    BY <2>2 DEF Authorise, Routes, UpdatesNext
  <2>3. CASE Review(p) \/ AbortReview(p)
    BY <2>3 DEF Review, AbortReview
  <2>4. CASE Reviewed(p)
    <3>1. RouteOf(handler[p].result) \in {"ok", "terminal", "retry"}
      BY DEF RouteOf
    <3> QED BY <2>4, <3>1 DEF Reviewed, Routes, UpdatesNext
  <2>5. CASE Answer(p)
    BY <2>5 DEF Answer, Presents, PollerStep, UpdatesNext
  <2> QED BY <1>3, <2>1, <2>2, <2>3, <2>4, <2>5 DEF PollerTurn
<1>4. ASSUME NEW p \in Pollers, Crashes(p) \/ Beats(p)
      PROVE  [UpdatesNext]_updateVars
  BY <1>4 DEF Crashes, Beats, UpdatesNext, Outside
<1>5. CASE \/ LeaseExpires \/ \E u \in Updates : ClaimGoesStale(u) \/ HandlerStalls(u)
           \/ \E p \in Pollers : Conflict(p) \/ Stop(p)
  BY <1>5 DEF UpdatesNext, Outside
<1>6. CASE ReviewWorld /\ UNCHANGED <<updateVars, presses>>
  BY <1>6
<1> QED BY <1>1, <1>2, <1>3, <1>4, <1>5, <1>6 DEF Next

(* Whatever a press does, its update is polled, claimed and closed as      *)
(* TelegramUpdates says.                                                   *)
THEOREM PollsAsUpdates == Spec => UpdatesSpec
<1>1. Init => UpdatesInit
  BY DEF Init
<1> QED BY <1>1, StepIsUpdatesStep, PTL DEF Spec, UpdatesSpec

-----------------------------------------------------------------------------
(* What the admin is told                                                  *)

(* An admin whose press was answered was told that the draft is published, *)
(* or finds it rejected or blocked.                                        *)
HeardOf(u) == "published" \in told[u] \/ draft \in {"rejected", "blocked"}

(* Every answer names what the draft came to.  Whoever presents an answer  *)
(* has one.                                                                *)
ToldInv ==
  /\ told \in [Updates -> SUBSET Outcomes]
  /\ AnswersAreTrue
  /\ \A u \in answered : HeardOf(u)
  /\ \A p \in Pollers : At(p, "present") => handler[p].result \in Outcomes

PressInv == press \in [Updates -> Actions \X (0..MaxPreviews)]

ConversationInv == LedgerInv /\ ReviewInv /\ PressInv /\ ToldInv

(* A draft published, blocked or rejected stays so.                        *)
LEMMA OutcomeStands ==
  ASSUME ReviewInv, draft \in Outcomes,
         ReviewWorld \/ \E h \in Handlers : Handle(h) \/ HandlerFails(h)
  PROVE  draft' = draft
<1>1. ASSUME NEW h \in Handlers, Handle(h) PROVE draft' = draft
  <2>1. HandlerAt(h)
    BY DEF ReviewInv
  <2> QED
    BY <1>1, <2>1 DEF Handle, DecideSession, Decidable, DisableControls,
      PublishApprovedDraft, SendPublication, HandlerAt, Outcomes
<1>2. CASE ReviewWorld
  BY <1>2 DEF ReviewWorld, SessionExpires, DeletePreview, ReconcilePublication,
    Outcomes
<1> QED BY <1>1, <1>2 DEF HandlerFails

(* A step that tells at most what the draft has come to, and leaves         *)
(* outcomes as they are.                                                   *)
LEMMA TruthTold ==
  ASSUME ConversationInv, draft \in Outcomes => draft' = draft,
         told' \in [Updates -> SUBSET Outcomes],
         \A u \in Updates : /\ told[u] \subseteq told'[u]
                            /\ told'[u] \subseteq told[u] \cup {draft'},
         \A u \in answered' : u \in answered \/ HeardOf(u)',
         \A p \in Pollers : At(p, "present")'
           => \/ At(p, "present") /\ handler'[p].result = handler[p].result
              \/ handler'[p].result \in Outcomes
  PROVE  ToldInv'
<1>1. \A u \in Updates : told[u] # {} => draft' = draft
  BY DEF ConversationInv, ToldInv, AnswersAreTrue
<1>2. AnswersAreTrue'
  BY <1>1 DEF ConversationInv, ToldInv, AnswersAreTrue
<1>3. \A u \in answered : u \in Updates /\ HeardOf(u)
  BY DEF ConversationInv, LedgerInv, CursorsInv, UpdatesTypeOK, ToldInv
<1>4. \A u \in answered : HeardOf(u)'
  BY <1>3 DEF HeardOf, Outcomes
<1>5. \A p \in Pollers : At(p, "present")' => handler'[p].result \in Outcomes
  BY DEF ConversationInv, ToldInv
<1> QED BY <1>2, <1>4, <1>5 DEF ToldInv

(* A step that tells nobody anything and leaves outcomes as they are.      *)
LEMMA NothingTold ==
  ASSUME ConversationInv, UNCHANGED <<told, answered>>,
         draft \in Outcomes => draft' = draft,
         \A p \in Pollers : At(p, "present")'
           => \/ At(p, "present") /\ handler'[p].result = handler[p].result
              \/ handler'[p].result \in Outcomes
  PROVE  ToldInv'
<1>1. told' \in [Updates -> SUBSET Outcomes] /\ told' = told
  BY DEF ConversationInv, ToldInv
<1> QED BY <1>1, TruthTold

(* Only routing brings a poller to the point where it presents an answer.  *)
LEMMA PresentIsRouted ==
  ASSUME UpdatesTypeOK, NEW q \in Pollers, At(q, "present")',
         Outside \/ \E p \in Pollers : Polls(p)
  PROVE  At(q, "present")
<1>1. poller \in [Pollers -> Process]
  BY DEF UpdatesTypeOK
<1>2. ASSUME UNCHANGED poller PROVE At(q, "present")
  BY <1>2 DEF At
<1>3. ASSUME NEW p \in Pollers,
             \/ poller' = [poller EXCEPT ![p].lost = TRUE]
             \/ poller' = [poller EXCEPT ![p].stopping = TRUE]
             \/ poller' = [poller EXCEPT ![p].detached = TRUE]
      PROVE  At(q, "present")
  BY <1>1, <1>3 DEF At, Process
<1>4. ASSUME NEW p \in Pollers, NEW point, point # "present",
             Go(p, point) \/ \E v : GoWith(p, point, v)
      PROVE  At(q, "present")
  BY <1>1, <1>4 DEF At, Go, GoWith, Process
<1>5. ASSUME NEW p \in Pollers, Leave(p) \/ poller' = [poller EXCEPT ![p] = Down]
      PROVE  At(q, "present")
  BY <1>1, <1>5 DEF At, Leave, Down
<1>6. ASSUME NEW p \in Pollers, Acknowledge(p) \/ \E tries : PollAgain(p, tries)
      PROVE  At(q, "present")
  <2>1. poller[p] \in Process
    BY <1>1
  <2>2. CASE Acknowledge(p)
    BY <1>1, <2>1, <2>2 DEF At, Acknowledge, Process
  <2>3. ASSUME NEW tries, PollAgain(p, tries)
        PROVE  poller'[p].at = "poll"
               /\ \A r \in Pollers \ {p} : poller'[r] = poller[r]
    BY <1>1, <2>1, <2>3 DEF PollAgain, Process
  <2> QED BY <1>6, <2>2, <2>3 DEF At
<1>7. ASSUME NEW p \in Pollers, NEW pending,
             poller' = [poller EXCEPT ![p].at = "update", ![p].batch = pending]
      PROVE  At(q, "present")
  BY <1>1, <1>7 DEF At, Process
<1>8. CASE Outside
  BY <1>2, <1>3, <1>5, <1>8 DEF Outside, Arrive, LeaseExpires, ClaimGoesStale,
    HandlerStalls, Stale, Heartbeat, Conflict, Crash, Stop
<1>9. ASSUME NEW p \in Pollers, Polls(p) PROVE At(q, "present")
  <2>1. CASE Start(p) \/ Acquire(p) \/ LeaveLoop(p) \/ Detach(p) \/ Malformed(p)
    BY <1>3, <1>4, <1>5, <2>1 DEF Start, Acquire, LeaveLoop, Detach, Malformed
  <2>2. CASE GetUpdates(p)
    BY <1>2, <1>7, <2>2 DEF GetUpdates
  <2>3. ASSUME NEW acknowledged, HandlerEnds(p, acknowledged)
        PROVE  At(q, "present")
    BY <1>4, <1>5, <1>6, <2>3 DEF HandlerEnds
  <2>4. CASE ClaimTelegramUpdate(p)
    <3>1. CASE Go(p, IF IsControl(Current(p)) THEN "route" ELSE "foreign")
      BY <1>4, <3>1
    <3> QED BY <1>4, <1>6, <2>4, <3>1 DEF ClaimTelegramUpdate
  <2>5. CASE FinishForeign(p) \/ Finish(p) \/ Settle(p)
    BY <1>4, <1>6, <2>3, <2>5 DEF FinishForeign, Finish, Settle
  <2>6. CASE RecordFailure(p) \/ LedgerUnavailable(p)
    BY <1>5, <1>6, <2>6 DEF RecordFailure, LedgerUnavailable
  <2> QED BY <1>9, <2>1, <2>2, <2>4, <2>5, <2>6 DEF Polls
<1> QED BY <1>8, <1>9

(* Nor does any other step answer.                                         *)
LEMMA NothingAnswered ==
  ASSUME Outside \/ \E p \in Pollers : Polls(p)
  PROVE  UNCHANGED answered
BY DEF Outside, Arrive, LeaseExpires, ClaimGoesStale, HandlerStalls, Stale,
  Heartbeat, Conflict, Crash, Stop, Polls, Start, Acquire, LeaveLoop, Detach,
  GetUpdates, Malformed, ClaimTelegramUpdate, FinishForeign, Finish, Settle,
  RecordFailure, LedgerUnavailable, historyVars

(* Handling a press leaves the other handlers alone.                       *)
LEMMA OtherHandlers ==
  ASSUME ReviewInv, NEW h \in Handlers, Handle(h) \/ HandlerFails(h)
  PROVE  \A g \in Handlers \ {h} : handler'[g] = handler[g]
BY DEF ReviewInv, ReviewTypeOK, Handle, HandlerFails, DecideSession, Resume,
  DisableControls, PublishApprovedDraft, SendPublication, Proceed, Ends

(* Routing moves one process: to present its answer, or to settle.         *)
LEMMA RouteMoves ==
  ASSUME UpdatesTypeOK, NEW p \in Pollers, NEW r \in {"ok", "terminal", "retry"},
         Route(p, r)
  PROVE  /\ \A q \in Pollers \ {p} : poller'[q] = poller[q]
         /\ At(p, "present")' => r = "ok"
BY DEF UpdatesTypeOK, Process, Route, Go, GoWith, At

(* A step on the updates alone.                                            *)
LEMMA UpdatesAlone ==
  ASSUME ConversationInv, UNCHANGED <<reviewVars, told, answered>>,
         \A p \in Pollers : At(p, "present")' => At(p, "present")
  PROVE  ReviewInv' /\ ToldInv'
<1>1. ReviewInv'
  BY ReviewInductive DEF ConversationInv
<1>2. UNCHANGED <<draft, handler>>
  BY DEF reviewVars
<1> QED BY <1>1, <1>2, NothingTold

(* A step on the handler of a process that is routing.                     *)
LEMMA RoutingTells ==
  ASSUME ConversationInv, NEW p \in Pollers, At(p, "route"),
         UNCHANGED <<told, answered>>,
         \A q \in Pollers \ {p} : handler'[q] = handler[q] /\ poller'[q] = poller[q],
         draft \in Outcomes => draft' = draft,
         At(p, "present")' => handler'[p].result \in Outcomes
  PROVE  ToldInv'
<1>1. ASSUME NEW q \in Pollers, At(q, "present")'
      PROVE  \/ At(q, "present") /\ handler'[q].result = handler[q].result
             \/ handler'[q].result \in Outcomes
  BY <1>1 DEF At
<1> QED BY <1>1, NothingTold

(* Every step of the composition keeps its invariant.                        *)
LEMMA ConversationKept ==
  ASSUME ConversationInv, [Next]_vars
  PROVE  ConversationInv'
<1>1. /\ LedgerInv' /\ CursorsInv /\ UpdatesTypeOK /\ ReviewTypeOK /\ ReviewInv
      /\ poller \in [Pollers -> Process] /\ Handlers = Pollers
      /\ handler \in [Handlers -> Press]
  BY StepIsUpdatesStep, LedgerInductive, TelegramReviewAssumption
     DEF ConversationInv, LedgerInv, CursorsInv, UpdatesTypeOK, ReviewInv,
         ReviewTypeOK
<1>2. PressInv'
  <2>1. CASE Pressed
    <3>1. arrived + 1 \in Updates
      BY <1>1, <2>1, TelegramUpdatesAssumption
         DEF Pressed, Arrive, UpdatesTypeOK, Updates
    <3>2. bound \subseteq 0..MaxPreviews
      BY <1>1, ReviewSessionsAssumption DEF ReviewTypeOK
    <3> QED BY <2>1, <3>1, <3>2 DEF Pressed, ConversationInv, PressInv
  <2>2. CASE ~Pressed
    BY <2>2 DEF Next, vars, PollerTurn, Polls, Authorise, Review, AbortReview,
      Reviewed, Answer, Crashes, Beats, presses, ConversationInv, PressInv
  <2> QED BY <2>1, <2>2
<1> SUFFICES ReviewInv' /\ ToldInv'
  BY <1>1, <1>2 DEF ConversationInv
<1>3. CASE UNCHANGED vars
  BY <1>3, UpdatesAlone DEF vars, updateVars, historyVars, presses, At
<1>4. CASE Pressed
  BY <1>4, UpdatesAlone DEF Pressed, Arrive, historyVars, At
<1>5. ASSUME NEW p \in Pollers, Polls(p) PROVE ReviewInv' /\ ToldInv'
  BY <1>1, <1>5, UpdatesAlone, PresentIsRouted, NothingAnswered DEF Polls, presses
<1>6. ASSUME NEW p \in Pollers, Authorise(p) PROVE ReviewInv' /\ ToldInv'
  <2>1. /\ At(p, "route") /\ UNCHANGED <<told, answered>>
        /\ UNCHANGED <<draft, session, chatVars, bound, deliverer>>
    BY <1>6 DEF Authorise, Route, updateVars, historyVars, presses
  <2>2. CASE /\ PressButton(p, press[Current(p)][1], press[Current(p)][2])
             /\ UNCHANGED <<updateVars, mishaps>>
    <3>1. Current(p) \in Updates
      BY <1>1, <2>1, CurrentInHand DEF CursorsInv, CursorInv, CursorAt, At,
        InHand, Handling
    <3>2. /\ press[Current(p)][1] \in Actions
          /\ press[Current(p)][2] \in 0..MaxPreviews
      BY <3>1 DEF ConversationInv, PressInv
    <3>3. ReviewInv'
      BY <1>1, <2>1, <2>2, <3>2, PressedKept
    <3>4. \A q \in Pollers \ {p} : handler'[q] = handler[q] /\ poller'[q] = poller[q]
      BY <1>1, <2>2 DEF PressButton, updateVars
    <3> QED BY <2>1, <2>2, <3>3, <3>4, RoutingTells DEF At, updateVars
  <2>3. CASE /\ \E r \in {"terminal", "retry"} : Route(p, r)
             /\ UNCHANGED handler /\ (Mishap \/ UNCHANGED mishaps)
    <3>1. ReviewInv'
      <4>1. ReviewTypeOK'
        BY <1>1, <2>1, <2>3, MishapType DEF ReviewTypeOK, chatVars
      <4> QED
        BY <1>1, <2>1, <2>3, <4>1 DEF ReviewInv, SessionInv, Exists, DeliveryAt,
          HandlerAt, OneSender, InertUntilBound, DraftFollowsDecision, chatVars
    <3> QED BY <1>1, <2>1, <2>3, <3>1, RouteMoves, RoutingTells
  <2> QED BY <1>6, <2>2, <2>3 DEF Authorise
<1>7. ASSUME NEW p \in Pollers, Review(p) PROVE ReviewInv' /\ ToldInv'
  <2>1. /\ At(p, "route") /\ UNCHANGED <<answered, poller>> /\ p \in Handlers
        /\ Handle(p) \/ HandlerFails(p)
    BY <1>1, <1>7 DEF Review, updateVars, historyVars
  <2>2. ReviewInv' /\ (draft \in Outcomes => draft' = draft)
    BY <1>1, <2>1, HandleKept, FailureKept, OutcomeStands
  <2>3. \A q \in Pollers \ {p} : handler'[q] = handler[q]
    BY <1>1, <2>1, OtherHandlers
  <2>4. handler'[p].result = "rejected" => draft' = "rejected"
    BY <2>1, <2>2 DEF ReviewInv, HandlerAt, Outcomes
  <2>5. \/ told' = told
        \/ /\ told' = [told EXCEPT ![Current(p)] = told[Current(p)] \cup {"rejected"}]
           /\ draft' = "rejected"
    BY <1>7, <2>4 DEF Review, Toast
  <2>6. told \in [Updates -> SUBSET Outcomes]
    BY DEF ConversationInv, ToldInv
  <2>7. /\ told' \in [Updates -> SUBSET Outcomes]
        /\ \A u \in Updates : /\ told[u] \subseteq told'[u]
                              /\ told'[u] \subseteq told[u] \cup {draft'}
    BY <2>5, <2>6 DEF Outcomes
  <2>8. \A q \in Pollers : At(q, "present")'
          => At(q, "present") /\ handler'[q].result = handler[q].result
    BY <2>1, <2>3 DEF At
  <2> QED BY <2>1, <2>2, <2>7, <2>8, TruthTold
<1>8. ASSUME NEW p \in Pollers, AbortReview(p) PROVE ReviewInv' /\ ToldInv'
  <2>1. /\ At(p, "route") /\ UNCHANGED <<told, answered, poller>>
        /\ p \in Handlers
        /\ UNCHANGED <<draft, session, chatVars, bound, deliverer, mishaps>>
        /\ Ends(p, "retry")
    BY <1>1, <1>8 DEF AbortReview, presses, updateVars, historyVars
  <2>2. ReviewInv'
    BY <1>1, <2>1, EndedKept
  <2>3. \A q \in Pollers \ {p} : handler'[q] = handler[q]
    BY <1>1, <2>1 DEF Ends
  <2> QED BY <2>1, <2>2, <2>3, RoutingTells DEF At
<1>9. ASSUME NEW p \in Pollers, Reviewed(p) PROVE ReviewInv' /\ ToldInv'
  <2>1. /\ At(p, "route") /\ UNCHANGED <<told, answered>> /\ p \in Handlers
        /\ UNCHANGED <<draft, session, chatVars, bound, deliverer, mishaps>>
        /\ handler' = [handler EXCEPT ![p].at = "idle"]
        /\ handler[p].at = "done"
    BY <1>1, <1>9 DEF Reviewed, Route, presses
  <2>2. [handler[p] EXCEPT !.at = "idle"] \in Press
    BY <1>1, <2>1 DEF Press
  <2>3. /\ handler' \in [Handlers -> Press] /\ handler'[p].at = "idle"
        /\ handler'[p].result = handler[p].result
        /\ \A q \in Pollers \ {p} : handler'[q] = handler[q]
    BY <1>1, <2>1, <2>2 DEF Press
  <2>4. HandlerAt(p) /\ HandlerAt(p)' /\ DraftFollowsDecision'
    BY <1>1, <2>1, <2>3 DEF ReviewInv, HandlerAt, DraftFollowsDecision
  <2>5. ReviewInv'
    BY <1>1, <2>1, <2>3, <2>4, PressKeeps DEF PressStep, chatVars, ReviewTypeOK
  <2>6. RouteOf(handler[p].result) = "ok" => handler[p].result \in Outcomes
    <3>1. handler[p].result \in {"none", "rejected", "published", "blocked",
                                 "terminal", "retry"}
      BY <1>1, <2>1 DEF Press
    <3> QED BY <2>1, <2>4, <3>1 DEF RouteOf, HandlerAt, Outcomes
  <2>7. /\ RouteOf(handler[p].result) \in {"ok", "terminal", "retry"}
        /\ Route(p, RouteOf(handler[p].result))
    BY <1>9 DEF RouteOf, Reviewed
  <2> QED BY <1>1, <2>1, <2>3, <2>5, <2>6, <2>7, RouteMoves, RoutingTells
<1>10. ASSUME NEW p \in Pollers, Answer(p) PROVE ReviewInv' /\ ToldInv'
  <2> DEFINE must == handler[p].result = "published"
  <2> PICK got \in BOOLEAN :
        /\ Present(p, must, got)
        /\ told' = IF got
                   THEN [told EXCEPT ![Current(p)] = told[Current(p)] \cup {handler[p].result}]
                   ELSE told
    BY <1>10 DEF Answer
  <2>1. /\ At(p, "present") /\ UNCHANGED <<draft, handler>>
        /\ ReviewInv' /\ Current(p) \in Updates
    BY <1>1, <1>10, ReviewInductive, CurrentInHand
       DEF Answer, Present, reviewVars, CursorsInv, CursorInv, CursorAt, At,
           InHand, Handling
  <2>2. handler[p].result \in Outcomes /\ handler[p].result = draft
    BY <1>1, <2>1 DEF ConversationInv, ToldInv, ReviewInv, HandlerAt
  <2>3. \A q \in Pollers : At(q, "present")'
          => At(q, "present") /\ handler'[q].result = handler[q].result
    BY <1>1, <2>1 DEF Present, Go, GoWith, At, Process
  <2>4. told \in [Updates -> SUBSET Outcomes]
    BY DEF ConversationInv, ToldInv
  <2>5. /\ told' \in [Updates -> SUBSET Outcomes]
        /\ \A u \in Updates : /\ told[u] \subseteq told'[u]
                              /\ told'[u] \subseteq told[u] \cup {draft'}
        /\ got => handler[p].result \in told'[Current(p)]
    BY <2>1, <2>2, <2>4
  <2>6. ASSUME NEW u \in answered', u \notin answered PROVE HeardOf(u)'
    <3>1. u = Current(p) /\ (got \/ ~must)
      BY <2>6 DEF Present
    <3> QED BY <2>1, <2>2, <2>5, <3>1 DEF HeardOf, Outcomes
  <2> QED BY <2>1, <2>3, <2>5, <2>6, TruthTold
<1>11. ASSUME NEW p \in Pollers, Crashes(p) PROVE ReviewInv' /\ ToldInv'
  <2>1. /\ UNCHANGED <<told, answered>> /\ p \in Handlers
        /\ UNCHANGED <<draft, session, chatVars, bound, deliverer, mishaps>>
        /\ handler' = [handler EXCEPT ![p] = NoPress]
        /\ poller' = [poller EXCEPT ![p] = Down]
    BY <1>1, <1>11 DEF Crashes, Crash, presses, historyVars
  <2>2. NoPress \in Press /\ handler'[p] = NoPress
    BY <1>1, <2>1, ReviewSessionsAssumption DEF NoPress, Press, Actions
  <2>3. PressStep(p) /\ HandlerAt(p)' /\ DraftFollowsDecision'
    BY <1>1, <2>1, <2>2 DEF PressStep, HandlerAt, NoPress, Outcomes, ReviewInv,
      ReviewTypeOK, DraftFollowsDecision, chatVars
  <2>4. ReviewInv'
    BY <1>1, <2>1, <2>2, <2>3, PressKeeps DEF NoPress, ReviewTypeOK
  <2>5. \A q \in Pollers : At(q, "present")'
          => At(q, "present") /\ handler'[q].result = handler[q].result
    BY <1>1, <2>1 DEF At, Down
  <2> QED BY <2>1, <2>4, <2>5, NothingTold
<1>12. CASE /\ UNCHANGED <<reviewVars, presses>>
            /\ \/ LeaseExpires
               \/ \E u \in Updates : ClaimGoesStale(u) \/ HandlerStalls(u)
               \/ \E p \in Pollers : Conflict(p) \/ Stop(p) \/ Heartbeat(p)
  BY <1>1, <1>12, UpdatesAlone, PresentIsRouted, NothingAnswered
     DEF Outside, presses
<1>13. CASE ReviewWorld /\ UNCHANGED <<updateVars, presses>>
  <2>1. ReviewInv' /\ (draft \in Outcomes => draft' = draft)
    BY <1>1, <1>13, WorldKept, OutcomeStands
  <2>2. UNCHANGED <<handler, poller, told, answered>>
    BY <1>13 DEF ReviewWorld, SessionExpires, DeletePreview,
      ReconcilePublication, updateVars, historyVars, presses
  <2> QED BY <2>1, <2>2, NothingTold DEF At
<1> QED
  BY <1>3, <1>4, <1>5, <1>6, <1>7, <1>8, <1>9, <1>10, <1>11, <1>12, <1>13
     DEF Next, PollerTurn, Beats

(* The composition starts in its invariant.                                  *)
LEMMA ConversationStarts == Init => ConversationInv
<1> SUFFICES ASSUME Init PROVE ConversationInv
  OBVIOUS
<1>1. LedgerInv
  BY LedgerInductive DEF Init
<1>2. ReviewInv
  <2>1. 0 \in 0..MaxPreviews /\ 1 \in 0..MaxPreviews /\ 0 \in 0..MaxMishaps
    BY ReviewSessionsAssumption, TelegramReviewAssumption
  <2>2. [NoDelivery EXCEPT !.said = "ready"] \in Delivery /\ NoPress \in Press
    BY <2>1 DEF NoDelivery, Delivery, NoPress, Press, Actions
  <2>3. ReviewTypeOK
    <3>1. [NoSession EXCEPT !.message = 1]
            \in [message : 0..MaxPreviews, decision : Actions \cup {"none"},
                 expired : BOOLEAN]
      BY <2>1 DEF NoSession
    <3>2. sent = 1 /\ gone = {} /\ shown = {1} /\ bound = {1} /\ 1 \in 1..1
      BY DEF Init, ReviewDelivered
    <3>3. /\ deliverer \in [Deliverers -> Delivery]
          /\ handler \in [Handlers -> Press]
      BY <2>2 DEF Init, ReviewDelivered
    <3> QED
      BY <2>1, <3>1, <3>2, <3>3 DEF Init, ReviewDelivered, ReviewTypeOK
  <2> QED
    BY <2>3 DEF Init, ReviewDelivered, ReviewInv, NoSession, NoDelivery,
      NoPress, SessionInv, Exists, DeliveryAt, HandlerAt, Outcomes, OneSender,
      InertUntilBound, DraftFollowsDecision
<1>3. PressInv /\ ToldInv
  BY ReviewSessionsAssumption DEF Init, PressInv, ToldInv, AnswersAreTrue,
    HeardOf, Actions, UpdatesInit, Down, At
<1> QED BY <1>1, <1>2, <1>3 DEF ConversationInv

(* The invariant holds in every reachable state.                             *)
LEMMA ConversationCorrect == Spec => []ConversationInv
BY ConversationStarts, ConversationKept, PTL DEF Spec

(* Every variable of the pollers, the review and the presses keeps its type. *)
THEOREM TypeCorrect == Spec => []TypeOK
<1>1. ConversationInv => TypeOK
  BY DEF ConversationInv, LedgerInv, CursorsInv, ReviewInv, PressInv, ToldInv,
    TypeOK, Outcomes
<1> QED BY <1>1, ConversationCorrect, PTL

(* An admin is told that the draft was published, blocked or rejected only *)
(* when it is, whichever of the pollers that crash, stop, stall or lose     *)
(* their lease handled the press, and however often.                       *)
THEOREM AnswersAreTrueHolds == Spec => []AnswersAreTrue
<1>1. ConversationInv => AnswersAreTrue
  BY DEF ConversationInv, ToldInv
<1> QED BY <1>1, ConversationCorrect, PTL

(* No press is swallowed: what Telegram has forgotten was told that the     *)
(* draft is published, or the draft is rejected or blocked, or the press   *)
(* was refused for good, or quarantined after all its attempts.            *)
THEOREM NoPressIsSwallowedHolds == Spec => []NoPressIsSwallowed
<1>1. ConversationInv => NoPressIsSwallowed
  <2> SUFFICES ASSUME ConversationInv, NEW u \in Updates, u < confirmed,
                      IsControl(u)
               PROVE  \/ "published" \in told[u]
                      \/ draft \in {"rejected", "blocked"}
                      \/ u \in refused
                      \/ /\ ledger[u].status = "quarantined"
                         /\ ledger[u].failures >= MaxAttempts
    BY DEF NoPressIsSwallowed
  <2>1. IsClosed(u) /\ Accounted(u)
    BY DEF ConversationInv, LedgerInv, CursorsInv, ForgottenInv, AccountInv
  <2>2. u \in answered => "published" \in told[u] \/ draft \in {"rejected", "blocked"}
    BY DEF ConversationInv, ToldInv, HeardOf
  <2> QED BY <2>1, <2>2 DEF IsClosed, Closed, Accounted, IsControl, IsMalformed
<1> QED BY <1>1, ConversationCorrect, PTL

(* Whoever presses a button is told the truth, and is not forgotten.        *)
THEOREM PressPromiseHolds == Spec => []PressPromise
<1>1. AnswersAreTrue /\ NoPressIsSwallowed => PressPromise
  BY DEF PressPromise
<1> QED BY <1>1, AnswersAreTrueHolds, NoPressIsSwallowedHolds, PTL

(* While presses reach the review as updates a decided session is left     *)
(* alone.                                                                  *)
LEMMA DecisionStands ==
  ASSUME ConversationInv, [Next]_vars, session.decision # "none"
  PROVE  session' = session
<1>1. CASE ReviewWorld
  BY <1>1, WorldKept DEF ConversationInv
<1>2. ASSUME NEW p \in Pollers, Review(p) PROVE session' = session
  BY <1>2, HandleKept, TelegramReviewAssumption
     DEF ConversationInv, Review, HandlerFails
<1>3. CASE ~ReviewWorld /\ ~ \E p \in Pollers : Review(p)
  BY <1>3 DEF Next, vars, PollerTurn, Polls, Authorise, AbortReview, Reviewed,
    Answer, Pressed, Crashes, Beats, reviewVars
<1> QED BY <1>1, <1>2, <1>3

(* The review keeps its promises then too: buttons only on a preview the   *)
(* session knows, and one decision, which is final and which the draft     *)
(* follows.                                                                *)
THEOREM ReviewPromiseKept == Spec => ReviewPromise
<1>1. ConversationInv => InertUntilBound /\ DraftFollowsDecision
  BY DEF ConversationInv, ReviewInv
<1>2. ConversationInv /\ [Next]_vars
        => [session.decision # "none" => session' = session]_reviewVars
  BY DecisionStands
<1> QED
  BY <1>1, <1>2, ConversationStarts, ConversationKept, PTL
     DEF Spec, ReviewPromise, DecisionIsFinal
=============================================================================
