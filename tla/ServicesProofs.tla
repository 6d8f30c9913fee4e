----------------------------- MODULE ServicesProofs -----------------------------
(***************************************************************************)
(* What the milestones of the channel, the providers behind research and   *)
(* drafting, the runtime and its health say of themselves, proved of each  *)
(* component for all its constants.                                        *)
(***************************************************************************)
EXTENDS Milestones, AiProviders, OpenRouter, RuntimeHealth, RuntimeCoordinator, TopicPolicy,
        FiniteSetTheorems, WellFoundedInduction, TLAPS

-----------------------------------------------------------------------------
(* The milestones of the channel *)

MilestoneStates == {"none", "pending", "sending", "sent", "failed", "uncertain"}
MilestoneRows == [state : MilestoneStates, post : Posts \cup {Unclaimed},
         token : Senders \cup {Unclaimed}]
HandlerPoints == {"rest", "send", "accepted", "unsure", "dead"}
Sendings == [at : HandlerPoints, ordinal : Ordinals \cup {0}]

BeganInv ==
  /\ began \in Seq(Posts) /\ IsInjective(began) /\ posted \subseteq ToSet(began)

(* What the channel holds while a handler is at a point of its sending: an *)
(* answer says that the message arrived, no answer says nothing.           *)
Shown(point) ==
  CASE point = "send" -> {0} [] point = "accepted" -> {1} [] OTHER -> {0, 1}

(* What the channel holds when a row says so.                              *)
Says(state) ==
  CASE state = "sent" -> {1} [] state \in {"sending", "uncertain"} -> {0, 1}
    [] OTHER -> {0}

(* Only the handler that claimed a row sends its message: the row is taken *)
(* while the handler is not at rest, by that handler alone.                *)
OwnsRow(h, o) == milestone[o].state = "sending" /\ milestone[o].token = h

OwnerInv ==
  /\ \A h \in Senders :
       handling[h].at # "rest"
         => /\ handling[h].ordinal \in Ordinals
            /\ OwnsRow(h, handling[h].ordinal)
            /\ messages[handling[h].ordinal] \in Shown(handling[h].at)
  /\ \A o \in Ordinals, h \in Senders :
       OwnsRow(h, o) => handling[h].at # "rest" /\ handling[h].ordinal = o

RowInv ==
  \A o \in Ordinals :
    /\ messages[o] \in Says(milestone[o].state)
    /\ milestone[o].state = "sending" <=> milestone[o].token \in Senders

MilestoneInv ==
  /\ BeganInv
  /\ milestone \in [Ordinals -> MilestoneRows] /\ handling \in [Senders -> Sendings]
  /\ messages \in [Ordinals -> Nat] /\ milestoneFaults \in 0..MaxMilestoneFaults
  /\ OwnerInv /\ RowInv

(* A post that begins is new.                                              *)
LEMMA BeganKept ==
  ASSUME BeganInv, NEW p \in Posts, BeginPost(p) \/ CommitPost(p)
  PROVE  BeganInv'
<1>1. CASE BeginPost(p)
  <2>1. began' \in Seq(Posts) /\ Len(began') = Len(began) + 1 /\ Len(began) \in Nat
        /\ \A i \in 1..Len(began) : began'[i] = began[i]
        /\ began'[Len(began) + 1] = p
    BY <1>1 DEF BeginPost, BeganInv
  <2>2. \A i \in 1..Len(began) : began[i] # p
    BY <1>1 DEF BeginPost, ToSet, BeganInv
  <2>3. IsInjective(began')
    BY <2>1, <2>2 DEF BeganInv, IsInjective
  <2>4. ToSet(began) \subseteq ToSet(began')
    BY <2>1 DEF ToSet, BeganInv
  <2> QED BY <1>1, <2>1, <2>3, <2>4 DEF BeganInv, BeginPost
<1>2. CASE CommitPost(p)
  BY <1>2 DEF CommitPost, BeganInv
<1> QED BY <1>1, <1>2

(* A handler takes a row of which no message was sent.                     *)
LEMMA TakesRow ==
  ASSUME MilestoneInv, NEW h \in Senders, NEW o \in Ordinals, NEW row \in MilestoneRows,
         handling[h] = Resting, messages[o] = 0, milestone[o].state # "sending",
         row.state = "sending", row.token = h,
         milestone' = [milestone EXCEPT ![o] = row],
         handling' = [handling EXCEPT ![h] = [at |-> "send", ordinal |-> o]],
         UNCHANGED <<began, posted, messages, milestoneFaults>>
  PROVE  MilestoneInv'
<1>1. /\ milestone' \in [Ordinals -> MilestoneRows] /\ milestone'[o] = row
      /\ \A q \in Ordinals \ {o} : milestone'[q] = milestone[q]
  BY DEF MilestoneInv
<1>2. /\ handling' \in [Senders -> Sendings]
      /\ handling'[h].at = "send" /\ handling'[h].ordinal = o
      /\ \A g \in Senders \ {h} : handling'[g] = handling[g]
  BY DEF MilestoneInv, Sendings, HandlerPoints
<1>3. handling[h].at = "rest"
  BY DEF Resting
<1>4. OwnerInv'
  BY <1>1, <1>2, <1>3, MilestoneAssumption DEF MilestoneInv, OwnerInv, OwnsRow, Shown
<1>5. RowInv'
  BY <1>1 DEF MilestoneInv, RowInv, Says
<1> QED BY <1>1, <1>2, <1>4, <1>5 DEF MilestoneInv, BeganInv

(* Claiming the milestone of a post, and the operator's retry.             *)
LEMMA ClaimKept ==
  ASSUME MilestoneInv, NEW h \in Senders,
         \/ \E p \in Posts : ClaimPublicationMilestone(h, p)
         \/ \E o \in Ordinals : RetryPublicationMilestone(h, o)
  PROVE  MilestoneInv'
<1>1. milestone \in [Ordinals -> MilestoneRows]
  BY DEF MilestoneInv
<1>2. \A o \in Ordinals :
        milestone[o].state \in {"none", "pending", "failed"} => messages[o] = 0
  BY DEF MilestoneInv, RowInv, Says
<1>3. ASSUME NEW p \in Posts, ClaimPublicationMilestone(h, p)
      PROVE  MilestoneInv'
  <2> PICK o \in Ordinals : o = Ordinal(p)
    BY <1>3 DEF ClaimPublicationMilestone
  <2> DEFINE row == [Inserted(o, p) EXCEPT !.state = "sending", !.token = h]
  <2>1. Inserted(o, p) \in MilestoneRows
    BY <1>1 DEF Inserted, MilestoneRows, MilestoneStates
  <2>2. row \in MilestoneRows /\ row.state = "sending" /\ row.token = h
    BY <2>1 DEF MilestoneRows, MilestoneStates
  <2>3. milestone[o].state \in {"none", "pending", "failed"}
    BY <1>3 DEF ClaimPublicationMilestone, Inserted
  <2>4. /\ milestone' = [milestone EXCEPT ![o] = row]
        /\ handling' = [handling EXCEPT ![h] = [at |-> "send", ordinal |-> o]]
        /\ handling[h] = Resting
        /\ UNCHANGED <<began, posted, messages, milestoneFaults>>
    BY <1>3 DEF ClaimPublicationMilestone
  <2> HIDE DEF row
  <2> QED BY <1>2, <2>2, <2>3, <2>4, TakesRow
<1>4. ASSUME NEW o \in Ordinals, RetryPublicationMilestone(h, o)
      PROVE  MilestoneInv'
  <2> DEFINE row == [milestone[o] EXCEPT !.state = "sending", !.token = h]
  <2>1. milestone[o] \in MilestoneRows
    BY <1>1
  <2>2. row \in MilestoneRows /\ row.state = "sending" /\ row.token = h
    BY <2>1 DEF MilestoneRows, MilestoneStates
  <2>3. milestone' = [milestone EXCEPT ![o] = row]
    BY <1>1, <1>4, <2>1 DEF RetryPublicationMilestone, MilestoneRows
  <2>4. /\ handling' = [handling EXCEPT ![h] = [at |-> "send", ordinal |-> o]]
        /\ handling[h] = Resting /\ milestone[o].state = "failed"
        /\ UNCHANGED <<began, posted, messages, milestoneFaults>>
    BY <1>4 DEF RetryPublicationMilestone
  <2> HIDE DEF row
  <2> QED BY <1>2, <2>2, <2>3, <2>4, TakesRow
<1> QED BY <1>3, <1>4

(* A handler that goes on to another point with the row it owns.           *)
LEMMA MovesOn ==
  ASSUME MilestoneInv, NEW h \in Senders, NEW o \in Ordinals, NEW point \in HandlerPoints,
         handling[h].at # "rest", handling[h].ordinal = o, point # "rest",
         handling' = [handling EXCEPT ![h].at = point],
         messages' \in [Ordinals -> Nat], messages'[o] \in Shown(point),
         \A q \in Ordinals \ {o} : messages'[q] = messages[q],
         milestoneFaults' \in 0..MaxMilestoneFaults,
         UNCHANGED <<began, posted, milestone>>
  PROVE  MilestoneInv'
<1>1. /\ handling \in [Senders -> Sendings] /\ handling[h] \in Sendings
      /\ milestone \in [Ordinals -> MilestoneRows]
  BY DEF MilestoneInv
<1>2. [handling[h] EXCEPT !.at = point] \in Sendings
  BY <1>1 DEF Sendings
<1>3. /\ handling' \in [Senders -> Sendings]
      /\ handling'[h].at = point /\ handling'[h].ordinal = o
      /\ \A g \in Senders \ {h} : handling'[g] = handling[g]
  BY <1>1, <1>2 DEF Sendings
<1>4. OwnsRow(h, o)
  BY DEF MilestoneInv, OwnerInv
<1>5. ASSUME NEW g \in Senders \ {h}, handling[g].at # "rest"
      PROVE  handling[g].ordinal # o
  BY <1>4, <1>5 DEF MilestoneInv, OwnerInv, OwnsRow
<1>6. OwnerInv'
  BY <1>3, <1>4, <1>5 DEF MilestoneInv, OwnerInv, OwnsRow
<1>7. RowInv'
  BY <1>4 DEF MilestoneInv, RowInv, OwnsRow, Says, Shown, HandlerPoints
<1> QED BY <1>1, <1>3, <1>6, <1>7 DEF MilestoneInv, BeganInv

(* The fault budget stays within its bound.                                  *)
LEMMA MilestoneFaultType ==
  ASSUME MilestoneInv, MilestoneFault \/ UNCHANGED milestoneFaults
  PROVE  milestoneFaults' \in 0..MaxMilestoneFaults
BY MilestoneAssumption DEF MilestoneInv, MilestoneFault

(* The message is sent, or the handler is gone: the row stays taken.       *)
LEMMA SendKept ==
  ASSUME MilestoneInv, NEW h \in Senders, SendMilestone(h) \/ HandlerDies(h)
  PROVE  MilestoneInv'
<1>1. handling[h].at # "rest"
  BY DEF SendMilestone, HandlerDies
<1> PICK o \in Ordinals : o = handling[h].ordinal
  BY <1>1 DEF MilestoneInv, OwnerInv
<1>2. messages[o] \in Shown(handling[h].at) /\ messages \in [Ordinals -> Nat]
  BY <1>1 DEF MilestoneInv, OwnerInv
<1>3. CASE SendMilestone(h)
  <2> PICK arrives \in BOOLEAN, answered \in BOOLEAN :
        /\ answered => arrives
        /\ IF answered THEN UNCHANGED milestoneFaults ELSE MilestoneFault
        /\ messages' = [messages EXCEPT ![o] =
                          messages[o] + IF arrives THEN 1 ELSE 0]
        /\ handling' = [handling EXCEPT ![h].at =
                          IF answered THEN "accepted" ELSE "unsure"]
    BY <1>3 DEF SendMilestone
  <2>1. messages[o] = 0
    BY <1>2, <1>3 DEF SendMilestone, Shown
  <2> DEFINE point == IF answered THEN "accepted" ELSE "unsure"
  <2>2. messages'[o] \in Shown(point) /\ messages' \in [Ordinals -> Nat]
        /\ \A q \in Ordinals \ {o} : messages'[q] = messages[q]
    BY <1>2, <2>1 DEF Shown
  <2>3. point \in HandlerPoints /\ point # "rest"
    BY DEF HandlerPoints
  <2> QED
    BY <1>1, <1>3, <2>2, <2>3, MovesOn, MilestoneFaultType DEF SendMilestone
<1>4. CASE HandlerDies(h)
  <2>1. messages[o] \in Shown("dead")
    BY <1>2 DEF Shown, MilestoneInv, Sendings, HandlerPoints
  <2> QED
    BY <1>1, <1>2, <1>4, <2>1, MovesOn, MilestoneFaultType DEF HandlerDies, HandlerPoints
<1> QED BY <1>3, <1>4

(* What came of the message is written to the row, which is let go.        *)
LEMMA MarkKept ==
  ASSUME MilestoneInv, NEW h \in Senders, MarkSent(h) \/ MarkUncertain(h)
  PROVE  MilestoneInv'
<1> DEFINE state == IF handling[h].at = "accepted" THEN "sent" ELSE "uncertain"
<1>1. /\ handling[h].at \in {"accepted", "unsure"}
      /\ MarkMilestone(h, handling[h].at, state)
  BY DEF MarkSent, MarkUncertain, MarkMilestone
<1> PICK o \in Ordinals : o = handling[h].ordinal
  BY <1>1 DEF MilestoneInv, OwnerInv
<1>2. OwnsRow(h, o) /\ messages[o] \in Says(state) /\ state \in {"sent", "uncertain"}
  BY <1>1 DEF MilestoneInv, OwnerInv, Shown, Says
<1>3. milestone[o] \in MilestoneRows /\ milestone \in [Ordinals -> MilestoneRows]
      /\ handling \in [Senders -> Sendings]
  BY DEF MilestoneInv
<1> DEFINE row == [milestone[o] EXCEPT !.state = state, !.token = Unclaimed]
<1>4. row \in MilestoneRows /\ row.state = state /\ row.token = Unclaimed
  BY <1>2, <1>3 DEF MilestoneRows, MilestoneStates
<1>5. /\ milestone' = [milestone EXCEPT ![o] = row]
      /\ handling' = [handling EXCEPT ![h] = Resting]
      /\ UNCHANGED <<began, posted, messages, milestoneFaults>>
  BY <1>1, <1>2 DEF MarkMilestone, Fenced, OwnsRow
<1> HIDE DEF row, state
<1>6. /\ milestone' \in [Ordinals -> MilestoneRows] /\ milestone'[o] = row
      /\ \A q \in Ordinals \ {o} : milestone'[q] = milestone[q]
  BY <1>3, <1>4, <1>5
<1>7. /\ handling' \in [Senders -> Sendings] /\ handling'[h].at = "rest"
      /\ \A g \in Senders \ {h} : handling'[g] = handling[g]
  BY <1>3, <1>5 DEF Sendings, Resting, HandlerPoints
<1>8. OwnerInv'
  BY <1>2, <1>4, <1>5, <1>6, <1>7, MilestoneAssumption
     DEF MilestoneInv, OwnerInv, OwnsRow
<1>9. RowInv'
  BY <1>2, <1>4, <1>5, <1>6, MilestoneAssumption DEF MilestoneInv, RowInv
<1> QED BY <1>5, <1>6, <1>7, <1>8, <1>9 DEF MilestoneInv, BeganInv

(* The operator writes what the channel shows to a row nobody owns.        *)
LEMMA ReconcileKept ==
  ASSUME MilestoneInv, NEW o \in Ordinals, Reconcile(o)
  PROVE  MilestoneInv'
<1> DEFINE state == IF messages[o] > 0 THEN "sent" ELSE "failed"
<1>1. /\ milestone[o] \in MilestoneRows /\ milestone \in [Ordinals -> MilestoneRows]
      /\ messages[o] \in {0, 1} /\ milestone[o].state = "uncertain"
      /\ milestone[o].token \notin Senders
  BY DEF MilestoneInv, Reconcile, RowInv, Says
<1>2. state \in {"sent", "failed"} /\ messages[o] \in Says(state)
  BY <1>1 DEF Says
<1>3. milestone' = [milestone EXCEPT ![o].state = state]
      /\ UNCHANGED <<began, posted, handling, messages, milestoneFaults>>
  BY DEF Reconcile
<1> HIDE DEF state
<1>4. [milestone[o] EXCEPT !.state = state] \in MilestoneRows
  BY <1>1, <1>2 DEF MilestoneRows, MilestoneStates
<1>5. /\ milestone' \in [Ordinals -> MilestoneRows] /\ milestone'[o].state = state
      /\ milestone'[o].token = milestone[o].token
      /\ \A q \in Ordinals \ {o} : milestone'[q] = milestone[q]
  BY <1>1, <1>3, <1>4 DEF MilestoneRows
<1>6. OwnerInv'
  BY <1>1, <1>2, <1>3, <1>5 DEF MilestoneInv, OwnerInv, OwnsRow
<1>7. RowInv'
  BY <1>1, <1>2, <1>3, <1>5 DEF MilestoneInv, RowInv
<1> QED BY <1>3, <1>5, <1>6, <1>7 DEF MilestoneInv, BeganInv

(* The theorems                                                            *)

(* Every step of the milestone store keeps the invariant.                    *)
LEMMA MilestoneInductive ==
  /\ MilestoneInit => MilestoneInv
  /\ MilestoneInv /\ [MilestoneNext]_milestoneVars => MilestoneInv'
<1>1. ASSUME MilestoneInit PROVE MilestoneInv
  <2>1. BeganInv
    BY <1>1 DEF MilestoneInit, BeganInv, IsInjective
  <2>2. milestone \in [Ordinals -> MilestoneRows] /\ handling \in [Senders -> Sendings]
    BY <1>1 DEF MilestoneInit, NoMilestone, Resting, MilestoneRows, MilestoneStates, Sendings, HandlerPoints
  <2>3. OwnerInv /\ RowInv
    BY <1>1, MilestoneAssumption DEF MilestoneInit, NoMilestone, Resting,
      OwnerInv, OwnsRow, RowInv, Says
  <2> QED BY <1>1, <2>1, <2>2, <2>3, MilestoneAssumption
         DEF MilestoneInit, MilestoneInv
<1>2. ASSUME MilestoneInv, MilestoneNext PROVE MilestoneInv'
  <2>1. ASSUME NEW p \in Posts, BeginPost(p) \/ CommitPost(p)
        PROVE  MilestoneInv'
    BY <1>2, <2>1, BeganKept DEF MilestoneInv, BeginPost, CommitPost, OwnerInv,
      OwnsRow, RowInv
  <2> QED
    BY <1>2, <2>1, ClaimKept, SendKept, MarkKept, ReconcileKept
       DEF MilestoneNext
<1>3. ASSUME MilestoneInv, UNCHANGED milestoneVars PROVE MilestoneInv'
  BY <1>3 DEF milestoneVars, MilestoneInv, BeganInv, OwnerInv, OwnsRow, RowInv
<1> QED BY <1>1, <1>2, <1>3

(* The invariant gives the types and the promise.                           *)
LEMMA MilestoneMeans == MilestoneInv => MilestoneTypeOK /\ MilestonesPromise
<1>1. MilestoneInv => MilestoneTypeOK
  BY DEF MilestoneInv, MilestoneTypeOK, BeganInv, ToSet, RowInv, MilestoneRows, MilestoneStates,
    Sendings, HandlerPoints
<1>2. MilestoneInv => MilestonesPromise
  <2> SUFFICES ASSUME MilestoneInv, NEW o \in Ordinals
               PROVE  /\ messages[o] <= 1
                      /\ milestone[o].state = "sent" => messages[o] = 1
                      /\ milestone[o].state \in {"none", "pending", "failed"}
                           => messages[o] = 0
    BY DEF MilestonesPromise, MilestoneOnce, MilestoneTruthful
  <2>1. messages[o] \in Says(milestone[o].state)
    BY DEF MilestoneInv, RowInv
  <2> QED BY <2>1 DEF Says
<1> QED BY <1>1, <1>2

(* Posts, rows, senders and messages keep their types.                     *)
THEOREM MilestonesAreTyped == MilestoneSpec => []MilestoneTypeOK
BY MilestoneMeans, MilestoneInductive, PTL DEF MilestoneSpec

(* A channel sees the message of a milestone once, whatever is replayed,   *)
(* retried, lost or killed and in whatever order the posts commit, and the *)
(* row says sent only of a message that arrived, failed only of one that   *)
(* did not.                                                                *)
THEOREM MilestonesPromiseHolds == MilestoneSpec => []MilestonesPromise
BY MilestoneMeans, MilestoneInductive, PTL DEF MilestoneSpec

-----------------------------------------------------------------------------
(* The fallback over the providers *)

(* AiTypeOK, with the record of a call: a call that has a provider is at one *)
(* of its plan, and a reply is counted after the attempt that brought it.   *)
CallRecord ==
  [at : InCall \cup {"idle"}, op : Operations, index : Nat \ {0}, attempt : Nat,
   code : Codes \cup {NoProvider}, hits : Nat, abort : BOOLEAN]

AtProvider == {"request", "retry", "alert"}

CallOK(c) ==
  /\ c \in CallRecord
  /\ c.index <= Len(Offers[c.op]) + 1
  /\ c.at \in AtProvider => c.index <= Len(Offers[c.op])
  /\ c.attempt <= Attempts(c.op) /\ c.hits <= c.attempt
  /\ c.at = "request" => c.hits < c.attempt
  /\ c.at \in {"idle", "next"} => c.attempt = 0
  /\ c.at = "retry" => c.attempt < Attempts(c.op) /\ c.attempt # 0
  /\ c.at = "alert" /\ c.op = "search" => c.code \in Codes

BreakerRecord ==
  [throttled : 0..ThrottleThreshold, rejected : 0..CredentialThreshold,
   open : BOOLEAN]

CascadeType ==
  /\ breaker \in [Providers -> BreakerRecord]
  /\ storm \in [Providers -> Nat]
  /\ DOMAIN call = Callers /\ \A k \in Callers : CallOK(call[k])

(* The calls under way whose replies a provider's breaker will yet count.   *)
Counts(c) == \/ c.op = "search" /\ c.at \in AtProvider
             \/ c.op = "once" /\ c.at = "request"
AskedOf(c) == Offers[c.op][c.index]
UnderWay(p) == {k \in Callers : Counts(call[k]) /\ AskedOf(call[k]) = p}

(* While a breaker is closed each throttled call brought SearchAttempts     *)
(* replies at most; once it is open only the calls under way add to that.   *)
Ceiling == (ThrottleThreshold - 1 + Cardinality(Callers)) * SearchAttempts

StormInv ==
  \A p \in Providers :
    IF breaker[p].open
    THEN storm[p] + Cardinality(UnderWay(p)) * SearchAttempts <= Ceiling
    ELSE /\ storm[p] <= breaker[p].throttled * SearchAttempts
         /\ storm[p] <= (ThrottleThreshold - 1) * SearchAttempts

CascadeInv == CascadeType /\ StormInv

(* Multiples of a number grow.                                              *)
LEMMA Multiples ==
  ASSUME NEW a \in Nat, NEW i \in Nat, NEW j \in Nat, i <= j
  PROVE  /\ i * a \in Nat /\ i * a <= j * a
         /\ (i + 1) * a = i * a + a
<1>1. PICK d \in Nat : j = i + d
  <2>1. j - i \in Nat /\ j = i + (j - i)
    OBVIOUS
  <2> QED BY <2>1
<1>2. d * a \in Nat /\ i * a \in Nat
  OBVIOUS
<1>3. j * a = i * a + d * a
  BY <1>1
<1> QED BY <1>2, <1>3

(* An operation has a plan of providers and a number of attempts.           *)
LEMMA OfferFacts ==
  ASSUME NEW op \in Operations
  PROVE  /\ Len(Offers[op]) \in Nat
         /\ \A i \in 1..Len(Offers[op]) : Offers[op][i] \in Providers
         /\ Attempts(op) \in Nat \ {0}
         /\ Guarded(op) => Attempts(op) <= SearchAttempts
         /\ Guarded(op) <=> op \in {"search", "once"}
         /\ op # "search" => Len(Offers[op]) = 1
<1>1. Offers[op] \in Seq(Providers)
  BY AiAssumption
<1>2. SearchAttempts \in Nat \ {0}
  BY AiAssumption
<1>3. /\ Len(Offers[op]) \in Nat
      /\ \A i \in 1..Len(Offers[op]) : Offers[op][i] \in Providers
  BY <1>1
<1> QED BY <1>2, <1>3, AiAssumption DEF Operations, Attempts, Guarded

(* A call that begins is well-formed, and no provider counts it.            *)
LEMMA NoCallOK == CallOK(NoCall) /\ ~Counts(NoCall)
<1>1. "search" \in Operations
  BY DEF Operations
<1> QED BY <1>1, OfferFacts DEF NoCall, CallOK, CallRecord, InCall, AtProvider, Counts

(* So is one that goes on to its next provider.                             *)
LEMMA NextProviderOK ==
  ASSUME NEW c, CallOK(c), c.index <= Len(Offers[c.op])
  PROVE  CallOK(NextProvider(c)) /\ ~Counts(NextProvider(c))
<1>1. c \in CallRecord /\ c.op \in Operations /\ c.index \in Nat \ {0}
  BY DEF CallOK, CallRecord
<1>2. Len(Offers[c.op]) \in Nat /\ Attempts(c.op) \in Nat \ {0}
  BY <1>1, OfferFacts
<1> DEFINE d == NextProvider(c)
<1>3. /\ d \in CallRecord /\ d.at = "next" /\ d.op = c.op
      /\ d.index = c.index + 1 /\ d.attempt = 0 /\ d.hits = 0
  <2>1. c.index + 1 \in Nat \ {0} /\ 0 \in Nat
    BY <1>1
  <2> QED BY <1>1, <2>1 DEF NextProvider, CallRecord, InCall
<1> HIDE DEF d
<1>4. CallOK(d) /\ ~Counts(d)
  BY <1>1, <1>2, <1>3 DEF CallOK, AtProvider, Counts
<1> QED BY <1>4 DEF d

(* A call that changes to another well-formed one.                          *)
LEMMA CallKept ==
  ASSUME CascadeType, NEW k \in Callers, NEW c, CallOK(c), SetCall(k, c)
  PROVE  /\ DOMAIN call' = Callers /\ \A q \in Callers : CallOK(call[q])'
         /\ \A p \in Providers : \A q \in Callers \ {k} :
              q \in UnderWay(p)' <=> q \in UnderWay(p)
         /\ call'[k] = c
BY DEF CascadeType, SetCall, UnderWay, Counts, AskedOf, CallOK

(* The calls under way are finitely many, and fewer by one without one.     *)
LEMMA UnderWayIsFinite ==
  ASSUME NEW p
  PROVE  /\ IsFiniteSet(UnderWay(p)) /\ Cardinality(UnderWay(p)) \in Nat
         /\ Cardinality(Callers) \in Nat
         /\ Cardinality(UnderWay(p)) <= Cardinality(Callers)
BY AiAssumption, FS_Subset, FS_CardinalityType DEF UnderWay

(* The ceiling is above what a closed breaker lets come.                    *)
LEMMA CeilingFacts ==
  /\ Ceiling \in Nat /\ (ThrottleThreshold - 1) * SearchAttempts <= Ceiling
  /\ Cardinality(Callers) * SearchAttempts <= Ceiling
<1>1. /\ ThrottleThreshold \in Nat \ {0} /\ SearchAttempts \in Nat \ {0}
      /\ Cardinality(Callers) \in Nat
  BY AiAssumption, FS_CardinalityType
<1>2. /\ ThrottleThreshold - 1 + Cardinality(Callers) \in Nat
      /\ ThrottleThreshold - 1 \in Nat
      /\ ThrottleThreshold - 1 <= ThrottleThreshold - 1 + Cardinality(Callers)
      /\ Cardinality(Callers) <= ThrottleThreshold - 1 + Cardinality(Callers)
  BY <1>1
<1> QED BY <1>1, <1>2, Multiples DEF Ceiling

(* A step that no breaker sees, and that puts no further call under an open *)
(* one.                                                                     *)
LEMMA UnseenKeeps ==
  ASSUME CascadeInv, NEW k \in Callers, NEW c, CallOK(c), SetCall(k, c),
         UNCHANGED <<breaker, storm>>,
         Counts(c) => \/ k \in UnderWay(AskedOf(c))
                      \/ ~breaker[AskedOf(c)].open
  PROVE  CascadeInv'
<1>1. CascadeType'
  BY CallKept DEF CascadeInv, CascadeType
<1>2. ASSUME NEW p \in Providers, breaker[p].open
      PROVE  storm[p] + Cardinality(UnderWay(p)') * SearchAttempts <= Ceiling
  <2>1. UnderWay(p)' \subseteq UnderWay(p)
    <3>1. ASSUME k \in UnderWay(p)' PROVE k \in UnderWay(p)
      BY <1>2, <3>1, CallKept DEF CascadeInv, UnderWay
    <3> QED BY <3>1, CallKept DEF CascadeInv, UnderWay
  <2>2. /\ Cardinality(UnderWay(p)') <= Cardinality(UnderWay(p))
        /\ Cardinality(UnderWay(p)') \in Nat /\ Cardinality(UnderWay(p)) \in Nat
    BY <2>1, UnderWayIsFinite, FS_Subset, FS_CardinalityType
  <2>3. /\ Cardinality(UnderWay(p)') * SearchAttempts
             <= Cardinality(UnderWay(p)) * SearchAttempts
        /\ Cardinality(UnderWay(p)') * SearchAttempts \in Nat
        /\ Cardinality(UnderWay(p)) * SearchAttempts \in Nat
    BY <2>2, Multiples, AiAssumption
  <2>4. storm[p] + Cardinality(UnderWay(p)) * SearchAttempts <= Ceiling
    BY <1>2 DEF CascadeInv, StormInv
  <2>5. storm[p] \in Nat /\ Ceiling \in Nat
    BY CeilingFacts DEF CascadeInv, CascadeType
  <2> QED BY <2>3, <2>4, <2>5
<1>3. StormInv'
  <2> SUFFICES ASSUME NEW p \in Providers
               PROVE  IF breaker'[p].open
                      THEN storm'[p] + Cardinality(UnderWay(p)') * SearchAttempts <= Ceiling
                      ELSE /\ storm'[p] <= breaker'[p].throttled * SearchAttempts
                           /\ storm'[p] <= (ThrottleThreshold - 1) * SearchAttempts
    BY DEF StormInv, Ceiling
  <2> QED BY <1>2 DEF CascadeInv, StormInv
<1> QED BY <1>1, <1>3 DEF CascadeInv

(* A call of which its provider's breaker hears no more, whether it hears of *)
(* its failure, of its success or of nothing now.                           *)
LEMMA LeavingKeeps ==
  ASSUME CascadeInv, NEW k \in Callers, NEW c, CallOK(c), SetCall(k, c), ~Counts(c),
         NEW p \in Providers, k \in UnderWay(p),
         NEW h \in Nat, h <= SearchAttempts,
         NEW code \in Codes,
         \/ /\ breaker' = [breaker EXCEPT ![p] = AfterFailure(@, code)]
            /\ storm' = [storm EXCEPT ![p] = IF code \in Throttle THEN @ + h ELSE 0]
         \/ /\ breaker' = [breaker EXCEPT ![p] =
                             [throttled |-> 0, rejected |-> 0, open |-> FALSE]]
            /\ storm' = [storm EXCEPT ![p] = 0]
  PROVE  CascadeInv'
<1>1. /\ ThrottleThreshold \in Nat \ {0} /\ SearchAttempts \in Nat \ {0}
      /\ CredentialThreshold \in Nat \ {0}
  BY AiAssumption
<1>2. breaker[p] \in BreakerRecord /\ storm[p] \in Nat
  BY DEF CascadeInv, CascadeType
<1>3. AfterFailure(breaker[p], code) \in BreakerRecord
  BY <1>1, <1>2 DEF AfterFailure, BreakerRecord, AtMost
<1>4. breaker' \in [Providers -> BreakerRecord] /\ storm' \in [Providers -> Nat]
  <2>1. [throttled |-> 0, rejected |-> 0, open |-> FALSE] \in BreakerRecord
    BY <1>1 DEF BreakerRecord
  <2>2. breaker \in [Providers -> BreakerRecord] /\ storm \in [Providers -> Nat]
    BY DEF CascadeInv, CascadeType
  <2>3. \A b \in BreakerRecord :
          [breaker EXCEPT ![p] = b] \in [Providers -> BreakerRecord]
    BY <2>2
  <2>4. \A n \in Nat : [storm EXCEPT ![p] = n] \in [Providers -> Nat]
    BY <2>2
  <2>5. (IF code \in Throttle THEN storm[p] + h ELSE 0) \in Nat
    BY <1>2
  <2> QED BY <1>3, <2>1, <2>3, <2>4, <2>5
<1>5. CascadeType'
  BY <1>4, CallKept DEF CascadeInv, CascadeType
<1>6. \A q \in Providers : UnderWay(q)' = UnderWay(q) \ {k}
  BY CallKept DEF CascadeInv, UnderWay
<1>7. ASSUME NEW q \in Providers \ {p}
      PROVE  /\ breaker'[q] = breaker[q] /\ storm'[q] = storm[q]
             /\ UnderWay(q)' = UnderWay(q)
  BY <1>6 DEF CascadeInv, CascadeType, UnderWay
<1> DEFINE n == Cardinality(UnderWay(p))
           m == Cardinality(UnderWay(p)')
<1>8. n \in Nat /\ m \in Nat /\ m + 1 = n /\ n <= Cardinality(Callers)
  <2>1. IsFiniteSet(UnderWay(p)) /\ n \in Nat /\ n <= Cardinality(Callers)
    BY UnderWayIsFinite
  <2>2. UnderWay(p)' = UnderWay(p) \ {k} /\ k \in UnderWay(p)
    BY <1>6
  <2>3. m = n - 1
    BY <2>1, <2>2, FS_RemoveElement
  <2>4. IsFiniteSet(UnderWay(p) \ {k})
    BY <2>1, FS_RemoveElement
  <2>5. m \in Nat
    BY <2>2, <2>4, FS_CardinalityType
  <2> QED BY <2>1, <2>3, <2>5
<1>9. /\ n * SearchAttempts \in Nat /\ m * SearchAttempts \in Nat
      /\ n * SearchAttempts = m * SearchAttempts + SearchAttempts
      /\ n * SearchAttempts <= Cardinality(Callers) * SearchAttempts
      /\ Cardinality(Callers) * SearchAttempts \in Nat
  <2> HIDE DEF n, m
  <2>1. Cardinality(Callers) \in Nat
    BY UnderWayIsFinite
  <2> QED BY <1>1, <1>8, <2>1, Multiples
<1>10. IF breaker'[p].open
       THEN storm'[p] + m * SearchAttempts <= Ceiling
       ELSE /\ storm'[p] <= breaker'[p].throttled * SearchAttempts
            /\ storm'[p] <= (ThrottleThreshold - 1) * SearchAttempts
  <2>1. /\ breaker[p].open => storm[p] + n * SearchAttempts <= Ceiling
        /\ ~breaker[p].open =>
             /\ storm[p] <= breaker[p].throttled * SearchAttempts
             /\ storm[p] <= (ThrottleThreshold - 1) * SearchAttempts
    BY DEF CascadeInv, StormInv
  <2>2. Ceiling = (ThrottleThreshold - 1) * SearchAttempts
                    + Cardinality(Callers) * SearchAttempts
    <3>1. Cardinality(Callers) \in Nat
      BY UnderWayIsFinite
    <3> QED BY <1>1, <3>1 DEF Ceiling
  <2>3. /\ (ThrottleThreshold - 1) * SearchAttempts \in Nat
        /\ 0 * SearchAttempts = 0
    BY <1>1
  <2> HIDE DEF n, m
  <2>4. CASE storm'[p] = 0
    BY <1>2, <1>4, <1>9, <2>2, <2>3, <2>4, Multiples, <1>1 DEF BreakerRecord
  <2>5. CASE code \in Throttle /\ breaker'[p] = AfterFailure(breaker[p], code)
             /\ storm'[p] = storm[p] + h
    <3>1. /\ breaker'[p].throttled =
               AtMost(ThrottleThreshold, breaker[p].throttled + 1)
          /\ breaker'[p].open = \/ breaker[p].open
                                \/ breaker[p].throttled + 1 >= ThrottleThreshold
      <4>1. code \in Throttle /\ code \notin Credential
        BY <2>5 DEF Throttle, Credential
      <4>2. AfterFailure(breaker[p], code) =
              [throttled |-> AtMost(ThrottleThreshold, breaker[p].throttled + 1),
               rejected |-> 0,
               open |-> \/ breaker[p].open
                        \/ breaker[p].throttled + 1 >= ThrottleThreshold]
        BY <4>1 DEF AfterFailure
      <4> QED BY <2>5, <4>2
    <3>2. CASE breaker[p].open
      BY <1>2, <1>9, <2>1, <2>5, <3>1, <3>2, CeilingFacts, <1>1
    <3>3. CASE ~breaker[p].open /\ breaker[p].throttled + 1 >= ThrottleThreshold
      <4>1. breaker'[p].open
        BY <3>1, <3>3
      <4>2. storm[p] <= (ThrottleThreshold - 1) * SearchAttempts
        BY <2>1, <3>3
      <4> QED BY <4>1, <4>2, <1>1, <1>2, <1>9, <2>2, <2>3, <2>5
    <3>4. CASE ~breaker[p].open /\ breaker[p].throttled + 1 < ThrottleThreshold
      <4>1. /\ ~breaker'[p].open
            /\ breaker'[p].throttled = breaker[p].throttled + 1
            /\ breaker[p].throttled \in Nat
        BY <1>1, <1>2, <3>1, <3>4 DEF AtMost, BreakerRecord
      <4>2. /\ (breaker[p].throttled + 1) * SearchAttempts
                 = breaker[p].throttled * SearchAttempts + SearchAttempts
            /\ breaker[p].throttled * SearchAttempts \in Nat
            /\ (breaker[p].throttled + 1) * SearchAttempts
                 <= (ThrottleThreshold - 1) * SearchAttempts
        BY <1>1, <3>4, <4>1, Multiples
      <4>3. storm[p] <= breaker[p].throttled * SearchAttempts
        BY <2>1, <3>4
      <4> QED BY <4>1, <4>2, <4>3, <1>1, <1>2, <2>3, <2>5
    <3> QED BY <3>2, <3>3, <3>4, <1>1, <1>2 DEF BreakerRecord
  <2> QED BY <2>4, <2>5 DEF CascadeInv, CascadeType
<1>11. StormInv'
  <2> SUFFICES ASSUME NEW q \in Providers
               PROVE  IF breaker'[q].open
                      THEN storm'[q] + Cardinality(UnderWay(q)') * SearchAttempts <= Ceiling
                      ELSE /\ storm'[q] <= breaker'[q].throttled * SearchAttempts
                           /\ storm'[q] <= (ThrottleThreshold - 1) * SearchAttempts
    BY DEF StormInv, Ceiling
  <2>1. CASE q = p
    BY <1>10, <2>1
  <2>2. CASE q # p
    BY <1>7, <2>2 DEF CascadeInv, StormInv
  <2> QED BY <2>1, <2>2
<1> QED BY <1>5, <1>11 DEF CascadeInv

(* What is known of the call of a caller.                                   *)
LEMMA CallFacts ==
  ASSUME CascadeType, NEW k \in Callers
  PROVE  /\ CallOK(call[k]) /\ call[k] \in CallRecord
         /\ call[k].op \in Operations /\ call[k].abort \in BOOLEAN
         /\ call[k].hits \in Nat /\ call[k].attempt \in Nat
         /\ call[k].index \in Nat \ {0}
         /\ Attempts(call[k].op) \in Nat \ {0} /\ Len(Plan(k)) \in Nat
         /\ call[k].index <= Len(Plan(k)) => Provider(k) \in Providers
         /\ call[k].at \in AtProvider => call[k].index <= Len(Plan(k))
         /\ Guarded(call[k].op) => Attempts(call[k].op) <= SearchAttempts
         /\ Provider(k) = AskedOf(call[k])
<1>1. CallOK(call[k]) /\ call[k] \in CallRecord
  BY DEF CascadeType, CallOK
<1>2. /\ call[k].op \in Operations /\ call[k].abort \in BOOLEAN
      /\ call[k].hits \in Nat /\ call[k].attempt \in Nat
      /\ call[k].index \in Nat \ {0}
  BY <1>1 DEF CallRecord
<1>3. call[k].index <= Len(Plan(k)) => call[k].index \in 1..Len(Plan(k))
  BY <1>2, OfferFacts DEF Plan
<1> QED BY <1>1, <1>2, <1>3, OfferFacts DEF Plan, Provider, AskedOf, CallOK

(* An attempt that is sent, to a provider the caller may ask.               *)
LEMMA SendKeeps ==
  ASSUME CascadeInv, NEW k \in Callers, Send(k), UNCHANGED <<breaker, storm>>,
         call[k].attempt < Attempts(call[k].op), call[k].index <= Len(Plan(k)),
         \/ k \in UnderWay(Provider(k)) \/ ~IsThrottleOpen(k, Provider(k))
  PROVE  CascadeInv'
<1> DEFINE d == [call[k] EXCEPT !.at = "request", !.attempt = @ + 1]
<1>1. CascadeType
  BY DEF CascadeInv
<1>2. call[k].attempt + 1 \in Nat
  BY <1>1, CallFacts
<1>3. /\ d \in CallRecord /\ d.at = "request" /\ d.op = call[k].op
      /\ d.index = call[k].index /\ d.attempt = call[k].attempt + 1
      /\ d.hits = call[k].hits /\ d.code = call[k].code
  BY <1>1, <1>2, CallFacts DEF CallRecord, InCall
<1>4. SetCall(k, d)
  BY DEF Send
<1> HIDE DEF d
<1>5. /\ call[k].hits \in Nat /\ call[k].hits <= call[k].attempt
      /\ call[k].attempt \in Nat /\ Attempts(call[k].op) \in Nat
      /\ call[k].index \in Nat /\ Len(Plan(k)) \in Nat
  BY <1>1, CallFacts DEF CallOK
<1>6. CallOK(d)
  BY <1>3, <1>5 DEF CallOK, Plan, AtProvider
<1>7. Counts(d) => Guarded(call[k].op) /\ AskedOf(d) = Provider(k)
  BY <1>3 DEF Counts, Guarded, AskedOf, Provider, Plan
<1> QED BY <1>4, <1>6, <1>7, UnseenKeeps DEF IsThrottleOpen

(* A call turns to the next provider of its plan whose breaker is closed,   *)
(* or fails.                                                                *)
LEMMA TakeProviderKeeps ==
  ASSUME CascadeInv, NEW k \in Callers, TakeProvider(k)
  PROVE  CascadeInv'
<1>1. CascadeType /\ call[k].at = "next" /\ UNCHANGED <<breaker, storm>>
  BY DEF CascadeInv, TakeProvider
<1>2. /\ call[k].index \in Nat /\ Len(Plan(k)) \in Nat /\ CallOK(call[k])
      /\ Attempts(call[k].op) \in Nat \ {0} /\ call[k].attempt = 0
  BY <1>1, CallFacts DEF CallOK
<1>3. CASE EndCall(k)
  BY <1>1, <1>3, NoCallOK, UnseenKeeps DEF EndCall
<1>4. CASE call[k].index <= Len(Plan(k)) /\ SetCall(k, NextProvider(call[k]))
  BY <1>1, <1>2, <1>4, NextProviderOK, UnseenKeeps DEF Plan
<1>5. CASE call[k].index <= Len(Plan(k)) /\ ~IsThrottleOpen(k, Provider(k)) /\ Send(k)
  BY <1>1, <1>2, <1>5, SendKeeps
<1> QED BY <1>2, <1>3, <1>4, <1>5 DEF TakeProvider

(* A reply ends the call and is a success for the breaker.                  *)
LEMMA AnswerKeeps ==
  ASSUME CascadeInv, NEW k \in Callers, Answer(k)
  PROVE  CascadeInv'
<1>1. /\ CascadeType /\ call[k].at = "request" /\ SetCall(k, NoCall)
      /\ RecordProviderSuccess(k, Provider(k))
  BY DEF CascadeInv, Answer, EndCall
<1>2. Provider(k) \in Providers /\ call[k].op \in Operations
  BY <1>1, CallFacts DEF AtProvider
<1>3. CASE Guarded(call[k].op)
  <2>1. k \in UnderWay(Provider(k))
    BY <1>1, <1>2, <1>3, CallFacts
       DEF UnderWay, Counts, Guarded, Operations, AtProvider
  <2>2. "timeout" \in Codes /\ 0 \in Nat /\ 0 <= SearchAttempts
    BY AiAssumption DEF Codes
  <2> QED BY <1>1, <1>2, <1>3, <2>1, <2>2, NoCallOK, LeavingKeeps
          DEF RecordProviderSuccess
<1>4. CASE ~Guarded(call[k].op)
  BY <1>1, <1>4, NoCallOK, UnseenKeeps DEF RecordProviderSuccess
<1> QED BY <1>3, <1>4

(* What a reply adds to the throttled ones.                                 *)
LEMMA HitsFacts ==
  ASSUME CascadeType, NEW k \in Callers, NEW code, call[k].at = "request"
  PROVE  /\ Hits(k, code) \in Nat /\ Hits(k, code) <= call[k].attempt
         /\ call[k].attempt # 0
<1>1. call[k].hits \in Nat /\ call[k].attempt \in Nat /\ call[k].hits < call[k].attempt
  BY CallFacts DEF CallOK
<1>2. Hits(k, code) \in {call[k].hits, call[k].hits + 1}
  BY <1>1 DEF Hits
<1> QED BY <1>1, <1>2

(* A failing attempt of a search that may be made again.                    *)
LEMMA AttemptMayRepeatKeeps ==
  ASSUME CascadeInv, NEW k \in Callers, AttemptMayRepeat(k)
  PROVE  CascadeInv'
<1>1. PICK code \in Transient :
        SetCall(k, [call[k] EXCEPT !.at = "retry", !.hits = Hits(k, code)])
  BY DEF AttemptMayRepeat
<1>2. /\ CascadeType /\ call[k].at = "request" /\ UNCHANGED <<breaker, storm>>
      /\ call[k].attempt < Attempts(call[k].op)
  BY DEF CascadeInv, AttemptMayRepeat
<1> DEFINE d == [call[k] EXCEPT !.at = "retry", !.hits = Hits(k, code)]
<1>3. /\ Hits(k, code) \in Nat /\ Hits(k, code) <= call[k].attempt
      /\ call[k].attempt # 0
  BY <1>2, HitsFacts
<1>4. /\ d \in CallRecord /\ d.at = "retry" /\ d.op = call[k].op
      /\ d.index = call[k].index /\ d.attempt = call[k].attempt
      /\ d.hits = Hits(k, code)
  BY <1>2, <1>3, CallFacts DEF CallRecord, InCall
<1>5. SetCall(k, d)
  BY <1>1
<1> HIDE DEF d
<1>6. CallOK(d)
  BY <1>2, <1>3, <1>4, CallFacts DEF CallOK, AtProvider
<1>7. Counts(d) => k \in UnderWay(AskedOf(d))
  BY <1>2, <1>4 DEF Counts, UnderWay, AskedOf, AtProvider
<1> QED BY <1>2, <1>5, <1>6, <1>7, UnseenKeeps

(* The last attempt fails: the breaker counts it and the call goes on.      *)
LEMMA ProviderFailsKeeps ==
  ASSUME CascadeInv, NEW k \in Callers, ProviderFails(k)
  PROVE  CascadeInv'
<1>1. CascadeType /\ call[k].at = "request"
  BY DEF CascadeInv, ProviderFails
<1>2. PICK code \in Codes :
        IF call[k].op = "search"
        THEN /\ SetCall(k, [call[k] EXCEPT !.at = "alert", !.code = code,
                                       !.hits = Hits(k, code)])
             /\ UNCHANGED <<breaker, storm>>
        ELSE /\ SetCall(k, [call[k] EXCEPT !.at = "alert"])
             /\ RecordProviderFailure(k, Provider(k), code, Hits(k, code))
  BY DEF ProviderFails
<1>3. /\ Hits(k, code) \in Nat /\ Hits(k, code) <= call[k].attempt
      /\ call[k].attempt # 0
  BY <1>1, HitsFacts
<1>4. CASE call[k].op = "search"
  <2> DEFINE d == [call[k] EXCEPT !.at = "alert", !.code = code,
                                  !.hits = Hits(k, code)]
  <2>1. /\ d \in CallRecord /\ d.at = "alert" /\ d.op = call[k].op
        /\ d.index = call[k].index /\ d.attempt = call[k].attempt
        /\ d.hits = Hits(k, code) /\ d.code = code
    BY <1>1, <1>3, CallFacts DEF CallRecord, InCall
  <2>2. SetCall(k, d) /\ UNCHANGED <<breaker, storm>>
    BY <1>2, <1>4
  <2> HIDE DEF d
  <2>3. CallOK(d)
    BY <1>1, <1>3, <2>1, CallFacts DEF CallOK, AtProvider
  <2>4. Counts(d) => k \in UnderWay(AskedOf(d))
    BY <1>1, <2>1 DEF Counts, UnderWay, AskedOf, AtProvider
  <2> QED BY <2>2, <2>3, <2>4, UnseenKeeps
<1>5. CASE call[k].op # "search"
  <2> DEFINE d == [call[k] EXCEPT !.at = "alert"]
  <2>1. /\ d \in CallRecord /\ d.at = "alert" /\ d.op = call[k].op
        /\ d.index = call[k].index /\ d.attempt = call[k].attempt
        /\ d.hits = call[k].hits
    BY <1>1, CallFacts DEF CallRecord, InCall
  <2>2. /\ SetCall(k, d)
        /\ RecordProviderFailure(k, Provider(k), code, Hits(k, code))
    BY <1>2, <1>5
  <2> HIDE DEF d
  <2>3. CallOK(d) /\ ~Counts(d)
    BY <1>1, <1>5, <2>1, CallFacts DEF CallOK, AtProvider, Counts
  <2>4. CASE Guarded(call[k].op)
    <3>1. Provider(k) \in Providers /\ k \in UnderWay(Provider(k))
      BY <1>1, <1>5, <2>4, CallFacts
         DEF AtProvider, UnderWay, Counts, Guarded, Operations
    <3>2. Hits(k, code) <= SearchAttempts
      <4>1. /\ call[k].attempt <= Attempts(call[k].op)
            /\ Attempts(call[k].op) <= SearchAttempts
            /\ call[k].attempt \in Nat /\ Attempts(call[k].op) \in Nat
        BY <1>1, <2>4, CallFacts DEF CallOK
      <4>2. SearchAttempts \in Nat
        BY AiAssumption
      <4> QED BY <1>3, <4>1, <4>2
    <3> QED BY <1>3, <2>2, <2>3, <2>4, <3>1, <3>2, LeavingKeeps
            DEF RecordProviderFailure
  <2>5. CASE ~Guarded(call[k].op)
    BY <2>2, <2>3, <2>5, UnseenKeeps DEF RecordProviderFailure
  <2> QED BY <2>4, <2>5
<1> QED BY <1>4, <1>5

(* After the alert the call turns to the next provider.                     *)
LEMMA AfterAlertKeeps ==
  ASSUME CascadeInv, NEW k \in Callers, AfterAlert(k)
  PROVE  CascadeInv'
<1>1. CascadeType /\ call[k].at = "alert"
  BY DEF CascadeInv, AfterAlert
<1>2. CASE call[k].op # "search" \/ call[k].abort
  BY <1>2, NoCallOK, UnseenKeeps DEF AfterAlert, EndCall
<1>3. CASE call[k].op = "search" /\ ~call[k].abort
  <2>1. /\ RecordProviderFailure(k, Provider(k), call[k].code, call[k].hits)
        /\ Guarded(call[k].op)
    BY <1>3 DEF AfterAlert, Guarded
  <2>2. /\ Provider(k) \in Providers /\ k \in UnderWay(Provider(k))
        /\ call[k].code \in Codes /\ call[k].hits \in Nat
        /\ call[k].index <= Len(Offers[call[k].op])
    BY <1>1, <1>3, CallFacts DEF AtProvider, UnderWay, Counts, CallOK
  <2>3. call[k].hits <= SearchAttempts
    <3>1. /\ call[k].attempt <= Attempts(call[k].op) /\ call[k].hits <= call[k].attempt
          /\ Attempts(call[k].op) <= SearchAttempts
          /\ call[k].attempt \in Nat /\ Attempts(call[k].op) \in Nat
      BY <1>1, <2>1, CallFacts DEF CallOK
    <3>2. SearchAttempts \in Nat
      BY AiAssumption
    <3> QED BY <2>2, <3>1, <3>2
  <2>4. PICK c : SetCall(k, c) /\ CallOK(c) /\ ~Counts(c)
    <3>1. SetCall(k, NoCall) \/ SetCall(k, NextProvider(call[k]))
      BY <1>3 DEF AfterAlert, EndCall
    <3> QED BY <1>1, <2>2, <3>1, NoCallOK, NextProviderOK, CallFacts
  <2> QED BY <2>1, <2>2, <2>3, <2>4, LeavingKeeps DEF RecordProviderFailure
<1> QED BY <1>2, <1>3

(* A search is tried again at the same provider.                            *)
LEMMA RetryKeeps ==
  ASSUME CascadeInv, NEW k \in Callers, Retry(k)
  PROVE  CascadeInv'
<1>1. CascadeType /\ call[k].at = "retry" /\ UNCHANGED <<breaker, storm>>
  BY DEF CascadeInv, Retry
<1>2. /\ call[k].index <= Len(Plan(k)) /\ CallOK(call[k])
      /\ call[k].attempt < Attempts(call[k].op) /\ call[k].attempt # 0
      /\ call[k].attempt \in Nat /\ call[k].op \in Operations
  BY <1>1, CallFacts DEF CallOK, AtProvider
<1>3. CASE EndCall(k)
  BY <1>1, <1>3, NoCallOK, UnseenKeeps DEF EndCall
<1>4. CASE SetCall(k, NextProvider(call[k]))
  BY <1>1, <1>2, <1>4, NextProviderOK, UnseenKeeps DEF Plan
<1>5. CASE Send(k)
  <2>1. call[k].op # "once"
    BY <1>2 DEF Attempts
  <2>2. k \in UnderWay(Provider(k)) \/ ~IsThrottleOpen(k, Provider(k))
    BY <1>1, <1>2, <2>1, CallFacts
       DEF UnderWay, Counts, AtProvider, IsThrottleOpen, Guarded, Operations
  <2> QED BY <1>1, <1>2, <1>5, <2>2, SendKeeps
<1> QED BY <1>3, <1>4, <1>5 DEF Retry

(* The caller of a call goes.                                               *)
LEMMA AbortKeeps ==
  ASSUME CascadeInv, NEW k \in Callers, Abort(k)
  PROVE  CascadeInv'
<1> DEFINE d == [call[k] EXCEPT !.abort = TRUE]
<1>1. CascadeType /\ UNCHANGED <<breaker, storm>>
  BY DEF CascadeInv, Abort
<1>2. /\ d \in CallRecord /\ d.at = call[k].at /\ d.op = call[k].op
      /\ d.index = call[k].index /\ d.attempt = call[k].attempt
      /\ d.hits = call[k].hits /\ d.code = call[k].code
  BY <1>1, CallFacts DEF CallRecord
<1>3. SetCall(k, d)
  BY DEF Abort
<1> HIDE DEF d
<1>4. CallOK(d)
  BY <1>1, <1>2, CallFacts DEF CallOK, AtProvider
<1>5. Counts(d) => k \in UnderWay(AskedOf(d))
  BY <1>2 DEF Counts, UnderWay, AskedOf
<1> QED BY <1>1, <1>3, <1>4, <1>5, UnseenKeeps

(* A call begins.                                                           *)
LEMMA StartCallKeeps ==
  ASSUME CascadeInv, NEW k \in Callers, StartCall(k)
  PROVE  CascadeInv'
<1>1. PICK op \in Uses[k] : SetCall(k, [NoCall EXCEPT !.at = "next", !.op = op])
  BY DEF StartCall
<1> DEFINE d == [NoCall EXCEPT !.at = "next", !.op = op]
<1>2. op \in Operations
  BY AiAssumption
<1>3. SetCall(k, d) /\ UNCHANGED <<breaker, storm>>
  BY <1>1 DEF StartCall
<1>4. /\ d \in CallRecord /\ d.at = "next" /\ d.op = op /\ d.index = 1
      /\ d.attempt = 0 /\ d.hits = 0
  <2>1. NoCall \in CallRecord
    BY NoCallOK DEF CallOK
  <2> QED BY <1>2, <2>1 DEF CallRecord, InCall, NoCall
<1> HIDE DEF d
<1>5. CallOK(d) /\ ~Counts(d)
  BY <1>2, <1>4, OfferFacts DEF CallOK, AtProvider, Counts
<1> QED BY <1>3, <1>5, UnseenKeeps

(* A breaker closes after its time and its storm is over.                   *)
LEMMA CooldownEndsKeeps ==
  ASSUME CascadeInv, NEW p \in Providers, CooldownEnds(p)
  PROVE  CascadeInv'
<1>1. /\ breaker \in [Providers -> BreakerRecord] /\ storm \in [Providers -> Nat]
      /\ call' = call /\ breaker' = [breaker EXCEPT ![p].open = FALSE]
      /\ storm' = [storm EXCEPT ![p] = 0]
  BY DEF CascadeInv, CascadeType, CooldownEnds
<1>2. /\ breaker'[p] \in BreakerRecord /\ ~breaker'[p].open
      /\ breaker' \in [Providers -> BreakerRecord] /\ storm' \in [Providers -> Nat]
  BY <1>1 DEF BreakerRecord
<1>3. CascadeType'
  BY <1>1, <1>2 DEF CascadeInv, CascadeType
<1>4. \A q \in Providers : UnderWay(q)' = UnderWay(q)
  BY <1>1 DEF UnderWay
<1>5. ASSUME NEW q \in Providers
      PROVE  IF breaker'[q].open
             THEN storm'[q] + Cardinality(UnderWay(q)') * SearchAttempts <= Ceiling
             ELSE /\ storm'[q] <= breaker'[q].throttled * SearchAttempts
                  /\ storm'[q] <= (ThrottleThreshold - 1) * SearchAttempts
  <2>1. CASE q = p
    <3>1. breaker'[p].throttled \in Nat /\ ThrottleThreshold - 1 \in Nat
          /\ SearchAttempts \in Nat
      BY <1>2, AiAssumption DEF BreakerRecord
    <3>2. /\ breaker'[p].throttled * SearchAttempts \in Nat
          /\ (ThrottleThreshold - 1) * SearchAttempts \in Nat
      BY <3>1, Multiples
    <3>3. storm'[p] = 0
      BY <1>1
    <3> QED BY <1>2, <2>1, <3>2, <3>3
  <2>2. CASE q # p
    BY <1>1, <1>4, <2>2 DEF CascadeInv, StormInv
  <2> QED BY <2>1, <2>2
<1> QED BY <1>3, <1>5 DEF CascadeInv, StormInv, Ceiling

(* Every step of the cascade keeps the invariant.                           *)
LEMMA CascadeStep == CascadeInv /\ [AiNext]_aiVars => CascadeInv'
<1> SUFFICES ASSUME CascadeInv, [AiNext]_aiVars PROVE CascadeInv'
  OBVIOUS
<1>1. ASSUME NEW k \in Callers, CallStep(k) PROVE CascadeInv'
  <2>1. CASE AttemptAborts(k)
    BY <2>1, NoCallOK, UnseenKeeps DEF AttemptAborts, EndCall
  <2> QED BY <1>1, <2>1, TakeProviderKeeps, AnswerKeeps, AttemptMayRepeatKeeps,
             ProviderFailsKeeps, AfterAlertKeeps, RetryKeeps DEF CallStep
<1>2. CASE UNCHANGED aiVars
  BY <1>2 DEF aiVars, CascadeInv, CascadeType, StormInv, UnderWay, Ceiling
<1> QED BY <1>1, <1>2, StartCallKeeps, AbortKeeps, CooldownEndsKeeps DEF AiNext

(* The invariant holds at the start.                                        *)
LEMMA CascadeStart == AiInit => CascadeInv
<1> SUFFICES ASSUME AiInit PROVE CascadeInv
  OBVIOUS
<1>1. CascadeType
  BY NoCallOK, AiAssumption DEF AiInit, CascadeType, BreakerRecord
<1>2. ThrottleThreshold - 1 \in Nat /\ SearchAttempts \in Nat /\ 0 \in Nat
  BY AiAssumption
<1>3. (ThrottleThreshold - 1) * SearchAttempts \in Nat /\ 0 * SearchAttempts = 0
  BY <1>2, Multiples
<1>4. StormInv
  BY <1>3 DEF AiInit, StormInv
<1> QED BY <1>1, <1>4 DEF CascadeInv

(* A provider's breaker is a breaker and a call is at one of its providers, *)
(* whatever the callers and their deadlines do.                             *)
THEOREM CascadeInvariant == AiSpec => []CascadeInv
BY CascadeStart, CascadeStep, PTL DEF AiSpec

(* The invariant gives the types.                                           *)
LEMMA CascadeIsTyped == CascadeInv => AiTypeOK
<1> SUFFICES ASSUME CascadeInv PROVE AiTypeOK
  OBVIOUS
<1>1. CascadeType
  BY DEF CascadeInv
<1>2. ASSUME NEW k \in Callers
      PROVE  /\ call[k].at \in InCall \cup {"idle"} /\ call[k].op \in Operations
             /\ call[k].attempt \in 0..Attempts(call[k].op)
             /\ call[k].index \in 1..(Len(Offers[call[k].op]) + 1)
             /\ call[k].code \in Codes \cup {NoProvider}
             /\ call[k].hits \in 0..call[k].attempt
  BY <1>1, CallFacts DEF CallOK, CallRecord, Plan
<1> QED BY <1>1, <1>2 DEF AiTypeOK, CascadeType, BreakerRecord

(* The invariant bounds every storm.                                        *)
LEMMA StormFacts == CascadeInv => StormIsBounded
<1> SUFFICES ASSUME CascadeInv, NEW p \in Providers PROVE storm[p] <= Ceiling
  BY DEF StormIsBounded, Ceiling
<1>1. storm[p] \in Nat /\ Ceiling \in Nat
  BY CeilingFacts DEF CascadeInv, CascadeType
<1>2. CASE breaker[p].open
  <2>1. Cardinality(UnderWay(p)) * SearchAttempts \in Nat
    BY UnderWayIsFinite, Multiples, AiAssumption
  <2> QED BY <1>1, <1>2, <2>1 DEF CascadeInv, StormInv
<1>3. CASE ~breaker[p].open
  <2>1. ThrottleThreshold - 1 \in Nat /\ SearchAttempts \in Nat
    BY AiAssumption
  <2>2. (ThrottleThreshold - 1) * SearchAttempts \in Nat
    BY <2>1, Multiples
  <2> QED BY <1>1, <1>3, <2>2, CeilingFacts DEF CascadeInv, StormInv
<1> QED BY <1>2, <1>3

(* An abandoned caller is not at its provider again: no step sends for it.  *)
LEMMA AbortedStep ==
  ASSUME CascadeInv, AiNext, NEW k \in Callers,
         call[k].abort, call'[k].at = "request"
  PROVE  call'[k] = call[k]
<1>1. CascadeType /\ CallOK(call[k])
  BY DEF CascadeInv, CascadeType
<1>2. /\ NoCall.at = "idle"
      /\ \A op : [NoCall EXCEPT !.at = "next", !.op = op].at = "next"
  BY DEF NoCall
<1>3. call[k] \in CallRecord /\ NextProvider(call[k]).at = "next"
  BY <1>1, CallFacts DEF NextProvider, CallRecord
<1>4. ASSUME NEW q \in Callers, q # k, NEW c, SetCall(q, c)
      PROVE  call'[k] = call[k]
  BY <1>1, <1>4 DEF SetCall, CascadeType
<1>5. \A c : SetCall(k, c) => call'[k] = c
  BY <1>1 DEF SetCall, CascadeType
<1>6. ASSUME NEW q \in Callers, StartCall(q) \/ CallStep(q) \/ Abort(q)
      PROVE  \E c : SetCall(q, c)
  BY <1>6 DEF StartCall, CallStep, Abort, TakeProvider, Answer, AttemptAborts,
     AttemptMayRepeat, ProviderFails, AfterAlert, Retry, EndCall, Send
<1>7. CASE StartCall(k)
  BY <1>2, <1>5, <1>7 DEF StartCall
<1>8. CASE CallStep(k)
  BY <1>2, <1>3, <1>5, <1>8 DEF CallStep, TakeProvider, Answer, AttemptAborts,
     AttemptMayRepeat, ProviderFails, AfterAlert, Retry, EndCall, CallRecord
<1>9. ~Abort(k)
  BY DEF Abort
<1>10. CASE UNCHANGED call
  BY <1>10
<1> QED BY <1>4, <1>6, <1>7, <1>8, <1>9, <1>10 DEF AiNext, CooldownEnds

(* The cascade of createFallbackAiProvider keeps its promise: a provider    *)
(* that throttles everything is asked so often and no more, whatever the    *)
(* callers do at the same time, and an abandoned call asks nobody again.    *)
THEOREM CascadeKeepsItsPromise == AiSpec => CascadePromise
<1>1. CascadeInv /\ [AiNext]_aiVars =>
        [\A k \in Callers : call[k].abort /\ call'[k].at = "request"
                              => call'[k] = call[k]]_aiVars
  BY AbortedStep
<1>2. AiSpec => []StormIsBounded
  BY CascadeInvariant, StormFacts, PTL
<1>3. AiSpec => AbortedTriesNoMore
  BY CascadeInvariant, <1>1, PTL DEF AiSpec, AbortedTriesNoMore
<1> QED BY <1>2, <1>3 DEF CascadePromise

-----------------------------------------------------------------------------
(* The walks of the free models *)

(* A nonempty set of numbers has a least one.                               *)
LEMMA LeastNumber ==
  ASSUME NEW S, S \subseteq Nat, S # {}
  PROVE  \E x \in S : \A y \in S : x <= y
<1>1. PICK x \in S : \A y \in S : ~ (<<y, x>> \in OpToRel(<, Nat))
  BY NatLessThanWellFounded, WFMin
<1>2. \A y \in S : ~ (y < x)
  BY <1>1, Zenon DEF OpToRel
<1> QED BY <1>2

Resolved == {"listed", "default"}

WalkRecord ==
  [at : {"idle"} \cup OnTheWay \cup WalkPoints,
   first : FreeModels \cup {NoModel}, model : FreeModels \cup {NoModel},
   tried : SUBSET FreeModels, aborted : BOOLEAN]

(* A call under way has been given its list, and a walk that failed has     *)
(* been through it.                                                         *)
WalkInv(k) ==
  /\ walk[k].at \in {"calling", "failed"} => lookup \in Resolved
  /\ walk[k].at = "calling" => walk[k].model \in FreeModels
  /\ walk[k].at = "failed" => Untried(k, walk[k].tried) = {}

RouterInv ==
  /\ RouterTypeOK /\ ProvenHasAnswered
  /\ \A k \in Walkers : WalkInv(k)

(* Two sequences in a row.                                                  *)
LEMMA InARow ==
  ASSUME NEW S, NEW s \in Seq(S), NEW t \in Seq(S)
  PROVE  /\ s \o t \in Seq(S) /\ Len(s \o t) = Len(s) + Len(t)
         /\ \A i \in 1..Len(s) : (s \o t)[i] = s[i]
         /\ \A i \in 1..Len(t) : (s \o t)[Len(s) + i] = t[i]
OBVIOUS

(* The list is a sequence of models that has every preference, the default  *)
(* and, once it was found, the catalogue.                                   *)
LEMMA ListFacts ==
  ASSUME RouterTypeOK, NEW k \in Walkers
  PROVE  /\ ModelsOf(k) \in Seq(FreeModels)
         /\ \A m \in Members(Preferred) \cup {DefaultModel} :
              \E i \in DOMAIN ModelsOf(k) : ModelsOf(k)[i] = m
         /\ lookup = "listed" => \A m \in Members(Catalogue) :
              \E i \in DOMAIN ModelsOf(k) : ModelsOf(k)[i] = m
<1> DEFINE first == IF walk[k].first = NoModel THEN <<>> ELSE <<walk[k].first>>
           found == IF lookup = "listed" THEN Catalogue ELSE <<>>
           pref == first \o Preferred
           most == pref \o found
<1>1. /\ first \in Seq(FreeModels) /\ Preferred \in Seq(FreeModels)
      /\ found \in Seq(FreeModels) /\ <<DefaultModel>> \in Seq(FreeModels)
      /\ Catalogue \in Seq(FreeModels)
  <2>1. DefaultModel \in FreeModels
    BY DEF FreeModels
  <2>2. walk[k].first \in FreeModels \cup {NoModel}
    BY DEF RouterTypeOK
  <2>3. Preferred \in Seq(FreeModels) /\ Catalogue \in Seq(FreeModels)
    BY OpenRouterAssumption
  <2>4. <<>> \in Seq(FreeModels) /\ \A f \in FreeModels : <<f>> \in Seq(FreeModels)
    OBVIOUS
  <2>5. first \in Seq(FreeModels)
    BY <2>2, <2>4
  <2>6. found \in Seq(FreeModels)
    BY <2>3, <2>4
  <2> QED BY <2>1, <2>3, <2>4, <2>5, <2>6
<1>2. ModelsOf(k) = most \o <<DefaultModel>>
  BY DEF ModelsOf
<1> HIDE DEF first, found
<1>3. pref \in Seq(FreeModels) /\ Len(pref) = Len(first) + Len(Preferred)
      /\ \A i \in 1..Len(Preferred) : pref[Len(first) + i] = Preferred[i]
  BY <1>1, InARow
<1> HIDE DEF pref
<1>4. /\ most \in Seq(FreeModels) /\ Len(most) = Len(pref) + Len(found)
      /\ \A i \in 1..Len(pref) : most[i] = pref[i]
      /\ \A i \in 1..Len(found) : most[Len(pref) + i] = found[i]
  <2>1. pref \in Seq(FreeModels)
    BY <1>3
  <2>2. found \in Seq(FreeModels)
    BY <1>1
  <2>3. /\ pref \o found \in Seq(FreeModels)
        /\ Len(pref \o found) = Len(pref) + Len(found)
        /\ \A i \in 1..Len(pref) : (pref \o found)[i] = pref[i]
        /\ \A i \in 1..Len(found) : (pref \o found)[Len(pref) + i] = found[i]
    BY <2>1, <2>2, InARow
  <2> QED BY <2>3
<1> HIDE DEF most
<1>5. /\ ModelsOf(k) \in Seq(FreeModels) /\ Len(ModelsOf(k)) = Len(most) + 1
      /\ \A i \in 1..Len(most) : ModelsOf(k)[i] = most[i]
      /\ ModelsOf(k)[Len(most) + 1] = DefaultModel
  <2> DEFINE last == <<DefaultModel>>
  <2>1. Len(last) = 1 /\ last[1] = DefaultModel /\ last \in Seq(FreeModels)
    BY <1>1
  <2> HIDE DEF last
  <2>2. /\ most \o last \in Seq(FreeModels) /\ Len(most \o last) = Len(most) + 1
        /\ \A i \in 1..Len(most) : (most \o last)[i] = most[i]
        /\ (most \o last)[Len(most) + 1] = last[1]
    BY <1>4, <2>1, InARow
  <2> QED BY <1>2, <2>1, <2>2 DEF last
<1>6. ASSUME NEW m \in Members(Preferred)
      PROVE  \E i \in DOMAIN ModelsOf(k) : ModelsOf(k)[i] = m
  <2>1. PICK j \in 1..Len(Preferred) : m = Preferred[j]
    BY <1>1 DEF Members
  <2>2. /\ Len(first) + j \in 1..Len(pref) /\ Len(first) + j \in 1..Len(most)
        /\ Len(first) + j \in 1..Len(ModelsOf(k))
    BY <1>1, <1>3, <1>4, <1>5
  <2>3. ModelsOf(k)[Len(first) + j] = m
    BY <1>3, <1>4, <1>5, <2>1, <2>2
  <2> QED BY <1>5, <2>2, <2>3
<1>7. ASSUME lookup = "listed", NEW m \in Members(Catalogue)
      PROVE  \E i \in DOMAIN ModelsOf(k) : ModelsOf(k)[i] = m
  <2>1. PICK j \in 1..Len(found) : m = found[j]
    BY <1>1, <1>7 DEF Members, found
  <2>2. /\ Len(pref) + j \in 1..Len(most) /\ Len(pref) + j \in 1..Len(ModelsOf(k))
    BY <1>1, <1>3, <1>4, <1>5
  <2> QED BY <1>4, <1>5, <2>1, <2>2
<1>8. Len(most) + 1 \in DOMAIN ModelsOf(k)
  BY <1>4, <1>5
<1> QED BY <1>5, <1>6, <1>7, <1>8

(* While the list has a model that was not tried, the next one is such.     *)
LEMMA NextModelFacts ==
  ASSUME RouterTypeOK, NEW k \in Walkers, NEW tried, Untried(k, tried) # {}
  PROVE  NextModel(k, tried) \in FreeModels \ tried
<1>1. ModelsOf(k) \in Seq(FreeModels)
  BY ListFacts
<1>2. Untried(k, tried) \subseteq Nat
  BY <1>1 DEF Untried
<1>3. \E i \in Untried(k, tried) : \A j \in Untried(k, tried) : i <= j
  BY <1>2, LeastNumber
<1>4. PICK i \in Untried(k, tried) : NextModel(k, tried) = ModelsOf(k)[i]
  BY <1>3 DEF NextModel
<1> QED BY <1>1, <1>4 DEF Untried

(* What is untried depends on the model the call began with and on the list. *)
LEMMA ListKept ==
  ASSUME NEW k, walk'[k].first = walk[k].first,
         (lookup = "listed") <=> (lookup' = "listed"), NEW tried
  PROVE  Untried(k, tried)' = Untried(k, tried)
BY DEF Untried, ModelsOf

(* A walk that changes to another well-formed one.                          *)
LEMMA OtherWalks ==
  ASSUME RouterInv, NEW k \in Walkers, NEW w \in WalkRecord,
         walk' = [walk EXCEPT ![k] = w], lookup' = lookup,
         NEW q \in Walkers \ {k}
  PROVE  WalkInv(q)'
BY ListKept DEF RouterInv, WalkInv, RouterTypeOK

(* A walk calls a model it has not tried.                                   *)
LEMMA CallKeeps ==
  ASSUME RouterInv, NEW k \in Walkers, NEW tried \in SUBSET FreeModels,
         Untried(k, tried) # {}, Call(k, tried), lookup \in Resolved, lookup' = lookup
  PROVE  /\ walk' \in [Walkers -> WalkRecord]
         /\ \A q \in Walkers : WalkInv(q)'
<1> DEFINE m == NextModel(k, tried)
           w == [walk[k] EXCEPT !.at = "calling", !.model = m, !.tried = tried \cup {m}]
<1>1. m \in FreeModels
  BY NextModelFacts DEF RouterInv
<1>2. walk \in [Walkers -> WalkRecord]
  BY DEF RouterInv, RouterTypeOK, WalkRecord
<1>3. walk' = [walk EXCEPT ![k] = w]
  BY <1>2 DEF Call, WalkRecord
<1> HIDE DEF m
<1>4. w \in WalkRecord /\ w.at = "calling" /\ w.model = m
  BY <1>1, <1>2 DEF WalkRecord, OnTheWay
<1> HIDE DEF w
<1>5. WalkInv(k)'
  BY <1>1, <1>2, <1>3, <1>4 DEF WalkInv
<1> QED BY <1>2, <1>3, <1>4, <1>5, OtherWalks

(* A walk ends; it fails only when it has tried all.                        *)
LEMMA WalkEndsKeeps ==
  ASSUME RouterInv, NEW k \in Walkers, NEW point \in WalkPoints,
         WalkEnds(k, point), lookup' = lookup,
         point = "failed" => Untried(k, walk[k].tried) = {} /\ lookup \in Resolved
  PROVE  /\ walk' \in [Walkers -> WalkRecord]
         /\ \A q \in Walkers : WalkInv(q)'
<1> DEFINE w == [walk[k] EXCEPT !.at = point, !.model = NoModel]
<1>1. walk \in [Walkers -> WalkRecord]
  BY DEF RouterInv, RouterTypeOK, WalkRecord
<1>2. walk' = [walk EXCEPT ![k] = w]
  BY <1>1 DEF WalkEnds, WalkRecord
<1>3. /\ w \in WalkRecord /\ w.at = point /\ w.tried = walk[k].tried
      /\ w.first = walk[k].first
  BY <1>1 DEF WalkRecord
<1> HIDE DEF w
<1>4. WalkInv(k)'
  BY <1>1, <1>2, <1>3, ListKept DEF WalkInv, WalkPoints
<1> QED BY <1>1, <1>2, <1>3, <1>4, OtherWalks

(* The steps of a walk, whatever the others do.                             *)
LEMMA WalkStep ==
  ASSUME RouterInv, NEW k \in Walkers,
         \/ StartWalk(k) \/ FirstModel(k) \/ ModelAnswers(k) \/ ModelFails(k)
         \/ CallerAborts(k) \/ WalkOver(k)
  PROVE  RouterInv'
<1>1. RouterTypeOK /\ walk \in [Walkers -> WalkRecord]
  BY DEF RouterInv, RouterTypeOK, WalkRecord
<1>2. NoWalk \in WalkRecord
  BY DEF NoWalk, WalkRecord
<1>3. CASE StartWalk(k)
  <2> DEFINE w == [NoWalk EXCEPT !.at = "listing", !.first = proven]
  <2>1. walk' = [walk EXCEPT ![k] = w] /\ UNCHANGED <<proven, lastReply>>
    BY <1>3 DEF StartWalk
  <2>2. w \in WalkRecord /\ w.at = "listing"
    BY <1>1 DEF RouterTypeOK, NoWalk, WalkRecord, OnTheWay
  <2> HIDE DEF w
  <2>3. /\ lookup' \in {"none", "listed", "default"} \cup Walkers
        /\ lookup' = lookup \/ lookup = "none"
    BY <1>1, <1>3 DEF StartWalk, RouterTypeOK
  <2>4. ASSUME NEW q \in Walkers PROVE WalkInv(q)'
    <3>1. CASE q = k
      BY <1>1, <2>1, <2>2, <3>1 DEF WalkInv
    <3>2. CASE q # k /\ lookup = "none"
      BY <1>1, <2>1, <2>3, <3>2 DEF WalkInv, RouterInv, Resolved
    <3>3. CASE q # k /\ lookup' = lookup
      BY <2>1, <2>2, <3>3, OtherWalks
    <3> QED BY <2>3, <3>1, <3>2, <3>3
  <2>5. RouterTypeOK'
    BY <1>1, <2>1, <2>2, <2>3 DEF RouterTypeOK, WalkRecord
  <2> QED BY <2>1, <2>4, <2>5 DEF RouterInv, ProvenHasAnswered
<1>4. CASE FirstModel(k)
  <2>1. lookup \in Resolved /\ UNCHANGED <<lookup, proven, lastReply>>
    BY <1>4 DEF FirstModel, Resolved
  <2>2. Untried(k, {}) # {}
    <3>1. \E i \in DOMAIN ModelsOf(k) : ModelsOf(k)[i] = DefaultModel
      BY <1>1, ListFacts
    <3> QED BY <3>1 DEF Untried
  <2>3. Call(k, {}) \/ WalkEnds(k, "aborted")
    BY <1>4 DEF FirstModel
  <2>4. {} \in SUBSET FreeModels /\ "aborted" \in WalkPoints
    BY DEF WalkPoints
  <2>5. walk' \in [Walkers -> WalkRecord] /\ \A q \in Walkers : WalkInv(q)'
    BY <2>1, <2>2, <2>3, <2>4, CallKeeps, WalkEndsKeeps
  <2> QED BY <1>1, <2>1, <2>5
          DEF RouterInv, RouterTypeOK, WalkRecord, ProvenHasAnswered
<1>5. CASE ModelAnswers(k)
  <2>1. /\ walk[k].model \in FreeModels /\ lookup' = lookup
        /\ WalkEnds(k, "answered") /\ proven' = walk[k].model
        /\ lastReply' = [lastReply EXCEPT ![walk[k].model] = "answered"]
    BY <1>5 DEF ModelAnswers, RouterInv, WalkInv
  <2>2. "answered" \in WalkPoints
    BY DEF WalkPoints
  <2>3. walk' \in [Walkers -> WalkRecord] /\ \A q \in Walkers : WalkInv(q)'
    BY <2>1, <2>2, WalkEndsKeeps
  <2> QED BY <1>1, <2>1, <2>3
          DEF RouterInv, RouterTypeOK, WalkRecord, ProvenHasAnswered
<1>6. CASE ModelFails(k)
  <2>1. /\ walk[k].model \in FreeModels /\ lookup' = lookup /\ lookup \in Resolved
        /\ WalkOn(k) /\ walk[k].tried \in SUBSET FreeModels
    BY <1>1, <1>6 DEF ModelFails, RouterInv, WalkInv, WalkRecord
  <2>2. {"aborted", "failed"} \subseteq WalkPoints
    BY DEF WalkPoints
  <2>3. walk' \in [Walkers -> WalkRecord] /\ \A q \in Walkers : WalkInv(q)'
    BY <2>1, <2>2, CallKeeps, WalkEndsKeeps DEF WalkOn
  <2>4. /\ proven' \in FreeModels \cup {NoModel} /\ ProvenHasAnswered'
        /\ lastReply' \in [FreeModels -> {"none", "answered", "failed"}]
    BY <1>1, <1>6, <2>1
       DEF ModelFails, StillProven, RouterInv, RouterTypeOK, ProvenHasAnswered
  <2> QED BY <1>1, <2>1, <2>3, <2>4 DEF RouterInv, RouterTypeOK, WalkRecord
<1>7. CASE CallerAborts(k)
  <2> DEFINE w == [walk[k] EXCEPT !.aborted = TRUE]
  <2>1. walk' = [walk EXCEPT ![k] = w] /\ UNCHANGED <<lookup, proven, lastReply>>
    BY <1>1, <1>7 DEF CallerAborts, WalkRecord
  <2>2. /\ w \in WalkRecord /\ w.at = walk[k].at /\ w.model = walk[k].model
        /\ w.tried = walk[k].tried /\ w.first = walk[k].first
    BY <1>1 DEF WalkRecord
  <2> HIDE DEF w
  <2>3. WalkInv(k)'
    BY <1>1, <2>1, <2>2, ListKept DEF RouterInv, WalkInv
  <2>4. \A q \in Walkers : WalkInv(q)'
    BY <2>1, <2>2, <2>3, OtherWalks
  <2> QED BY <1>1, <2>1, <2>2, <2>4
          DEF RouterInv, RouterTypeOK, WalkRecord, ProvenHasAnswered
<1>8. CASE WalkOver(k)
  <2>1. walk' = [walk EXCEPT ![k] = NoWalk] /\ UNCHANGED <<lookup, proven, lastReply>>
    BY <1>8 DEF WalkOver
  <2>2. WalkInv(k)'
    BY <1>1, <2>1 DEF WalkInv, NoWalk
  <2>3. \A q \in Walkers : WalkInv(q)'
    BY <1>2, <2>1, <2>2, OtherWalks
  <2> QED BY <1>1, <1>2, <2>1, <2>3
          DEF RouterInv, RouterTypeOK, WalkRecord, ProvenHasAnswered
<1> QED BY <1>3, <1>4, <1>5, <1>6, <1>7, <1>8

(* Every step of a walk, and the end of the discovery, keeps the invariant. *)
LEMMA RouterStep == RouterInv /\ [RouterNext]_routerVars => RouterInv'
<1> SUFFICES ASSUME RouterInv, [RouterNext]_routerVars PROVE RouterInv'
  OBVIOUS
<1>1. CASE DiscoveryEnds
  <2>1. /\ lookup \in Walkers /\ lookup' \in Resolved
        /\ UNCHANGED <<proven, walk, lastReply>>
    BY <1>1 DEF DiscoveryEnds, Resolved
  <2>2. lookup \notin Resolved
    BY <2>1, OpenRouterAssumption DEF Resolved
  <2>3. \A k \in Walkers : WalkInv(k)'
    BY <2>1, <2>2 DEF RouterInv, WalkInv
  <2> QED BY <2>1, <2>3
          DEF RouterInv, RouterTypeOK, Resolved, ProvenHasAnswered
<1>2. CASE UNCHANGED routerVars
  BY <1>2 DEF routerVars, RouterInv, RouterTypeOK, WalkInv, Untried, ModelsOf,
     ProvenHasAnswered
<1> QED BY <1>1, <1>2, WalkStep DEF RouterNext

(* The invariant holds at the start.                                        *)
LEMMA RouterStart == RouterInit => RouterInv
BY DEF RouterInit, RouterInv, RouterTypeOK, NoWalk, WalkInv, ProvenHasAnswered

(* A walk has tried what it says it has, in every reachable state.          *)
THEOREM RouterInvariant == RouterSpec => []RouterInv
BY RouterStart, RouterStep, PTL DEF RouterSpec

(* A walk that has been through its list has tried all that is on it.       *)
LEMMA NothingLeft == RouterInv => NothingFreeIsLeft
<1> SUFFICES ASSUME RouterInv, NEW k \in Walkers, walk[k].at = "failed"
             PROVE  /\ Members(Preferred) \cup {DefaultModel} \subseteq walk[k].tried
                    /\ lookup = "listed" => Members(Catalogue) \subseteq walk[k].tried
  BY DEF NothingFreeIsLeft
<1>1. \A i \in DOMAIN ModelsOf(k) : ModelsOf(k)[i] \in walk[k].tried
  BY DEF RouterInv, WalkInv, Untried
<1> QED BY <1>1, ListFacts DEF RouterInv

(* No step sends a request for a walk whose caller has gone.                *)
LEMMA GoneStep ==
  ASSUME RouterInv, RouterNext, NEW k \in Walkers,
         walk[k].aborted, walk'[k].at = "calling"
  PROVE  walk'[k] = walk[k]
<1>1. walk \in [Walkers -> WalkRecord]
  BY DEF RouterInv, RouterTypeOK, WalkRecord
<1>2. ASSUME NEW q \in Walkers, q # k,
             \/ StartWalk(q) \/ FirstModel(q) \/ ModelAnswers(q) \/ ModelFails(q)
             \/ CallerAborts(q) \/ WalkOver(q)
      PROVE  walk'[k] = walk[k]
  BY <1>1, <1>2 DEF StartWalk, FirstModel, ModelAnswers, ModelFails, CallerAborts,
     WalkOver, WalkOn, WalkEnds, Call
<1>3. ~StartWalk(k) /\ ~WalkOver(k)
  <2>1. NoWalk.at = "idle" /\ [NoWalk EXCEPT !.at = "listing", !.first = proven].at = "listing"
    BY DEF NoWalk
  <2> QED BY <1>1, <2>1 DEF StartWalk, WalkOver
<1>4. ~FirstModel(k) /\ ~ModelAnswers(k) /\ ~ModelFails(k)
  BY <1>1 DEF FirstModel, ModelAnswers, ModelFails, WalkOn, WalkEnds, WalkRecord
<1>5. ~CallerAborts(k)
  BY DEF CallerAborts
<1> QED BY <1>2, <1>3, <1>4, <1>5 DEF RouterNext, DiscoveryEnds

(* A model is proven by its answer, a walk fails only after every free      *)
(* model it could ask, and no caller that has gone has one asked (src/ai/). *)
THEOREM RouterKeepsItsPromise == RouterSpec => OpenRouterPromise
<1>1. RouterInv /\ [RouterNext]_routerVars =>
        [\A k \in Walkers : walk[k].aborted /\ walk'[k].at = "calling"
                              => walk'[k] = walk[k]]_routerVars
  BY GoneStep
<1>2. RouterInv => ProvenHasAnswered /\ NothingFreeIsLeft
  BY NothingLeft DEF RouterInv
<1>3. RouterSpec => [](ProvenHasAnswered /\ NothingFreeIsLeft)
  BY RouterInvariant, <1>2, PTL
<1>4. RouterSpec => GoneAsksNoMore
  BY RouterInvariant, <1>1, PTL DEF RouterSpec, GoneAsksNoMore
<1> QED BY <1>3, <1>4 DEF OpenRouterPromise

-----------------------------------------------------------------------------
(* The health files of the runtimes *)

HealthRecord ==
  [at : {"down", "starting", "serving", "stopped", "gone", "dead"} \cup Draining,
   chain : {<<>>, <<"ready">>, <<"stopping">>},
   published : BOOLEAN, spoiled : BOOLEAN]
ProbeRecord ==
  [at : {"idle", "read", "lease", "healthy", "unhealthy"},
   of : Runtimes \cup {Nobody}, gone : SUBSET Runtimes]

(* A worker waits for its publishes before it goes on, and a file is that   *)
(* of a worker that published; who was gone when a probe read the file is   *)
(* not one who can come up under it.                                        *)
Quiet == {"down", "mark", "unlink", "stopped", "gone"}

WorkerInv(r) ==
  /\ health[r].at \in Quiet => health[r].chain = <<>>
  /\ file.of = r => health[r].at # "down" /\ health[r].published
  /\ health[r].at \in {"stopped", "gone"} /\ ~health[r].spoiled => file.of # r

ProbeInv ==
  /\ probe.at \in {"read", "lease", "healthy"} =>
       /\ probe.of \in Runtimes /\ health[probe.of].at # "down"
       /\ probe.of \in probe.gone => ~Alive(probe.of)
  /\ probe.at \in {"lease", "healthy"} => probe.of \notin probe.gone

HealthInv ==
  /\ file \in [of : Runtimes, state : {"ready", "stopping"}] \cup {NoFile}
  /\ pollerLease \in Runtimes \cup {Nobody}
  /\ health \in [Runtimes -> HealthRecord] /\ probe \in ProbeRecord
  /\ healthFaults \in 0..MaxHealthFaults
  /\ \A r \in Runtimes : WorkerInv(r)
  /\ ProbeInv


(* What is left of a queue of one when its head is taken.                   *)
LEMMA ChainFacts ==
  ASSUME NEW h \in HealthRecord, h.chain # <<>>
  PROVE  Tail(h.chain) = <<>> /\ Head(h.chain) \in {"ready", "stopping"}
<1>1. h.chain = <<"ready">> \/ h.chain = <<"stopping">>
  BY DEF HealthRecord
<1>2. Tail(<<"ready">>) = <<>> /\ Tail(<<"stopping">>) = <<>>
  OBVIOUS
<1>3. Head(<<"ready">>) = "ready" /\ Head(<<"stopping">>) = "stopping"
  OBVIOUS
<1> QED BY <1>1, <1>2, <1>3

(* A worker that is alive goes on; the file becomes its own or nobody's, or *)
(* stays.                                                                   *)
LEMMA WorkerMoves ==
  ASSUME HealthInv, NEW r \in Runtimes, NEW h \in HealthRecord,
         health' = [health EXCEPT ![r] = h],
         h.at # "down", Alive(r) \/ health[r].at = "down", UNCHANGED probe,
         pollerLease' \in Runtimes \cup {Nobody}, healthFaults' \in 0..MaxHealthFaults,
         \/ file' = file \/ file' = NoFile
         \/ \E s \in {"ready", "stopping"} : file' = [of |-> r, state |-> s],
         h.at \in Quiet => h.chain = <<>>,
         file'.of = r => h.published,
         h.at \in {"stopped", "gone"} /\ ~h.spoiled => file'.of # r
  PROVE  HealthInv'
<1>1. /\ health \in [Runtimes -> HealthRecord] /\ health' \in [Runtimes -> HealthRecord]
      /\ health'[r] = h /\ \A q \in Runtimes \ {r} : health'[q] = health[q]
  BY DEF HealthInv
<1>2. /\ file' \in [of : Runtimes, state : {"ready", "stopping"}] \cup {NoFile}
      /\ file' = file \/ file'.of \in {r, Nobody}
  BY DEF HealthInv, NoFile
<1>3. \A q \in Runtimes : WorkerInv(q)'
  BY <1>1, <1>2, HealthAssumption DEF HealthInv, WorkerInv
<1>4. ProbeInv'
  BY <1>1 DEF HealthInv, ProbeInv, Alive
<1> QED BY <1>1, <1>2, <1>3, <1>4 DEF HealthInv

(* A runtime starts, publishes, beats, stops or dies.                       *)
LEMMA RuntimeKeeps ==
  ASSUME HealthInv, NEW r \in Runtimes,
         \/ StartHealth(r) \/ WorkerStep(r) \/ Heartbeat(r) \/ StopHealth(r)
         \/ RuntimeDies(r)
  PROVE  HealthInv'
<1>1. /\ health \in [Runtimes -> HealthRecord] /\ health[r] \in HealthRecord
      /\ WorkerInv(r) /\ pollerLease \in Runtimes \cup {Nobody}
      /\ healthFaults \in 0..MaxHealthFaults
  BY DEF HealthInv
<1>2. HealthFault => healthFaults' \in 0..MaxHealthFaults
  BY <1>1, HealthAssumption DEF HealthFault
<1>3. CASE WriteSnapshot(r)
  <2>1. /\ health[r].chain # <<>> /\ Alive(r) /\ UNCHANGED <<pollerLease, probe>>
    BY <1>1, <1>3 DEF WriteSnapshot, WorkerInv, Quiet, Alive
  <2>2. Tail(health[r].chain) = <<>> /\ Head(health[r].chain) \in {"ready", "stopping"}
    BY <1>1, <2>1, ChainFacts
  <2>3. CASE /\ file' = [of |-> r, state |-> Head(health[r].chain)]
             /\ health' = [health EXCEPT ![r].chain = Tail(@), ![r].published = TRUE]
             /\ UNCHANGED healthFaults
    <3> DEFINE h == [health[r] EXCEPT !.chain = <<>>, !.published = TRUE]
    <3>1. health' = [health EXCEPT ![r] = h]
      BY <1>1, <2>2, <2>3 DEF HealthRecord
    <3>2. /\ h \in HealthRecord /\ h.at = health[r].at /\ h.chain = <<>> /\ h.published
      BY <1>1 DEF HealthRecord
    <3> HIDE DEF h
    <3>3. h.at # "down" /\ h.at \notin {"stopped", "gone"}
      BY <1>1, <2>1, <3>2 DEF Alive, WorkerInv, Quiet
    <3> QED BY <1>1, <2>1, <2>2, <2>3, <3>1, <3>2, <3>3, WorkerMoves
  <2>4. CASE /\ HealthFault /\ UNCHANGED file
             /\ health' = [health EXCEPT ![r].chain = Tail(@), ![r].spoiled = TRUE]
    <3> DEFINE h == [health[r] EXCEPT !.chain = <<>>, !.spoiled = TRUE]
    <3>1. health' = [health EXCEPT ![r] = h]
      BY <1>1, <2>2, <2>4 DEF HealthRecord
    <3>2. /\ h \in HealthRecord /\ h.at = health[r].at /\ h.chain = <<>> /\ h.spoiled
          /\ h.published = health[r].published
      BY <1>1 DEF HealthRecord
    <3> HIDE DEF h
    <3>3. h.at # "down"
      BY <1>1, <2>1, <3>2 DEF Alive
    <3>4. file'.of = r => h.published
      BY <1>1, <2>4, <3>2 DEF WorkerInv
    <3> QED BY <1>1, <1>2, <2>1, <2>4, <3>1, <3>2, <3>3, <3>4, WorkerMoves
  <2> QED BY <1>3, <2>3, <2>4 DEF WriteSnapshot
<1>4. CASE \E chain \in {<<"ready">>, <<"stopping">>}, at \in {"starting", "serving", "marked"} :
             /\ health[r].at \in {"down", "serving", "mark"}
             /\ health' = [health EXCEPT ![r].at = at, ![r].chain = chain]
             /\ UNCHANGED <<file, probe, healthFaults>>
             /\ pollerLease' \in Runtimes \cup {Nobody}
  <2>1. PICK chain \in {<<"ready">>, <<"stopping">>}, at \in {"starting", "serving", "marked"} :
               health' = [health EXCEPT ![r].at = at, ![r].chain = chain]
    BY <1>4
  <2> DEFINE h == [health[r] EXCEPT !.at = at, !.chain = chain]
  <2>2. health' = [health EXCEPT ![r] = h]
    BY <1>1, <2>1 DEF HealthRecord
  <2>3. /\ h \in HealthRecord /\ h.at = at /\ h.chain = chain
        /\ h.published = health[r].published
    BY <1>1 DEF HealthRecord, Draining
  <2> HIDE DEF h
  <2>4. /\ h.at \notin Quiet /\ h.at # "down" /\ h.at \notin {"stopped", "gone"}
        /\ Alive(r) \/ health[r].at = "down"
    BY <1>4, <2>3 DEF Quiet, Alive
  <2>5. file'.of = r => h.published
    BY <1>1, <1>4, <2>3 DEF WorkerInv
  <2> QED BY <1>1, <1>4, <2>2, <2>3, <2>4, <2>5, WorkerMoves
<1>5. CASE \E at \in {"serving", "settle", "mark", "unlink", "stopped", "gone", "dead"} :
             /\ Alive(r) /\ (at \in Quiet => health[r].chain = <<>>)
             /\ health' = [health EXCEPT ![r].at = at]
             /\ at = "stopped" => file'.of # r
             /\ at = "gone" => health[r].at = "stopped" /\ file' = file
             /\ file' = file \/ file' = NoFile
             /\ UNCHANGED <<pollerLease, probe>>
             /\ healthFaults' \in 0..MaxHealthFaults
  <2>1. PICK at \in {"serving", "settle", "mark", "unlink", "stopped", "gone", "dead"} :
             /\ Alive(r) /\ (at \in Quiet => health[r].chain = <<>>)
             /\ health' = [health EXCEPT ![r].at = at]
             /\ at = "stopped" => file'.of # r
             /\ at = "gone" => health[r].at = "stopped" /\ file' = file
    BY <1>5
  <2> DEFINE h == [health[r] EXCEPT !.at = at]
  <2>2. health' = [health EXCEPT ![r] = h]
    BY <1>1, <2>1 DEF HealthRecord
  <2>3. /\ h \in HealthRecord /\ h.at = at /\ h.chain = health[r].chain
        /\ h.published = health[r].published /\ h.spoiled = health[r].spoiled
    BY <1>1 DEF HealthRecord, Draining
  <2> HIDE DEF h
  <2>4. file'.of = r => h.published
    BY <1>1, <1>5, <2>3, HealthAssumption DEF WorkerInv, NoFile
  <2>5. /\ h.at # "down" /\ Alive(r) /\ UNCHANGED probe
        /\ h.at \in Quiet => h.chain = <<>>
        /\ pollerLease' \in Runtimes \cup {Nobody}
    BY <1>1, <1>5, <2>1, <2>3
  <2>8. h.at \in {"stopped", "gone"} /\ ~h.spoiled => file'.of # r
    BY <1>1, <2>1, <2>3 DEF WorkerInv
  <2>6. file' = file \/ file' = NoFile
    BY <1>5
  <2>7. healthFaults' \in 0..MaxHealthFaults
    BY <1>5
  <2> QED BY <2>2, <2>3, <2>4, <2>5, <2>6, <2>7, <2>8, WorkerMoves
<1>9. CASE /\ HealthFault /\ UNCHANGED <<file, pollerLease, probe>>
           /\ health[r].chain = <<>> /\ Alive(r)
           /\ health' = [health EXCEPT ![r].at = "stopped", ![r].spoiled = TRUE]
  <2> DEFINE h == [health[r] EXCEPT !.at = "stopped", !.spoiled = TRUE]
  <2>1. health' = [health EXCEPT ![r] = h]
    BY <1>1, <1>9 DEF HealthRecord
  <2>2. /\ h \in HealthRecord /\ h.at = "stopped" /\ h.chain = <<>> /\ h.spoiled
        /\ h.published = health[r].published
    BY <1>1, <1>9 DEF HealthRecord
  <2> HIDE DEF h
  <2>3. file'.of = r => h.published
    BY <1>1, <1>9, <2>2 DEF WorkerInv
  <2> QED BY <1>1, <1>2, <1>9, <2>1, <2>2, <2>3, WorkerMoves
<1>6. CASE UnlinkFile(r)
  <2>1. /\ health[r].at = "unlink" /\ health[r].chain = <<>> /\ Alive(r)
        /\ UNCHANGED <<pollerLease, probe>>
    BY <1>1, <1>6 DEF UnlinkFile, WorkerInv, Quiet, Alive
  <2>2. CASE file' = NoFile /\ StepsTo(r, "stopped") /\ UNCHANGED healthFaults
    <3>1. file'.of # r
      BY <2>2, HealthAssumption DEF NoFile
    <3>2. "stopped" \in {"serving", "settle", "mark", "unlink", "stopped", "gone", "dead"}
      OBVIOUS
    <3> QED BY <1>1, <1>5, <2>1, <2>2, <3>1, <3>2 DEF StepsTo
  <2> QED BY <1>6, <1>9, <2>1, <2>2 DEF UnlinkFile
<1>7. CASE StartHealth(r) \/ Heartbeat(r) \/ PublishStopping(r)
  <2>1. CASE StartHealth(r)
    BY <1>4, <2>1 DEF StartHealth
  <2>2. CASE Heartbeat(r)
    <3>1. health' = [health EXCEPT ![r].at = "serving", ![r].chain = <<"ready">>]
      BY <1>1, <2>2 DEF Heartbeat, HealthRecord
    <3> QED BY <1>1, <1>4, <2>2, <3>1 DEF Heartbeat
  <2>3. CASE PublishStopping(r)
    BY <1>1, <1>4, <2>3 DEF PublishStopping
  <2> QED BY <1>7, <2>1, <2>2, <2>3
<1>8. CASE BeginHeartbeat(r) \/ StopHealth(r) \/ SettlePublishing(r) \/ CheckOwnership(r)
           \/ RuntimeDies(r)
  <2>1. CASE BeginHeartbeat(r)
    BY <1>1, <1>5, <2>1 DEF BeginHeartbeat, StepsTo, Alive, Quiet
  <2>2. CASE StopHealth(r)
    BY <1>1, <1>5, <2>2 DEF StopHealth, StepsTo, Alive, Quiet
  <2>6. ASSUME NEW next \in {"mark", "unlink"}, IfOwned(r, next), Alive(r),
               health[r].chain = <<>>, UNCHANGED <<file, pollerLease, probe>>
        PROVE  HealthInv'
    <3>1. CASE Owns(r) /\ StepsTo(r, next) /\ UNCHANGED healthFaults
      BY <1>1, <1>5, <2>6, <3>1 DEF StepsTo
    <3>2. CASE ~Owns(r) /\ StepsTo(r, "stopped") /\ UNCHANGED healthFaults
      BY <1>1, <1>5, <2>6, <3>2 DEF StepsTo, Owns
    <3> QED BY <1>9, <2>6, <3>1, <3>2 DEF IfOwned
  <2>3. CASE SettlePublishing(r)
    <3>1. CASE health[r].published
      BY <2>3, <2>6, <3>1 DEF SettlePublishing, Alive
    <3>2. CASE ~health[r].published
      <4>1. file.of # r
        BY <1>1, <3>2 DEF WorkerInv
      <4> QED BY <1>1, <1>5, <2>3, <3>2, <4>1 DEF SettlePublishing, StepsTo, Alive
    <3> QED BY <3>1, <3>2
  <2>4. CASE CheckOwnership(r)
    BY <2>4, <2>6 DEF CheckOwnership, Alive
  <2>5. CASE RuntimeDies(r)
    <3>1. CASE health[r].at = "stopped" /\ StepsTo(r, "gone") /\ UNCHANGED healthFaults
      BY <1>1, <1>5, <2>5, <3>1 DEF RuntimeDies, StepsTo, WorkerInv, Quiet
    <3>2. CASE health[r].at # "stopped" /\ StepsTo(r, "dead") /\ HealthFault
      BY <1>1, <1>2, <1>5, <2>5, <3>2 DEF RuntimeDies, StepsTo, Quiet
    <3> QED BY <2>5, <3>1, <3>2 DEF RuntimeDies
  <2> QED BY <1>8, <2>1, <2>2, <2>3, <2>4, <2>5
<1> QED BY <1>3, <1>6, <1>7, <1>8 DEF WorkerStep

(* A probe asks about the runtime that published the file.                  *)
LEMMA ProbeKeeps ==
  ASSUME HealthInv, ReadReadiness \/ IsProcessAlive \/ ReadPipelineLease
  PROVE  HealthInv'
<1>1. UNCHANGED <<file, pollerLease, health, healthFaults>> /\ probe \in ProbeRecord
  BY DEF HealthInv, ReadReadiness, IsProcessAlive, ReadPipelineLease
<1>2. probe' \in ProbeRecord /\ ProbeInv'
  <2>1. CASE ReadReadiness
    <3>1. file.of \in Runtimes \cup {Nobody} /\ (file.state = "ready" => file.of \in Runtimes)
      BY DEF HealthInv, NoFile
    <3>2. probe' \in ProbeRecord
      BY <2>1, <3>1 DEF ReadReadiness, ProbeRecord
    <3>3. file.state = "ready" => health[file.of].at # "down"
      BY <3>1 DEF HealthInv, WorkerInv
    <3>4. /\ probe'.at \in {"read", "unhealthy"} /\ probe'.of = file.of
          /\ probe'.at = "read" => file.state = "ready"
          /\ probe'.gone = {r \in Runtimes : ~Alive(r)}
      BY <2>1 DEF ReadReadiness
    <3> QED BY <1>1, <3>1, <3>2, <3>3, <3>4 DEF ProbeInv, Alive
  <2>2. CASE IsProcessAlive
    BY <1>1, <2>2 DEF IsProcessAlive, Judge, HealthInv, ProbeInv, ProbeRecord, Alive
  <2>3. CASE ReadPipelineLease
    BY <1>1, <2>3 DEF ReadPipelineLease, Judge, HealthInv, ProbeInv, ProbeRecord, Alive
  <2> QED BY <2>1, <2>2, <2>3
<1> QED BY <1>1, <1>2 DEF HealthInv, WorkerInv

(* Every step of a runtime, a lease or a probe keeps the invariant.         *)
LEMMA HealthStep == HealthInv /\ [HealthNext]_healthVars => HealthInv'
<1> SUFFICES ASSUME HealthInv, [HealthNext]_healthVars PROVE HealthInv'
  OBVIOUS
<1>1. CASE PollerLeaseEnds
  BY <1>1 DEF PollerLeaseEnds, HealthInv, WorkerInv, ProbeInv, Alive
<1>2. CASE UNCHANGED healthVars
  BY <1>2 DEF healthVars, HealthInv, WorkerInv, ProbeInv, Alive
<1> QED BY <1>1, <1>2, RuntimeKeeps, ProbeKeeps DEF HealthNext

(* The invariant holds at the start.                                        *)
LEMMA HealthStart == HealthInit => HealthInv
<1> SUFFICES ASSUME HealthInit PROVE HealthInv
  OBVIOUS
<1>1. health \in [Runtimes -> HealthRecord] /\ probe \in ProbeRecord
  BY DEF HealthInit, HealthRecord, ProbeRecord
<1>2. healthFaults \in 0..MaxHealthFaults
  BY HealthAssumption DEF HealthInit
<1>3. file.of = Nobody
  BY DEF HealthInit, NoFile
<1> QED BY <1>1, <1>2, <1>3, HealthAssumption DEF HealthInit, HealthInv, WorkerInv, ProbeInv

(* A readiness file is that of a runtime that published it, in every        *)
(* reachable state.                                                         *)
THEOREM HealthInvariant == HealthSpec => []HealthInv
BY HealthStart, HealthStep, PTL DEF HealthSpec

(* The invariant gives the types.                                           *)
LEMMA HealthIsTyped == HealthInv => HealthTypeOK
BY DEF HealthInv, HealthTypeOK, HealthRecord, ProbeRecord

(* The invariant gives what readiness promises.                             *)
LEMMA HealthMeans == HealthInv => StoppedLeavesNothing /\ GoneIsNotHealthy
BY DEF HealthInv, WorkerInv, ProbeInv, StoppedLeavesNothing, GoneIsNotHealthy

(* A runtime that stopped undisturbed leaves no readiness behind, and a     *)
(* probe that calls a runtime healthy did not find it gone (src/runtime/).  *)
THEOREM ReadinessIsTrue == HealthSpec => [](StoppedLeavesNothing /\ GoneIsNotHealthy)
BY HealthMeans, HealthInvariant, PTL

-----------------------------------------------------------------------------
(* The coordinator of the runtime *)

(* A stop reaches the workers attempted by then, and none is attempted      *)
(* after it; whoever runs on past a drain had its stop fail.                *)
Held(w) == up[w] = "running" => stopping[w] = "failed"

CoordInv ==
  /\ CoordTypeOK /\ EveryStartIsStopped
  /\ \A w \in Worker :
       /\ up[w] # "none" => w \in Attempted
       /\ stopping[w] = "done" => up[w] # "running"
       /\ stopping[w] # "none" => Aborted
  /\ signals = "none" \/ Aborted
  /\ drained # "no" => Aborted
  /\ drained = "drained" => \A w \in Worker : Held(w)

(* The workers are named once each.                                         *)
LEMMA WorkerFacts ==
  /\ Len(Workers) \in Nat
  /\ \A i \in 1..Len(Workers) : Workers[i] \in Worker
BY WorkersAssumption DEF Worker, ToSet

(* requestStop, whoever asks.                                               *)
LEMMA RequestStopFacts ==
  ASSUME CoordInv, RequestStop, UNCHANGED attempted
  PROVE  /\ lifecycle' \in {"stopping", "stopped", "exited"}
         /\ Aborted => lifecycle' = lifecycle /\ stopping' = stopping
         /\ stopping' \in [Worker -> {"none", "pending", "done", "failed"}]
         /\ EveryStartIsStopped'
         /\ \A w \in Worker : stopping'[w] = "done" => stopping[w] = "done"
         /\ Aborted'
<1>1. Attempted' = Attempted
  BY DEF Attempted
<1>2. CASE Aborted
  BY <1>1, <1>2 DEF RequestStop, CoordInv, CoordTypeOK, EveryStartIsStopped, Aborted
<1>3. CASE ~Aborted
  <2>1. /\ lifecycle' = "stopping"
        /\ stopping' = [w \in Worker |-> IF w \in Attempted THEN "pending" ELSE "none"]
    BY <1>3 DEF RequestStop
  <2>2. \A w \in Attempted : w \in Worker
    BY WorkerFacts DEF Attempted, CoordInv, CoordTypeOK
  <2> QED BY <1>1, <1>3, <2>1, <2>2 DEF EveryStartIsStopped, Aborted
<1> QED BY <1>2, <1>3

(* The next worker is attempted while no stop was asked for.                *)
LEMMA StartWorkerKeeps == CoordInv /\ StartWorker => CoordInv'
<1> SUFFICES ASSUME CoordInv, StartWorker PROVE CoordInv'
  OBVIOUS
<1>1. attempted \in 0..Len(Workers) /\ Len(Workers) \in Nat
  BY WorkerFacts DEF CoordInv, CoordTypeOK
<1>2. CASE Aborted \/ attempted = Len(Workers)
  BY <1>2 DEF StartWorker, CoordInv, CoordTypeOK, EveryStartIsStopped, Attempted,
     Aborted, Held
<1>3. CASE ~Aborted /\ attempted # Len(Workers)
  <2>1. /\ attempted' = attempted + 1 /\ attempted + 1 \in 1..Len(Workers)
        /\ up' = [up EXCEPT ![Workers[attempted + 1]] = "starting"]
        /\ UNCHANGED <<starting, lifecycle, stopping, drained, closing, expired, signals>>
    BY <1>1, <1>3 DEF StartWorker
  <2>2. Workers[attempted + 1] \in Worker
    BY <2>1, WorkerFacts
  <2>3. Attempted' = Attempted \cup {Workers[attempted + 1]}
    <3>1. 1..attempted' = 1..attempted \cup {attempted + 1}
      BY <1>1, <2>1
    <3> QED BY <3>1 DEF Attempted
  <2>4. CoordTypeOK'
    BY <1>1, <2>1, <2>2 DEF CoordInv, CoordTypeOK
  <2> QED BY <1>3, <2>1, <2>2, <2>3, <2>4
          DEF CoordInv, CoordTypeOK, EveryStartIsStopped, Aborted, Held
<1> QED BY <1>2, <1>3

(* A worker fails, or someone asks for a stop.                              *)
LEMMA StopRequestKeeps ==
  ASSUME CoordInv, RequestStop, UNCHANGED <<attempted, drained, closing, expired>>,
         starting' \in {starting, "failed"}, starting = "none" => starting' = "none",
         signals' \in {"none", "first", "second"},
         up' = up \/ \E w \in Worker : up[w] # "none" /\ up' = [up EXCEPT ![w] = "failed"]
  PROVE  CoordInv'
<1>1. Attempted' = Attempted
  BY DEF Attempted
<1>2. up' \in [Worker -> {"none", "starting", "running", "ended", "failed"}]
  BY DEF CoordInv, CoordTypeOK
<1>3. \A w \in Worker : /\ up'[w] # "none" => up[w] # "none"
                        /\ up'[w] = "running" => up[w] = "running"
  BY DEF CoordInv, CoordTypeOK
<1>4. CoordTypeOK'
  BY <1>2, RequestStopFacts DEF CoordInv, CoordTypeOK
<1> QED BY <1>1, <1>3, <1>4, RequestStopFacts DEF CoordInv, Held

(* A worker starts, fails or stops.                                         *)
LEMMA WorkerSteps ==
  ASSUME CoordInv, NEW w \in Worker,
         \/ WorkerStarts(w) \/ WorkerFailsToStart(w) \/ ReportFatal(w) \/ WorkerStops(w)
  PROVE  CoordInv'
<1>1. CASE WorkerStarts(w)
  BY <1>1 DEF WorkerStarts, CoordInv, CoordTypeOK, EveryStartIsStopped, Attempted,
     Aborted, Held
<1>2. CASE WorkerFailsToStart(w)
  BY <1>2, StopRequestKeeps DEF WorkerFailsToStart, CoordInv, CoordTypeOK
<1>3. CASE ReportFatal(w)
  BY <1>3, StopRequestKeeps DEF ReportFatal, CoordInv, CoordTypeOK
<1>4. CASE WorkerStops(w)
  <2>1. /\ UNCHANGED <<lifecycle, starting, attempted, drained, closing, expired, signals>>
        /\ stopping[w] = "pending"
        /\ \/ /\ stopping' = [stopping EXCEPT ![w] = "done"]
              /\ up' = [up EXCEPT ![w] = IF @ = "running" THEN "ended" ELSE @]
           \/ stopping' = [stopping EXCEPT ![w] = "failed"] /\ up' = up
    BY <1>4 DEF WorkerStops
  <2>2. Attempted' = Attempted /\ Aborted' = Aborted
    BY <2>1 DEF Attempted, Aborted
  <2>3. CoordTypeOK'
    BY <2>1 DEF CoordInv, CoordTypeOK
  <2>4. \A v \in Worker :
          /\ up'[v] # "none" => up[v] # "none"
          /\ up'[v] = "running" => up[v] = "running"
          /\ stopping'[v] # "none" <=> stopping[v] # "none"
          /\ stopping'[v] = "done" => stopping[v] = "done" \/ up'[v] # "running"
          /\ stopping[v] = "failed" => stopping'[v] = "failed"
    BY <2>1 DEF CoordInv, CoordTypeOK
  <2>5. Aborted
    BY <2>1 DEF CoordInv
  <2>6. \A v \in Attempted : v \in Worker
    BY WorkerFacts DEF Attempted, CoordInv, CoordTypeOK
  <2> QED BY <2>1, <2>2, <2>3, <2>4, <2>5, <2>6 DEF CoordInv, EveryStartIsStopped, Held
<1> QED BY <1>1, <1>2, <1>3, <1>4

(* Every step of the coordinator and its workers keeps the invariant.       *)
LEMMA CoordStep == CoordInv /\ [CoordNext]_coordVars => CoordInv'
<1> SUFFICES ASSUME CoordInv, [CoordNext]_coordVars PROVE CoordInv'
  OBVIOUS
<1>1. CASE Start
  BY <1>1 DEF Start, CoordInv, CoordTypeOK, EveryStartIsStopped, Attempted, Aborted, Held
<1>2. CASE CoordinatorClose
  BY <1>2, StopRequestKeeps DEF CoordinatorClose, CoordInv, CoordTypeOK
<1>3. CASE Signal
  <2>1. CASE signals = "none"
    BY <1>3, <2>1, StopRequestKeeps DEF Signal, CoordInv, CoordTypeOK
  <2>2. CASE signals # "none"
    <3>1. /\ signals' = "second" /\ lifecycle' = "exited" /\ Aborted
          /\ UNCHANGED <<stopping, starting, attempted, up, drained, closing, expired>>
      BY <1>3, <2>2 DEF Signal, CoordInv
    <3> QED BY <3>1 DEF CoordInv, CoordTypeOK, EveryStartIsStopped, Attempted, Aborted, Held
  <2> QED BY <2>1, <2>2
<1>4. CASE GraceEnds \/ ApplicationCloses
  BY <1>4 DEF GraceEnds, ApplicationCloses, CoordInv, CoordTypeOK, EveryStartIsStopped,
     Attempted, Aborted, Held
<1>5. CASE StopAllEnds
  BY <1>5 DEF StopAllEnds, CoordInv, CoordTypeOK, EveryStartIsStopped, Attempted,
     Aborted, Held
<1>6. CASE CloseApplication
  <2>1. /\ lifecycle = "stopping" /\ drained' \in {"drained", "timeout"}
        /\ drained' = "drained" => Settled /\ closing' = "pending"
        /\ closing' = "pending"
        /\ UNCHANGED <<lifecycle, starting, attempted, up, stopping, expired, signals>>
    BY <1>6 DEF CloseApplication
  <2>2. ASSUME Settled, NEW w \in Worker PROVE Held(w)
    BY <2>1, <2>2 DEF Settled, Held, CoordInv, CoordTypeOK, EveryStartIsStopped
  <2>3. CoordTypeOK'
    BY <2>1 DEF CoordInv, CoordTypeOK
  <2> QED BY <2>1, <2>2, <2>3 DEF CoordInv, EveryStartIsStopped, Attempted, Aborted, Held
<1>7. CASE UNCHANGED coordVars
  BY <1>7 DEF coordVars, CoordInv, CoordTypeOK, EveryStartIsStopped, Attempted,
     Aborted, Held
<1> QED BY <1>1, <1>2, <1>3, <1>4, <1>5, <1>6, <1>7, StartWorkerKeeps, WorkerSteps
        DEF CoordNext

(* The invariant holds at the start.                                        *)
LEMMA CoordStart == CoordInit => CoordInv
<1> SUFFICES ASSUME CoordInit PROVE CoordInv
  OBVIOUS
<1>1. 0 \in 0..Len(Workers)
  BY WorkerFacts
<1>2. CoordTypeOK
  BY <1>1 DEF CoordInit, CoordTypeOK
<1> QED BY <1>2 DEF CoordInit, CoordInv, EveryStartIsStopped

(* No worker is attempted after a stop was asked for, and whoever runs past *)
(* a drain had its stop fail, in every reachable state.                     *)
THEOREM CoordInvariant == CoordSpec => []CoordInv
BY CoordStart, CoordStep, PTL DEF CoordSpec

(* The invariant gives what the coordinator promises.                       *)
LEMMA CoordMeans == CoordInv => PoolOutlivesWorkers /\ EveryStartIsStopped
BY DEF CoordInv, PoolOutlivesWorkers, Held

(* The pool is closed over no worker that still runs and whose stop did not *)
(* fail, and every worker that was started is stopped.                      *)
THEOREM CoordinatorStopsWell ==
  CoordSpec => [](PoolOutlivesWorkers /\ EveryStartIsStopped)
BY CoordMeans, CoordInvariant, PTL

-----------------------------------------------------------------------------
(* The excluded topics of a batch *)

(* The place of a candidate among those of S counts up with them.           *)
LEMMA Places ==
  ASSUME NEW S \in SUBSET Batch
  PROVE  /\ IsFiniteSet(S) /\ Cardinality(S) \in 0..BatchSize
         /\ \A i \in S : Place(S, i) \in 1..Cardinality(S)
         /\ \A i, k \in S : i < k => Place(S, i) < Place(S, k)
<1>1. IsFiniteSet(Batch) /\ Cardinality(Batch) = BatchSize
  BY TopicPolicyAssumption, FS_Interval DEF Batch
<1>2. IsFiniteSet(S) /\ Cardinality(S) \in 0..BatchSize
  BY <1>1, FS_Subset, FS_CardinalityType
<1>6. S \subseteq Nat
  BY TopicPolicyAssumption DEF Batch
<1> DEFINE Upto(i) == {j \in S : j <= i}
<1>3. \A i : IsFiniteSet(Upto(i)) /\ Cardinality(Upto(i)) \in 0..Cardinality(S)
  BY <1>2, FS_Subset, FS_CardinalityType
<1>4. ASSUME NEW i \in S PROVE Place(S, i) \in 1..Cardinality(S)
  <2>1. i \in Upto(i)
    BY DEF Batch
  <2>2. Cardinality(Upto(i)) # 0
    BY <1>3, <2>1, FS_EmptySet
  <2> QED BY <1>3, <2>2 DEF Place
<1>5. ASSUME NEW i \in S, NEW k \in S, i < k PROVE Place(S, i) < Place(S, k)
  <2>1. Upto(i) \subseteq Upto(k) /\ k \in Upto(k) /\ k \notin Upto(i)
    <3>1. i \in Nat /\ k \in Nat /\ \A j \in S : j \in Nat
      BY <1>6
    <3>2. \A j \in S : j <= i => j <= k
      BY <1>5, <3>1
    <3>3. k <= k /\ ~ (k <= i)
      BY <1>5, <3>1
    <3> QED BY <3>2, <3>3
  <2>2. Cardinality(Upto(i)) <= Cardinality(Upto(k)) /\ Cardinality(Upto(i)) # Cardinality(Upto(k))
    BY <1>3, <2>1, FS_Subset
  <2> QED BY <1>3, <2>2 DEF Place
<1> QED BY <1>2, <1>4, <1>5

(* Every place up to the last is taken.                                     *)
LEMMA PlacesAreTaken ==
  ASSUME NEW S \in SUBSET Batch, NEW n \in 1..Cardinality(S)
  PROVE  \E i \in S : Place(S, i) = n
<1> DEFINE Open == {m \in 1..Cardinality(S) : \A i \in S : Place(S, i) # m}
<1>1. S \subseteq Nat
  BY TopicPolicyAssumption DEF Batch
<1> SUFFICES ASSUME Open # {} PROVE FALSE
  OBVIOUS
<1>2. PICK m \in Open : \A k \in Open : m <= k
  <2>1. Open \subseteq Nat
    BY Places
  <2> HIDE DEF Open
  <2> QED BY <2>1, LeastNumber
<1>3. S # {}
  BY Places, FS_EmptySet
<1>4. CASE m = 1
  <2>1. PICK i \in S : \A j \in S : i <= j
    BY <1>1, <1>3, LeastNumber
  <2>2. {j \in S : j <= i} = {i}
    <3>1. \A j \in S : j \in Nat /\ i \in Nat
      BY <1>1
    <3>2. \A j \in S : j <= i <=> j = i
      BY <2>1, <3>1
    <3> QED BY <3>2
  <2>3. Place(S, i) = 1
    BY <2>2, FS_Singleton DEF Place
  <2> QED BY <1>4, <2>3
<1>5. CASE m # 1
  <2>1. m - 1 \in 1..Cardinality(S) /\ m - 1 \notin Open /\ m \in 1..Cardinality(S)
    BY <1>2, <1>5, Places
  <2>2. PICK i \in S : Place(S, i) = m - 1
    BY <2>1
  <2> DEFINE Upto == {j \in S : j <= i}
             Later == {j \in S : i < j}
  <2>3. Later # {}
    <3> SUFFICES ASSUME Later = {} PROVE FALSE
      OBVIOUS
    <3>1. Upto = S
      <4>1. \A j \in S : j \in Nat /\ i \in Nat
        BY <1>1
      <4>2. \A j \in S : j <= i
        BY <4>1
      <4> QED BY <4>2
    <3>2. Cardinality(S) = m - 1
      BY <2>2, <3>1 DEF Place
    <3> QED BY <2>1, <3>2, Places
  <2>4. PICK k \in Later : \A j \in Later : k <= j
    <3>1. Later \subseteq Nat
      BY <1>1
    <3> HIDE DEF Later
    <3> QED BY <2>3, <3>1, LeastNumber
  <2>5. {j \in S : j <= k} = Upto \cup {k} /\ k \notin Upto
    <3>1. \A j \in S : j \in Nat /\ i \in Nat /\ k \in Nat
      BY <1>1
    <3>2. i < k /\ k \in S /\ \A j \in S : i < j => k <= j
      BY <2>4
    <3>3. \A j \in S : j <= k <=> (j <= i \/ j = k)
      BY <3>1, <3>2
    <3>4. ~ (k <= i)
      BY <3>1, <3>2
    <3> QED BY <3>2, <3>3, <3>4
  <2>6. IsFiniteSet(Upto)
    BY Places, FS_Subset
  <2>7. Place(S, k) = m
    <3>1. Cardinality(Upto \cup {k}) = Cardinality(Upto) + 1
      BY <2>5, <2>6, FS_AddElement
    <3>2. Cardinality(Upto) = m - 1
      BY <2>2 DEF Place
    <3>3. Place(S, k) = Cardinality(Upto \cup {k})
      BY <2>5 DEF Place
    <3>4. m \in Nat
      BY <2>1
    <3> HIDE DEF Upto
    <3> QED BY <3>1, <3>2, <3>3, <3>4
  <2> QED BY <2>7
<1> QED BY <1>4, <1>5

(* InOrder lists the candidates of a set, each once and as they came in.    *)
LEMMA ListedInOrder ==
  ASSUME NEW S \in SUBSET Batch
  PROVE  /\ InOrder(S) \in Seq(S) /\ Len(InOrder(S)) = Cardinality(S)
         /\ DOMAIN InOrder(S) = 1..Cardinality(S)
         /\ \A i : i \in S <=> \E n \in DOMAIN InOrder(S) : InOrder(S)[n] = i
         /\ \A n, k \in DOMAIN InOrder(S) : n < k => InOrder(S)[n] < InOrder(S)[k]
<1>1. Cardinality(S) \in Nat /\ S \subseteq Nat
  BY Places, TopicPolicyAssumption DEF Batch
<1>2. ASSUME NEW n \in 1..Cardinality(S)
      PROVE  InOrder(S)[n] \in S /\ Place(S, InOrder(S)[n]) = n
  BY PlacesAreTaken DEF InOrder
<1>3. /\ InOrder(S) \in [1..Cardinality(S) -> S] /\ DOMAIN InOrder(S) = 1..Cardinality(S)
  BY <1>2 DEF InOrder
<1>4. InOrder(S) \in Seq(S) /\ Len(InOrder(S)) = Cardinality(S)
  BY <1>1, <1>3
<1>5. ASSUME NEW i \in S PROVE \E n \in 1..Cardinality(S) : InOrder(S)[n] = i
  <2>1. Place(S, i) \in 1..Cardinality(S)
    BY Places
  <2>2. InOrder(S)[Place(S, i)] \in S /\ Place(S, InOrder(S)[Place(S, i)]) = Place(S, i)
    BY <1>2, <2>1
  <2>3. InOrder(S)[Place(S, i)] = i
    <3> DEFINE k == InOrder(S)[Place(S, i)]
    <3> HIDE DEF k
    <3>1. k \in S /\ Place(S, k) = Place(S, i)
      BY <2>2 DEF k
    <3>5. Place(S, i) \in Nat
      BY <1>1, <2>1
    <3>2. ~ (i < k) /\ ~ (k < i)
      BY <3>5, <3>1, Places
    <3>3. k \in Nat /\ i \in Nat
      BY <1>1, <3>1
    <3>4. k = i
      BY <3>2, <3>3
    <3> QED BY <3>4 DEF k
  <2> QED BY <2>1, <2>3
<1>6. ASSUME NEW n \in 1..Cardinality(S), NEW k \in 1..Cardinality(S), n < k
      PROVE  InOrder(S)[n] < InOrder(S)[k]
  <2> DEFINE a == InOrder(S)[n]
             b == InOrder(S)[k]
  <2>1. a \in S /\ b \in S /\ Place(S, a) = n /\ Place(S, b) = k
    BY <1>2
  <2> HIDE DEF a, b
  <2>2. ~ (b < a) /\ a # b
    BY <1>6, <2>1, Places
  <2>3. a < b
    BY <1>1, <2>1, <2>2
  <2> QED BY <2>3 DEF a, b
<1> QED BY <1>2, <1>3, <1>4, <1>5, <1>6

-----------------------------------------------------------------------------
(* The pool: what was taken is in flight or has returned, once each; the    *)
(* result is made when all of it has returned, and stays.                   *)
Busy == {w \in Slots : inFlight[w] # 0}
Eligible == {i \in Batch \ explicit : ~Blocking(reply[i])}
Stopped == {i \in Batch : i \in explicit \/ Blocking(reply[i])}

TopicInv ==
  /\ TopicTypeOK
  /\ Len(finished) + Cardinality(Busy) = nextIndex
  /\ nextIndex <= Cardinality(Batch \ explicit)
  /\ result \in {NoResult, Decided}
  /\ result.done => nextIndex = Cardinality(Batch \ explicit) /\ Busy = {}
  /\ \A i \in Batch : vetoReply[i] # NoReply => result.done /\ i \in Eligible

(* The workers of the pool that classify are finitely many.                 *)
LEMMA BusySlots == IsFiniteSet(Busy) /\ Cardinality(Busy) \in Nat
BY TopicPolicyAssumption, FS_Subset, FS_CardinalityType DEF Busy

(* The fields of a result that is not there, and of the one that is made.   *)
LEMMA Results ==
  /\ NoResult.done = FALSE /\ NoResult.eligible = <<>> /\ NoResult.blocked = <<>>
  /\ Decided.done = TRUE /\ Decided.eligible = InOrder(Eligible)
  /\ Decided.blocked = InOrder(Stopped)
BY DEF NoResult, Decided, Eligible, Stopped

(* The invariant holds at the start.                                        *)
LEMMA TopicStart == TopicInit => TopicInv
<1> SUFFICES ASSUME TopicInit PROVE TopicInv
  OBVIOUS
<1>1. Busy = {}
  BY DEF TopicInit, Busy
<1>2. Cardinality(Busy) = 0
  BY <1>1, FS_EmptySet
<1>3. Len(finished) = 0 /\ nextIndex = 0
  BY DEF TopicInit
<1>4. Cardinality(Batch \ explicit) \in Nat
  BY Places
<1>5. TopicTypeOK
  <2>1. explicit \subseteq Batch /\ nextIndex \in 0..BatchSize /\ Len(finished) <= BatchSize
    BY TopicPolicyAssumption, <1>3 DEF TopicInit
  <2>2. inFlight \in [Slots -> 0..BatchSize]
    BY TopicPolicyAssumption DEF TopicInit
  <2>3. finished \in Seq(Batch)
    BY DEF TopicInit
  <2>4. result.done \in BOOLEAN /\ {result.eligible, result.blocked} \subseteq Seq(Batch)
    <3>1. result = NoResult /\ <<>> \in Seq(Batch)
      BY DEF TopicInit
    <3>2. result.done = FALSE /\ result.eligible = <<>> /\ result.blocked = <<>>
      BY <3>1, Results
    <3> QED BY <3>1, <3>2
  <2>5. {reply, vetoReply} \subseteq [Batch -> Replies \cup {NoReply}]
    BY DEF TopicInit
  <2> QED BY <2>1, <2>2, <2>3, <2>4, <2>5 DEF TopicTypeOK
<1>6. \A i \in Batch : vetoReply[i] = NoReply
  BY DEF TopicInit
<1>7. result = NoResult
  BY DEF TopicInit
<1> QED BY <1>2, <1>3, <1>4, <1>5, <1>6, <1>7, Results DEF TopicInv

(* Every step of the pool, the second pass and every veto keeps the         *)
(* invariant.                                                               *)
LEMMA TopicStep == ASSUME TopicInv, [TopicNext]_topicVars PROVE TopicInv'
<1> DEFINE Rest == Batch \ explicit
<1>1. /\ TopicTypeOK /\ Rest \in SUBSET Batch /\ Cardinality(Rest) \in 0..BatchSize
      /\ Len(finished) \in Nat
  BY Places DEF TopicInv, TopicTypeOK
<1>2. /\ NeedsClassification \in Seq(Rest) /\ Len(NeedsClassification) = Cardinality(Rest)
  BY <1>1, ListedInOrder DEF NeedsClassification
<1>3. CASE UNCHANGED topicVars
  <2>1. UNCHANGED <<explicit, nextIndex, inFlight, reply, finished, result, vetoReply>>
    BY <1>3 DEF topicVars
  <2>2. Decided' = Decided /\ Busy' = Busy /\ Eligible' = Eligible /\ TopicTypeOK'
    BY <1>1, <2>1 DEF Decided, Busy, Eligible, InOrder, Place, Blocking, Assessment, TopicTypeOK
  <2> QED BY <2>1, <2>2 DEF TopicInv
<1>4. ASSUME NEW w \in Slots, TakeNext(w) PROVE TopicInv'
  <2>1. NeedsClassification[nextIndex + 1] \in Batch
    BY <1>1, <1>2, <1>4 DEF TakeNext, TopicTypeOK
  <2>2. /\ nextIndex' = nextIndex + 1 /\ nextIndex' <= Cardinality(Rest)
        /\ UNCHANGED <<explicit, reply, finished, result, vetoReply>> /\ inFlight[w] = 0
        /\ inFlight' = [inFlight EXCEPT ![w] = NeedsClassification[nextIndex + 1]]
    BY <1>1, <1>2, <1>4 DEF TakeNext, TopicTypeOK
  <2>3. Busy' = Busy \cup {w} /\ w \notin Busy
    BY <1>1, <2>1, <2>2, TopicPolicyAssumption DEF Busy, TopicTypeOK, Batch
  <2>4. Cardinality(Busy') = Cardinality(Busy) + 1
    BY <2>3, BusySlots, FS_AddElement
  <2>5. result = NoResult /\ ~result.done
    BY <2>2, <1>1, Results DEF TopicInv, TopicTypeOK
  <2>6. TopicTypeOK'
    <3>1. NeedsClassification[nextIndex + 1] \in 0..BatchSize
      BY <2>1, TopicPolicyAssumption DEF Batch
    <3>2. nextIndex' \in 0..BatchSize
      <4>1. nextIndex \in Nat /\ Cardinality(Rest) \in 0..BatchSize
        BY <1>1, TopicPolicyAssumption DEF TopicTypeOK
      <4> QED BY <2>2, <4>1, TopicPolicyAssumption
    <3>3. inFlight' \in [Slots -> 0..BatchSize]
      BY <1>1, <2>2, <3>1 DEF TopicTypeOK
    <3> QED BY <1>1, <2>2, <3>2, <3>3 DEF TopicTypeOK
  <2>7. Len(finished') + Cardinality(Busy') = nextIndex'
    <3>1. nextIndex = Len(finished) + Cardinality(Busy)
      BY DEF TopicInv
    <3>2. Len(finished') = Len(finished)
      BY <2>2
    <3> QED BY <1>1, <2>2, <2>4, <3>1, <3>2, BusySlots
  <2>8. \A i \in Batch : vetoReply'[i] = NoReply
    BY <2>2, <2>5 DEF TopicInv
  <2> QED BY <1>1, <2>2, <2>5, <2>6, <2>7, <2>8 DEF TopicInv
<1>5. ASSUME NEW w \in Slots, Classified(w) PROVE TopicInv'
  <2>1. PICK r \in Replies : reply' = [reply EXCEPT ![inFlight[w]] = r]
    BY <1>5 DEF Classified
  <2>2. /\ inFlight[w] \in Batch /\ finished' = Append(finished, inFlight[w])
        /\ inFlight' = [inFlight EXCEPT ![w] = 0]
        /\ UNCHANGED <<explicit, nextIndex, result, vetoReply>>
    BY <1>1, <1>5 DEF Classified, TopicTypeOK, Batch
  <2>3. Busy' = Busy \ {w} /\ w \in Busy
    BY <1>1, <1>5, <2>2 DEF Busy, TopicTypeOK, Classified
  <2>4. Cardinality(Busy') = Cardinality(Busy) - 1 /\ Cardinality(Busy) # 0
    BY <2>3, BusySlots, FS_RemoveElement, FS_EmptySet
  <2>5. Len(finished') = Len(finished) + 1 /\ finished' \in Seq(Batch)
    BY <1>1, <2>2 DEF TopicTypeOK
  <2>6. Len(finished') + Cardinality(Busy') = nextIndex'
    BY <1>1, <2>2, <2>4, <2>5, BusySlots DEF TopicInv, TopicTypeOK
  <2>7. result = NoResult /\ ~result.done
    BY <2>3, Results DEF TopicInv
  <2>8. TopicTypeOK'
    <3>1. Len(finished') <= BatchSize
      <4>1. Cardinality(Busy') \in Nat
        BY <2>4, BusySlots
      <4>2. nextIndex' \in 0..BatchSize /\ Len(finished') \in Nat
        BY <1>1, <2>2, <2>5 DEF TopicTypeOK
      <4> QED BY <2>6, <4>1, <4>2, TopicPolicyAssumption
    <3>2. inFlight' \in [Slots -> 0..BatchSize]
      <4>1. 0 \in 0..BatchSize
        BY TopicPolicyAssumption
      <4> QED BY <1>1, <2>2, <4>1 DEF TopicTypeOK
    <3>3. reply' \in [Batch -> Replies \cup {NoReply}]
      BY <1>1, <2>1, <2>2 DEF TopicTypeOK
    <3> QED BY <1>1, <2>2, <2>5, <3>1, <3>2, <3>3 DEF TopicTypeOK
  <2>9. \A i \in Batch : vetoReply'[i] = NoReply
    BY <2>2, <2>7 DEF TopicInv
  <2> QED BY <1>1, <2>2, <2>6, <2>7, <2>8, <2>9 DEF TopicInv
<1>6. CASE Assemble
  <2>1. /\ UNCHANGED <<explicit, nextIndex, inFlight, reply, finished, vetoReply>>
        /\ nextIndex = Cardinality(Rest) /\ Busy = {} /\ result' = Decided
        /\ ~result.done
    BY <1>2, <1>6 DEF Assemble, Busy
  <2>2. Decided' = Decided /\ Busy' = Busy
    BY <2>1 DEF Decided, Busy, InOrder, Place, Blocking, Assessment
  <2>3. Eligible \in SUBSET Batch /\ Stopped \in SUBSET Batch
    BY DEF Eligible, Stopped
  <2>4. {Decided.eligible, Decided.blocked} \subseteq Seq(Batch)
    BY <2>3, Results, ListedInOrder
  <2>5. TopicTypeOK'
    BY <1>1, <2>1, <2>4, Results DEF TopicTypeOK
  <2>6. \A i \in Batch : vetoReply'[i] = NoReply
    BY <2>1 DEF TopicInv
  <2> QED BY <2>1, <2>2, <2>5, <2>6 DEF TopicInv
<1>7. ASSUME NEW i \in Batch, Veto(i) PROVE TopicInv'
  <2>1. PICK r \in Replies : vetoReply' = [vetoReply EXCEPT ![i] = r]
    BY <1>7 DEF Veto
  <2>2. UNCHANGED <<explicit, nextIndex, inFlight, reply, finished, result>>
    BY <1>7 DEF Veto
  <2>3. Decided' = Decided /\ Busy' = Busy /\ Eligible' = Eligible
    BY <2>2 DEF Decided, Busy, Eligible, InOrder, Place, Blocking, Assessment
  <2>4. PICK n \in DOMAIN result.eligible : result.eligible[n] = i
    BY <1>7 DEF Veto
  <2>5. result = Decided
    <3>1. DOMAIN <<>> = {}
      OBVIOUS
    <3> QED BY <2>4, <3>1, Results DEF TopicInv
  <2>6. i \in Eligible /\ result.done
    <3>1. Eligible \in SUBSET Batch
      BY DEF Eligible
    <3> QED BY <2>4, <2>5, <3>1, Results, ListedInOrder
  <2>7. TopicTypeOK'
    BY <1>1, <2>1, <2>2 DEF TopicTypeOK
  <2>8. \A k \in Batch : vetoReply'[k] # NoReply => result'.done /\ k \in Eligible'
    BY <1>1, <2>1, <2>2, <2>3, <2>6 DEF TopicInv, TopicTypeOK
  <2> QED BY <2>2, <2>3, <2>7, <2>8 DEF TopicInv
<1> QED BY <1>3, <1>4, <1>5, <1>6, <1>7 DEF TopicNext

(* A reply that does not block says in so many words that the topic is      *)
(* harmless.                                                                *)
LEMMA HarmlessReplies ==
  ASSUME NEW r \in Replies \cup {NoReply}, ~Blocking(r) PROVE r \in Harmless
BY TopicPolicyAssumption DEF Blocking, Assessment, Relations, Replies, Harmless

(* The invariant gives the types and the promises.                          *)
LEMMA TopicMeans == TopicInv => TopicTypeOK /\ BatchIsPartitioned /\ PolicyFailsClosed
<1> SUFFICES ASSUME TopicInv PROVE TopicTypeOK /\ BatchIsPartitioned /\ PolicyFailsClosed
  OBVIOUS
<1>1. TopicTypeOK /\ Eligible \in SUBSET Batch /\ Stopped \in SUBSET Batch
  BY DEF TopicInv, Eligible, Stopped
<1>2. ASSUME result.done PROVE BatchIsPartitioned
  <2>1. result = Decided
    BY <1>2, Results DEF TopicInv
  <2>2. result.eligible = InOrder(Eligible) /\ result.blocked = InOrder(Stopped)
    BY <2>1, Results
  <2>3. Eligible \cap Stopped = {} /\ Eligible \cup Stopped = Batch
    BY <1>1 DEF Eligible, Stopped, TopicTypeOK
  <2>4. Cardinality(Eligible) + Cardinality(Stopped) = BatchSize
    <3>1. Cardinality(Batch) = BatchSize
      BY TopicPolicyAssumption, FS_Interval DEF Batch
    <3>2. IsFiniteSet(Eligible) /\ IsFiniteSet(Stopped)
          /\ Cardinality(Eligible) \in Nat /\ Cardinality(Stopped) \in Nat
      BY <1>1, Places
    <3>3. Cardinality(Eligible \cup Stopped)
            = Cardinality(Eligible) + Cardinality(Stopped) - Cardinality(Eligible \cap Stopped)
      BY <3>2, FS_Union
    <3>4. Cardinality(Eligible \cap Stopped) = 0
      BY <2>3, FS_EmptySet
    <3>5. Cardinality(Eligible \cup Stopped) = BatchSize
      BY <2>3, <3>1
    <3> QED BY <3>2, <3>3, <3>4, <3>5
  <2>5. Len(finished) = Cardinality(Batch \ explicit)
    <3>1. Busy = {} /\ nextIndex = Cardinality(Batch \ explicit)
      BY <1>2 DEF TopicInv
    <3>2. Cardinality(Busy) = 0
      BY <3>1, FS_EmptySet
    <3>3. Len(finished) \in Nat
      BY <1>1 DEF TopicTypeOK
    <3> QED BY <3>1, <3>2, <3>3 DEF TopicInv
  <2>6. \A i \in Batch : (\E n \in DOMAIN result.eligible : result.eligible[n] = i)
                           # (\E n \in DOMAIN result.blocked : result.blocked[n] = i)
    <3>1. \A i : i \in Eligible <=> \E n \in DOMAIN result.eligible : result.eligible[n] = i
      BY <1>1, <2>2, ListedInOrder
    <3>2. \A i : i \in Stopped <=> \E n \in DOMAIN result.blocked : result.blocked[n] = i
      BY <1>1, <2>2, ListedInOrder
    <3> QED BY <2>3, <3>1, <3>2
  <2>7. \A n, k \in DOMAIN result.eligible :
           n < k => result.eligible[n] < result.eligible[k]
    BY <1>1, <2>2, ListedInOrder
  <2>8. Len(result.eligible) + Len(result.blocked) = BatchSize
    BY <1>1, <2>2, <2>4, ListedInOrder
  <2> QED BY <2>5, <2>6, <2>7, <2>8 DEF BatchIsPartitioned
<1>3. \A i \in Eligible : i \in Batch /\ reply[i] \in Harmless
  BY <1>1, HarmlessReplies DEF Eligible, TopicTypeOK
<1>4. \A n \in DOMAIN result.eligible : reply[result.eligible[n]] \in Harmless
  <2>1. DOMAIN <<>> = {}
    OBVIOUS
  <2>2. CASE result = NoResult
    BY <2>1, <2>2, Results
  <2>3. CASE result = Decided
    BY <1>1, <1>3, <2>3, Results, ListedInOrder
  <2> QED BY <2>2, <2>3 DEF TopicInv
<1>5. \A i \in Batch : Allowed(i) => {reply[i], vetoReply[i]} \subseteq Harmless
  BY <1>1, <1>3, HarmlessReplies DEF Allowed, TopicInv, TopicTypeOK
<1> QED BY <1>1, <1>2, <1>4, <1>5 DEF BatchIsPartitioned, PolicyFailsClosed

(* Whichever classification returned first, the batch is partitioned in the *)
(* order it came in, and what is not harmless in so many words is blocked.  *)
THEOREM PolicyHolds == TopicSpec => [](TopicTypeOK /\ BatchIsPartitioned /\ PolicyFailsClosed)
<1>1. TopicInv /\ [TopicNext]_topicVars => TopicInv'
  BY TopicStep
<1> QED BY <1>1, TopicStart, TopicMeans, PTL DEF TopicSpec
=============================================================================
