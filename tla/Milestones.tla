----------------------------- MODULE Milestones ------------------------------
(***************************************************************************)
(* Publication milestones: every so many posts of a channel one message    *)
(* says so.  PublicationMilestonesService.handle and the statements on     *)
(* publication_milestones; the operator's retry and reconciliation.        *)
(*                                                                         *)
(* Senders are the executions of the service, in any process: of the       *)
(* event of a publication, of its replay when the publication is asked for *)
(* again, or of an operator's request.  The claim token of a handler is    *)
(* itself.  The Telegram adapter reports every failure as uncertain.       *)
(***************************************************************************)
EXTENDS Naturals, FiniteSets, Sequences, SequencesExt

CONSTANTS
  Posts, Senders, Unclaimed,
  Every,                \* posts from one milestone to the next
  MaxMilestoneFaults    \* bound on messages lost and handlers killed

ASSUME MilestoneAssumption ==
  /\ IsFiniteSet(Posts) /\ Unclaimed \notin Senders
  /\ Every \in Nat \ {0} /\ MaxMilestoneFaults \in Nat

VARIABLES
  began,        \* posts in the order of published_at
  posted,       \* published_posts that are committed
  milestone,    \* publication_milestones, by ordinal
  handling,     \* the senders
  messages,     \* messages in the channel, by ordinal (history)
  milestoneFaults

milestoneVars == <<began, posted, milestone, handling, messages, milestoneFaults>>

Ordinals == {n \in 1..Cardinality(Posts) : n % Every = 0}

NoMilestone == [state |-> "none", post |-> Unclaimed, token |-> Unclaimed]
Resting == [at |-> "rest", ordinal |-> 0]

MilestoneTypeOK ==
  /\ IsInjective(began) /\ ToSet(began) \subseteq Posts
  /\ posted \subseteq ToSet(began)
  /\ \A o \in Ordinals :
       /\ milestone[o].state \in {"none", "pending", "sending", "sent", "failed", "uncertain"}
       /\ (milestone[o].state = "sending") <=> (milestone[o].token \in Senders)
  /\ \A h \in Senders :
       /\ handling[h].at \in {"rest", "send", "accepted", "unsure", "dead"}
       /\ handling[h].ordinal \in Ordinals \cup {0}
  /\ messages \in [Ordinals -> Nat] /\ milestoneFaults \in 0..MaxMilestoneFaults

MilestoneInit ==
  /\ began = <<>> /\ posted = {}
  /\ milestone = [o \in Ordinals |-> NoMilestone]
  /\ handling = [h \in Senders |-> Resting]
  /\ messages = [o \in Ordinals |-> 0] /\ milestoneFaults = 0

MilestoneFault ==
  /\ milestoneFaults < MaxMilestoneFaults
  /\ milestoneFaults' = milestoneFaults + 1

-----------------------------------------------------------------------------
(* Publications: published_at is the start of the transaction, and they may *)
(* commit in another order.                                                 *)
BeginPost(p) ==
  /\ p \notin ToSet(began) /\ began' = Append(began, p)
  /\ UNCHANGED <<posted, milestone, handling, messages, milestoneFaults>>

CommitPost(p) ==
  /\ p \in ToSet(began) \ posted /\ posted' = posted \cup {p}
  /\ UNCHANGED <<began, milestone, handling, messages, milestoneFaults>>

-----------------------------------------------------------------------------
(* claim_publication_milestone *)

Before(p, q) ==
  \E i, j \in DOMAIN began : i <= j /\ began[i] = p /\ began[j] = q

Ordinal(p) == Cardinality({q \in posted : Before(q, p)})

(* A post that has a row under another ordinal breaks the unique key. *)
Inserted(o, p) ==
  IF milestone[o].state = "none"
  THEN [state |-> "pending", post |-> p, token |-> Unclaimed]
  ELSE milestone[o]

ClaimPublicationMilestone(h, p) ==
  LET o == Ordinal(p)
  IN /\ handling[h] = Resting /\ p \in posted /\ o \in Ordinals
     /\ milestone[o].state = "none" => \A q \in Ordinals : milestone[q].post # p
     /\ Inserted(o, p).state \in {"pending", "failed"}
     /\ milestone' = [milestone EXCEPT ![o] =
                        [Inserted(o, p) EXCEPT !.state = "sending", !.token = h]]
     /\ handling' = [handling EXCEPT ![h] = [at |-> "send", ordinal |-> o]]
     /\ UNCHANGED <<began, posted, messages, milestoneFaults>>

(* Mutant: what is uncertain is retried too. *)
RetryPublicationMilestoneUnsure(h, o) ==
  /\ handling[h] = Resting /\ milestone[o].state \in {"failed", "uncertain"}
  /\ milestone' = [milestone EXCEPT ![o].state = "sending", ![o].token = h]
  /\ handling' = [handling EXCEPT ![h] = [at |-> "send", ordinal |-> o]]
  /\ UNCHANGED <<began, posted, messages, milestoneFaults>>

(* retry_publication_milestone, asked for by the operator. *)
RetryPublicationMilestone(h, o) ==
  /\ handling[h] = Resting /\ milestone[o].state = "failed"
  /\ milestone' = [milestone EXCEPT ![o].state = "sending", ![o].token = h]
  /\ handling' = [handling EXCEPT ![h] = [at |-> "send", ordinal |-> o]]
  /\ UNCHANGED <<began, posted, messages, milestoneFaults>>

(* The message is sent: it arrives or not, and the answer may get lost. *)
SendMilestone(h) ==
  /\ handling[h].at = "send"
  /\ \E arrives, answered \in BOOLEAN :
       /\ answered => arrives
       /\ IF answered THEN UNCHANGED milestoneFaults ELSE MilestoneFault
       /\ messages' = [messages EXCEPT ![handling[h].ordinal] =
                        @ + IF arrives THEN 1 ELSE 0]
       /\ handling' = [handling EXCEPT ![h].at =
                         IF answered THEN "accepted" ELSE "unsure"]
  /\ UNCHANGED <<began, posted, milestone>>

(* mark_publication_milestone_sent and _uncertain, fenced by the token. *)
Fenced(h) ==
  LET row == milestone[handling[h].ordinal]
  IN row.state = "sending" /\ row.token = h

(* Mutant: the token stays on the row. *)
MarkMilestoneWithToken(h, point, state) ==
  /\ handling[h].at = point /\ Fenced(h)
  /\ milestone' = [milestone EXCEPT ![handling[h].ordinal].state = state]
  /\ handling' = [handling EXCEPT ![h] = Resting]
  /\ UNCHANGED <<began, posted, messages, milestoneFaults>>

MarkMilestone(h, point, state) ==
  /\ handling[h].at = point
  /\ milestone' = IF Fenced(h)
                  THEN [milestone EXCEPT ![handling[h].ordinal] =
                          [@ EXCEPT !.state = state, !.token = Unclaimed]]
                  ELSE milestone
  /\ handling' = [handling EXCEPT ![h] = Resting]
  /\ UNCHANGED <<began, posted, messages, milestoneFaults>>

MarkSent(h) == MarkMilestone(h, "accepted", "sent")
(* Mutant: an error of the adapter is taken for a message that was not sent. *)
MarkFailed(h) == MarkMilestone(h, "unsure", "failed")

MarkUncertain(h) == MarkMilestone(h, "unsure", "uncertain")

(* The operator looks at the channel once every handler of it is gone. *)
Reconcile(o) ==
  /\ milestone[o].state = "uncertain"
  /\ milestone' = [milestone EXCEPT ![o].state =
                     IF messages[o] > 0 THEN "sent" ELSE "failed"]
  /\ UNCHANGED <<began, posted, handling, messages, milestoneFaults>>

HandlerDies(h) ==
  /\ handling[h].at \in {"send", "accepted", "unsure"} /\ MilestoneFault
  /\ handling' = [handling EXCEPT ![h].at = "dead"]
  /\ UNCHANGED <<began, posted, milestone, messages>>

MilestoneNext ==
  \/ \E p \in Posts : BeginPost(p) \/ CommitPost(p)
  \/ \E o \in Ordinals : Reconcile(o)
  \/ \E h \in Senders :
       \/ \E p \in Posts : ClaimPublicationMilestone(h, p)
       \/ \E o \in Ordinals : RetryPublicationMilestone(h, o)
       \/ SendMilestone(h) \/ MarkSent(h) \/ MarkUncertain(h) \/ HandlerDies(h)

MilestoneSpec == MilestoneInit /\ [][MilestoneNext]_milestoneVars

-----------------------------------------------------------------------------
(* What the milestones promise *)

(* A channel sees the message of a milestone once, whatever is replayed,    *)
(* retried or lost and in whatever order the posts commit.                  *)
MilestoneOnce == \A o \in Ordinals : messages[o] <= 1

(* A row says sent only of a message that arrived, and failed only of one    *)
(* that did not, so that a retry repeats nothing.                           *)
MilestoneTruthful ==
  \A o \in Ordinals :
    /\ milestone[o].state = "sent" => messages[o] = 1
    /\ milestone[o].state \in {"none", "pending", "failed"} => messages[o] = 0

(* A milestone is announced once and its row says what came of it.          *)
MilestonesPromise == MilestoneOnce /\ MilestoneTruthful
=============================================================================
