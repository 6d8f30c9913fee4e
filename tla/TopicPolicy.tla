------------------------------ MODULE TopicPolicy ------------------------------
(***************************************************************************)
(* The excluded topics of one batch of candidates: applyExcludedTopicPolicy*)
(* with its pool of classifications (src/excluded-topic-policy.js,         *)
(* src/excluded-topics.js), and the veto over what is about to be sent     *)
(* (src/editorial/legacy-editorial-publication-policy.gateway.ts).         *)
(*                                                                         *)
(* The taxonomy has one topic, war_conflict, and it is excluded.  A        *)
(* candidate is its place in the batch; its title names a conflict event   *)
(* or not.  A reply is one of the four relations or unusable: of another   *)
(* shape than was asked for, late, or an error.                            *)
(***************************************************************************)
EXTENDS Naturals, Sequences, FiniteSets

CONSTANTS
  BatchSize,        \* candidates of the batch
  Slots,            \* EXCLUDED_TOPIC_CLASSIFICATION_CONCURRENCY workers
  NoReply           \* a classification that has not returned

ASSUME TopicPolicyAssumption ==
  /\ BatchSize \in Nat \ {0} /\ IsFiniteSet(Slots)
  /\ NoReply \notin {"main_subject", "incidental", "unrelated", "uncertain", "unusable"}

Batch == 1..BatchSize
Relations == {"main_subject", "incidental", "unrelated", "uncertain"}
Replies == Relations \cup {"unusable"}

VARIABLES
  explicit,     \* the titles that name a conflict event
  nextIndex,    \* of the pool, in what needs classification
  inFlight,     \* the candidate each worker of the pool classifies, or 0
  reply,        \* what the classifier said of each candidate
  finished,     \* the order the classifications returned in (history)
  result,       \* what applyExcludedTopicPolicy returns, once it does
  vetoReply     \* what the classifier said of the article of a candidate
                \* when it was about to be sent

topicVars == <<explicit, nextIndex, inFlight, reply, finished, result, vetoReply>>

NoResult == [done |-> FALSE, eligible |-> <<>>, blocked |-> <<>>]

TopicTypeOK ==
  /\ explicit \subseteq Batch /\ nextIndex \in 0..BatchSize
  /\ inFlight \in [Slots -> 0..BatchSize]
  /\ reply \in [Batch -> Replies \cup {NoReply}]
  /\ finished \in Seq(Batch) /\ Len(finished) <= BatchSize
  /\ result.done \in BOOLEAN
  /\ {result.eligible, result.blocked} \subseteq Seq(Batch)
  /\ vetoReply \in [Batch -> Replies \cup {NoReply}]

TopicInit ==
  /\ explicit \in SUBSET Batch
  /\ nextIndex = 0
  /\ inFlight = [w \in Slots |-> 0]
  /\ reply = [i \in Batch |-> NoReply]
  /\ finished = <<>>
  /\ result = NoResult
  /\ vetoReply = [i \in Batch |-> NoReply]

-----------------------------------------------------------------------------
(* Mutant: only what the classifier calls the subject is blocked. *)
AssessmentOfSubject(r) == IF r = "main_subject" THEN r ELSE "unrelated"

(* normalizeAssessments, and the catch around classify: what is not an      *)
(* assessment of the topic that was asked about is uncertain.               *)
Assessment(r) == IF r \in Relations THEN r ELSE "uncertain"

Blocking(r) == Assessment(r) \in {"main_subject", "uncertain"}

(* The candidates of S as they came in. *)
Place(S, i) == Cardinality({j \in S : j <= i})
InOrder(S) == [n \in 1..Cardinality(S) |-> CHOOSE i \in S : Place(S, i) = n]
NeedsClassification == InOrder(Batch \ explicit)

(* A worker of mapSettledWithConcurrency takes the next index.              *)
TakeNext(w) ==
  /\ inFlight[w] = 0 /\ nextIndex < Len(NeedsClassification)
  /\ inFlight' = [inFlight EXCEPT ![w] = NeedsClassification[nextIndex + 1]]
  /\ nextIndex' = nextIndex + 1
  /\ UNCHANGED <<explicit, reply, finished, result, vetoReply>>

(* evaluateExcludedTopics returns: results[index] is the place of its own   *)
(* candidate.                                                               *)
Classified(w) ==
  /\ inFlight[w] # 0
  /\ \E r \in Replies : reply' = [reply EXCEPT ![inFlight[w]] = r]
  /\ finished' = Append(finished, inFlight[w])
  /\ inFlight' = [inFlight EXCEPT ![w] = 0]
  /\ UNCHANGED <<explicit, nextIndex, result, vetoReply>>

(* Mutant: the lists are filled as the classifications return. *)
DecidedAsReturned ==
  [done |-> TRUE,
   eligible |-> SelectSeq(finished, LAMBDA i : ~Blocking(reply[i])),
   blocked |-> InOrder({i \in Batch : i \in explicit \/ Blocking(reply[i])})]

(* The second pass, over the candidates in the order they came in.          *)
Decided ==
  [done |-> TRUE,
   eligible |-> InOrder({i \in Batch \ explicit : ~Blocking(reply[i])}),
   blocked |-> InOrder({i \in Batch : i \in explicit \/ Blocking(reply[i])})]

(* Every worker of the pool has settled. *)
Assemble ==
  /\ ~result.done
  /\ nextIndex = Len(NeedsClassification) /\ \A w \in Slots : inFlight[w] = 0
  /\ result' = Decided
  /\ UNCHANGED <<explicit, nextIndex, inFlight, reply, finished, vetoReply>>

(* LegacyEditorialPublicationPolicyGateway.evaluate over the article made   *)
(* of an eligible candidate; its reply is not that of the candidate.        *)
Veto(i) ==
  /\ \E n \in DOMAIN result.eligible : result.eligible[n] = i
  /\ vetoReply[i] = NoReply
  /\ \E r \in Replies : vetoReply' = [vetoReply EXCEPT ![i] = r]
  /\ UNCHANGED <<explicit, nextIndex, inFlight, reply, finished, result>>

Allowed(i) == vetoReply[i] # NoReply /\ ~Blocking(vetoReply[i])

TopicNext ==
  \/ \E w \in Slots : TakeNext(w) \/ Classified(w)
  \/ Assemble
  \/ \E i \in Batch : Veto(i)

TopicSpec == TopicInit /\ [][TopicNext]_topicVars

-----------------------------------------------------------------------------
(* What the policy promises *)

Harmless == {"incidental", "unrelated"}

(* Candidates go on to the ranking in the order they came in, whichever     *)
(* classification returned first; none is lost, none is in both lists and   *)
(* none was classified twice.                                               *)
BatchIsPartitioned ==
  result.done =>
    /\ \A n, k \in DOMAIN result.eligible :
         n < k => result.eligible[n] < result.eligible[k]
    /\ Len(result.eligible) + Len(result.blocked) = BatchSize
    /\ \A i \in Batch :
         (\E n \in DOMAIN result.eligible : result.eligible[n] = i)
           # (\E n \in DOMAIN result.blocked : result.blocked[n] = i)
    /\ Len(finished) = Cardinality(Batch \ explicit)

(* Nothing goes on, and nothing is sent, that the classifier did not call   *)
(* harmless in so many words: a reply that is missing, late or malformed    *)
(* blocks ("fails closed", src/excluded-topics.js).                         *)
PolicyFailsClosed ==
  /\ \A n \in DOMAIN result.eligible : reply[result.eligible[n]] \in Harmless
  /\ \A i \in Batch : Allowed(i) => {reply[i], vetoReply[i]} \subseteq Harmless
=============================================================================
