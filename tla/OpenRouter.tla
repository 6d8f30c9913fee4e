------------------------------ MODULE OpenRouter ------------------------------
(***************************************************************************)
(* The free models behind one provider of the cascade                      *)
(* (src/ai/providers/openrouter.adapter.ts): calls of one process walk the *)
(* list of models until one answers, and remember the one that did.        *)
(*                                                                         *)
(* The catalogue is asked for once, with the signal of the call that came  *)
(* first; the others wait for that answer.  Catalogue is the ranking       *)
(* discoverOpenRouterModels makes of it.  An attempt answers or fails,     *)
(* which its own timeout sees to; why it fails is left out.                *)
(***************************************************************************)
EXTENDS Naturals, Sequences

CONSTANTS
  Walkers,          \* concurrent calls of generateStructured
  Preferred,        \* OPEN_ROUTER_MODEL, in order
  Catalogue,        \* the free models with structured outputs, ranked
  DefaultModel,     \* DEFAULT_OPEN_ROUTER_MODEL
  NoModel

Members(s) == {s[i] : i \in DOMAIN s}
FreeModels == Members(Preferred) \cup Members(Catalogue) \cup {DefaultModel}

ASSUME OpenRouterAssumption ==
  /\ NoModel \notin FreeModels \cup Walkers
  /\ Walkers \cap {"none", "listed", "default"} = {}
  /\ {Preferred, Catalogue} \subseteq Seq(FreeModels)

VARIABLES
  lookup,       \* resolvedModels: "none", the walker it asks for, or what it
                \* resolved to
  proven,       \* provenModel
  walk,         \* each call's walk
  lastReply     \* what each model's latest attempt came to (history)

routerVars == <<lookup, proven, walk, lastReply>>

(* first: provenModel as the call read it, before it waited for the list.   *)
NoWalk == [at |-> "idle", first |-> NoModel, model |-> NoModel, tried |-> {},
           aborted |-> FALSE]

OnTheWay == {"listing", "calling"}
WalkPoints == {"answered", "failed", "aborted"}

RouterTypeOK ==
  /\ lookup \in {"none", "listed", "default"} \cup Walkers
  /\ proven \in FreeModels \cup {NoModel}
  /\ walk \in [Walkers -> [at : {"idle"} \cup OnTheWay \cup WalkPoints,
                           first : FreeModels \cup {NoModel},
                           model : FreeModels \cup {NoModel},
                           tried : SUBSET FreeModels, aborted : BOOLEAN]]
  /\ lastReply \in [FreeModels -> {"none", "answered", "failed"}]

RouterInit ==
  /\ lookup = "none" /\ proven = NoModel
  /\ walk = [k \in Walkers |-> NoWalk]
  /\ lastReply = [f \in FreeModels |-> "none"]

-----------------------------------------------------------------------------
(* The list of models *)

(* Mutant: preferences replace what was discovered. *)
CandidatesPinned(k) ==
  (IF walk[k].first = NoModel THEN <<>> ELSE <<walk[k].first>>)
    \o Preferred \o <<DefaultModel>>

(* The model that answered last, the preferences, what discovery found and  *)
(* the default; a model named twice is called at its first place.           *)
ModelsOf(k) ==
  (IF walk[k].first = NoModel THEN <<>> ELSE <<walk[k].first>>)
    \o Preferred
    \o (IF lookup = "listed" THEN Catalogue ELSE <<>>)
    \o <<DefaultModel>>

Untried(k, tried) == {i \in DOMAIN ModelsOf(k) : ModelsOf(k)[i] \notin tried}

NextModel(k, tried) ==
  ModelsOf(k)[CHOOSE i \in Untried(k, tried) :
                   \A j \in Untried(k, tried) : i <= j]

(* resolvedModels ??= discover(...), and the proven model read before it.   *)
StartWalk(k) ==
  /\ walk[k].at = "idle"
  /\ walk' = [walk EXCEPT ![k] = [NoWalk EXCEPT !.at = "listing", !.first = proven]]
  /\ lookup' = IF lookup = "none" THEN k ELSE lookup
  /\ UNCHANGED <<proven, lastReply>>

(* A lookup that fails, is empty or whose first caller gave up resolves to  *)
(* the default, for the rest of the process.                                *)
DiscoveryEnds ==
  /\ lookup \in Walkers
  /\ lookup' \in IF walk[lookup].aborted THEN {"default"} ELSE {"listed", "default"}
  /\ UNCHANGED <<proven, walk, lastReply>>

-----------------------------------------------------------------------------
(* The walk *)

Call(k, tried) ==
  walk' = [walk EXCEPT ![k].at = "calling", ![k].model = NextModel(k, tried),
                       ![k].tried = tried \cup {NextModel(k, tried)}]
WalkEnds(k, point) == walk' = [walk EXCEPT ![k].at = point, ![k].model = NoModel]

(* An attempt under a signal that is already aborted fails at once.         *)
FirstModel(k) ==
  /\ walk[k].at = "listing" /\ lookup \in {"listed", "default"}
  /\ IF walk[k].aborted THEN WalkEnds(k, "aborted") ELSE Call(k, {})
  /\ UNCHANGED <<lookup, proven, lastReply>>

(* The model that answered leads the list of the calls that start from now *)
(* on.                                                                     *)
ModelAnswers(k) ==
  /\ walk[k].at = "calling"
  /\ WalkEnds(k, "answered")
  /\ proven' = walk[k].model
  /\ lastReply' = [lastReply EXCEPT ![walk[k].model] = "answered"]
  /\ UNCHANGED lookup

(* Mutants: a model that fails stays in front; the caller's signal is not   *)
(* looked at.                                                               *)
StillProvenAlways(model) == proven
WalkOnRegardless(k) ==
  IF Untried(k, walk[k].tried) = {} THEN WalkEnds(k, "failed")
                                    ELSE Call(k, walk[k].tried)

StillProven(model) == IF proven = model THEN NoModel ELSE proven

WalkOn(k) ==
  IF walk[k].aborted THEN WalkEnds(k, "aborted")
  ELSE IF Untried(k, walk[k].tried) = {} THEN WalkEnds(k, "failed")
  ELSE Call(k, walk[k].tried)

(* The walk ends with the caller's signal; otherwise the failure is the     *)
(* model's, and the next one is called while there is one.                  *)
ModelFails(k) ==
  /\ walk[k].at = "calling"
  /\ WalkOn(k)
  /\ IF walk[k].aborted THEN UNCHANGED <<proven, lastReply>>
     ELSE /\ proven' = StillProven(walk[k].model)
          /\ lastReply' = [lastReply EXCEPT ![walk[k].model] = "failed"]
  /\ UNCHANGED lookup

(* The caller's signal: the cascade's deadline, /stop, a lost claim.        *)
CallerAborts(k) ==
  /\ walk[k].at \in OnTheWay /\ ~walk[k].aborted
  /\ walk' = [walk EXCEPT ![k].aborted = TRUE]
  /\ UNCHANGED <<lookup, proven, lastReply>>

(* The caller took the result and may call again. *)
WalkOver(k) ==
  /\ walk[k].at \in WalkPoints
  /\ walk' = [walk EXCEPT ![k] = NoWalk]
  /\ UNCHANGED <<lookup, proven, lastReply>>

RouterNext ==
  \/ DiscoveryEnds
  \/ \E k \in Walkers :
       \/ StartWalk(k) \/ FirstModel(k) \/ ModelAnswers(k) \/ ModelFails(k)
       \/ CallerAborts(k) \/ WalkOver(k)

RouterSpec == RouterInit /\ [][RouterNext]_routerVars

-----------------------------------------------------------------------------
(* What the provider promises *)

(* The model every call would try first has answered when it was last       *)
(* asked, whatever calls overlap: "Stop preferring a model that just        *)
(* failed" (src/ai/providers/openrouter.adapter.ts).                        *)
ProvenHasAnswered == proven # NoModel => lastReply[proven] = "answered"

(* The cascade goes on to a provider that is paid only after every free     *)
(* model was asked: a preferred model that fails has somewhere to go.       *)
NothingFreeIsLeft ==
  \A k \in Walkers : walk[k].at = "failed" =>
    /\ Members(Preferred) \cup {DefaultModel} \subseteq walk[k].tried
    /\ lookup = "listed" => Members(Catalogue) \subseteq walk[k].tried

(* No model is asked for a caller that has gone.                            *)
GoneAsksNoMore ==
  [][\A k \in Walkers :
       walk[k].aborted /\ walk'[k].at = "calling" => walk'[k] = walk[k]]_routerVars

(* OpenRouter is asked as long as that is free and wanted, and no longer.   *)
OpenRouterPromise == [](ProvenHasAnswered /\ NothingFreeIsLeft) /\ GoneAsksNoMore
=============================================================================
