------------------------------ MODULE Drafting -------------------------------
(***************************************************************************)
(* How one review draft is written (editorial/legacy-editorial-draft       *)
(* .gateway.ts, generate): facts are planned and searched for              *)
(* (corroboration/), a grounded baseline is generated (draft.js), the      *)
(* editorial pass may rewrite it (enrichment/), and the use case           *)
(* (application/generate-review-draft.use-case.ts) saves what is shipped.  *)
(*                                                                         *)
(* Evidence maps a publisher to the verification status of what it says;   *)
(* the run starts with one item, the article it selected.  A body is what  *)
(* the channel's readers can tell apart: which version it is, whether it   *)
(* is marked as unverified, and whether it carries the topic hashtags.     *)
(* Calls to a provider have any outcome the code distinguishes.            *)
(***************************************************************************)
EXTENDS Naturals, FiniteSets

CONSTANTS
  Publishers, Origin,    \* publishers, and the one of the selected article
  Strong,                \* those whose agreement counts (source-policy.ts)
  RequiredPublishers,    \* strong publishers that lift the caveat
  MaxSearches,           \* paid searches per article
  MaxRequests            \* facts a plan may ask for

ASSUME DraftingAssumption ==
  /\ Origin \in Publishers /\ Strong \subseteq Publishers
  /\ RequiredPublishers \in Nat \ {0} /\ MaxSearches \in Nat /\ MaxRequests \in Nat

LabState == {"off", "collect", "enabled"}
Status == {"primary_source", "web_source", "web_search_summary",
           "unverified_community"}

VARIABLES
  labs,                  \* the feature flags, read once: tags and pass
  given,                 \* the status of the selected article
  writing,               \* point, counters and results of the generation
  evidence,              \* what the draft rests on
  baseline, body,        \* the grounded draft, and what is saved
  notes                  \* reviewer_notes: what they say of the body

draftVars == <<labs, given, writing, evidence, baseline, body, notes>>

Body == [version : {"none", "baseline", "enriched"}, marked : BOOLEAN,
         tags : BOOLEAN, block : BOOLEAN]
NoBody == [version |-> "none", marked |-> FALSE, tags |-> FALSE, block |-> FALSE]

Writing == [at : {"flags", "plan", "search", "draft", "pass", "save", "saved",
                  "failed"},
            reason : {"none", "catalog", "refused", "provider", "invalid",
                      "not_saved"},
            requests : 0..MaxRequests, searches : 0..MaxSearches,
            found : SUBSET Publishers,
            corroboration : {"not_run", "corroborated", "uncorroborated", "error"},
            allow : BOOLEAN,      \* allowUnverified
            assigned : BOOLEAN,   \* a topic was assigned
            attempts : 0..1]      \* of the step at hand, failed so far

DraftTypeOK ==
  /\ labs \in [tags : LabState, pass : LabState]
  /\ given \in Status /\ writing \in Writing
  /\ DOMAIN evidence \subseteq Publishers
  /\ \A p \in DOMAIN evidence : evidence[p] \in Status
  /\ baseline \in Body /\ body \in Body
  /\ notes \in [version : {"none", "baseline", "enriched"},
                corroboration : {"none", "not_run", "corroborated",
                                 "uncorroborated", "error"}]

Selected(status) == [p \in {Origin} |-> status]

(* allowUnverified is passed for every source that is not primary. *)
DraftInit ==
  /\ labs \in [tags : LabState, pass : LabState]
  /\ given \in Status /\ evidence = Selected(given)
  /\ writing = [at |-> "flags", reason |-> "none", requests |-> 0, searches |-> 0,
                found |-> {}, corroboration |-> "not_run",
                allow |-> given # "primary_source", assigned |-> FALSE,
                attempts |-> 0]
  /\ baseline = NoBody /\ body = NoBody
  /\ notes = [version |-> "none", corroboration |-> "none"]

-----------------------------------------------------------------------------
Writes(point) == writing.at = point
Onward(changes) ==
  writing' = [k \in DOMAIN writing |->
                IF k \in DOMAIN changes THEN changes[k] ELSE writing[k]]
Gives(reason) == Onward([at |-> "failed", reason |-> reason])

(* resolveFeatureFlags and resolveArticleTagging: the flags are read, and    *)
(* tagging needs a catalogue.                                               *)
ResolveFlags ==
  /\ Writes("flags")
  /\ Onward([at |-> "plan"]) \/ Gives("catalog")
  /\ UNCHANGED <<labs, given, evidence, baseline, body, notes>>

(* planFacts: no planner, a failed plan and an empty one ask for nothing; a *)
(* planner that throws is recorded.                                         *)
PlanFacts ==
  /\ Writes("plan")
  /\ \/ \E c \in {"not_run", "error"} : Onward([at |-> "draft", corroboration |-> c])
     \/ \E n \in 1..MaxRequests : Onward([at |-> "search", requests |-> n])
  /\ UNCHANGED <<labs, given, evidence, baseline, body, notes>>

StrongFound == writing.found \cap Strong

(* Mutant: every publisher counts. *)
EnoughOfAny == Cardinality(writing.found) >= RequiredPublishers

Enough == Cardinality(StrongFound) >= RequiredPublishers

(* Mutant: the paid searches are not counted. *)
SearchesOnUnpaid == writing.requests > 0 /\ ~Enough

SearchesOn ==
  writing.requests > 0 /\ writing.searches < MaxSearches /\ ~Enough

(* What a search may add: fresh sources of publishers not heard yet, in the *)
(* provider's order and no more once enough strong ones agree.              *)
Answers(known) ==
  {s \in SUBSET (Publishers \ (known \cup writing.found)) :
     Cardinality((writing.found \cup s) \cap Strong) <= RequiredPublishers}

SearchFact ==
  /\ Writes("search") /\ SearchesOn
  /\ \E s \in Answers({Origin}) :
       Onward([requests |-> writing.requests - 1,
               searches |-> writing.searches + 1,
               found |-> writing.found \cup s])
  /\ UNCHANGED <<labs, given, evidence, baseline, body, notes>>

(* corroborate: the caveat goes only when enough strong publishers agree;   *)
(* what was found is kept either way.                                       *)
Cleared(s) == IF s = "unverified_community" THEN "web_source" ELSE s

Corroborated(clear) ==
  [p \in {Origin} \cup writing.found |->
     IF p # Origin THEN "web_source"
     ELSE IF clear THEN Cleared(given) ELSE given]

(* Mutant: what is added has to be allowed like the article itself. *)
CorroborateStrictly ==
  /\ Writes("search") /\ ~SearchesOn
  /\ evidence' = Corroborated(Enough)
  /\ Onward([at |-> "draft",
             corroboration |-> IF Enough THEN "corroborated" ELSE "uncorroborated"])
  /\ UNCHANGED <<labs, given, baseline, body, notes>>

Corroborate ==
  /\ Writes("search") /\ ~SearchesOn
  /\ evidence' = Corroborated(Enough)
  /\ Onward([at |-> "draft",
             allow |-> writing.allow \/ writing.found # {},
             corroboration |-> IF Enough THEN "corroborated" ELSE "uncorroborated"])
  /\ UNCHANGED <<labs, given, baseline, body, notes>>

(* Mutant: what was found before the failure is kept. *)
CorroborationFailsHalfway ==
  /\ Writes("search")
  /\ evidence' = Corroborated(Enough)
  /\ Onward([at |-> "draft", corroboration |-> "error"])
  /\ UNCHANGED <<labs, given, baseline, body, notes>>

(* The gateway's own catch: back to the evidence it was given. *)
CorroborationFails ==
  /\ Writes("search")
  /\ evidence' = Selected(given)
  /\ Onward([at |-> "draft", found |-> {}, corroboration |-> "error"])
  /\ UNCHANGED <<labs, given, baseline, body, notes>>

-----------------------------------------------------------------------------
Unverified == \E p \in DOMAIN evidence : evidence[p] = "unverified_community"
NonPrimary == \E p \in DOMAIN evidence : evidence[p] # "primary_source"

(* generateDraft: evidence that may not be used is refused; a reply that    *)
(* fails validation is asked for once more; any other error is the end.     *)
GenerateDraft ==
  /\ Writes("draft")
  /\ \/ /\ NonPrimary /\ ~writing.allow
        /\ Gives("refused") /\ UNCHANGED baseline
     \/ /\ ~(NonPrimary /\ ~writing.allow)
        /\ \/ Gives("provider") /\ UNCHANGED baseline
           \/ /\ writing.attempts = 0 /\ Onward([attempts |-> 1])
              /\ UNCHANGED baseline
           \/ /\ writing.attempts = 1 /\ Gives("invalid")
              /\ UNCHANGED baseline
           \/ \E assigned \in IF labs.tags = "off" THEN {FALSE} ELSE BOOLEAN :
              \E block \in BOOLEAN :
                /\ Onward([at |-> "pass", assigned |-> assigned, attempts |-> 0])
                /\ baseline' = [version |-> "baseline", marked |-> Unverified,
                     tags |-> assigned /\ labs.tags = "enabled", block |-> block]
  /\ UNCHANGED <<labs, given, evidence, body, notes>>

(* stripPublishingFurniture: the source block and all below it goes, the    *)
(* hashtag line with it, and the primary source is put back.                *)
Stripped(b) == [b EXCEPT !.tags = @ /\ ~b.block, !.block = TRUE]

(* withEnrichmentNotes, withCorroborationNotes *)
Ship(b) ==
  /\ body' = b
  /\ notes' = [version |-> b.version, corroboration |-> writing.corroboration]
  /\ Onward([at |-> "save"])

(* The pass is off, not configured, or leaves an unverified story alone. *)
SkipPass == labs.pass = "off" \/ Unverified

KeepBaseline ==
  /\ Writes("pass") /\ Ship(Stripped(baseline))
  /\ UNCHANGED <<labs, given, evidence, baseline>>

(* enrich: a rewrite too close to the baseline, too short or too long is    *)
(* asked for once more.                                                     *)
AskAgain ==
  /\ Writes("pass") /\ ~SkipPass /\ writing.attempts = 0
  /\ Onward([attempts |-> 1])
  /\ UNCHANGED <<labs, given, evidence, baseline, body, notes>>

Enrich ==
  /\ Writes("pass") /\ ~SkipPass
  /\ Ship([version |-> "enriched", marked |-> FALSE,
           tags |-> writing.assigned /\ labs.tags = "enabled", block |-> TRUE])
  /\ UNCHANGED <<labs, given, evidence, baseline>>

(* Usage is recorded as well as may be; the draft is created, or cancelled  *)
(* or refused by the database.                                              *)
SaveDraft ==
  /\ Writes("save")
  /\ Onward([at |-> "saved"]) \/ Gives("not_saved")
  /\ UNCHANGED <<labs, given, evidence, baseline, body, notes>>

DraftNext ==
  \/ ResolveFlags \/ PlanFacts \/ SearchFact \/ Corroborate \/ CorroborationFails
  \/ GenerateDraft \/ KeepBaseline \/ AskAgain \/ Enrich \/ SaveDraft

DraftSpec == DraftInit /\ [][DraftNext]_draftVars

-----------------------------------------------------------------------------
(* What the draft owes its reader *)

(* A story that came in unverified loses its mark only when enough strong   *)
(* publishers, none of them its own, were found to agree: no rewrite, no    *)
(* failed search and no lesser source strips it.                            *)
CaveatIsEarned ==
  Writes("saved") /\ given = "unverified_community" /\ ~body.marked =>
    Cardinality((DOMAIN evidence \ {Origin}) \cap Strong) >= RequiredPublishers

(* "Adding detail must never become a way for an article to stop being      *)
(* produced": whatever corroboration adds to it, evidence is not refused.   *)
DetailNeverCosts == writing.reason # "refused"

(* What a reviewer reads of the body is true of the body: its version, and  *)
(* that a failed corroboration left the evidence as it was.                 *)
NotesAreTrue ==
  Writes("saved") =>
    /\ notes.version = body.version
    /\ notes.corroboration \in {"error", "not_run"} => evidence = Selected(given)
    /\ notes.corroboration = "uncorroborated" /\ given = "unverified_community"
       => body.marked

(* Labs: "Collect only -- generate and store both versions, but keep the    *)
(* baseline as the review body."                                            *)
CollectKeepsBaseline == labs.pass = "collect" => body.version # "enriched"

(* A draft is marked when it must be, described as it is, and not lost to   *)
(* what was meant to enrich it.                                             *)
DraftPromise == CaveatIsEarned /\ DetailNeverCosts /\ NotesAreTrue
=============================================================================
