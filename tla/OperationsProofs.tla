---------------------------- MODULE OperationsProofs ----------------------------
(***************************************************************************)
(* What the catalogue of sources, the writing of a draft, the release and  *)
(* the Notion outbox promise, proved of each component for all its         *)
(* constants.                                                              *)
(***************************************************************************)
EXTENDS MCOperations, ResearchProofs, ServicesProofs, TLAPS

-----------------------------------------------------------------------------
(* The catalogue of sources *)

SourceRow == [saved : BOOLEAN, enabled : BOOLEAN, failures : 0..MaxFailures,
              aside : Asides]
Reading == [at : {"fetch", "fetched", "missed"}, feed : Feeds, attempt : Nat]
Seeking == [at : {"search", "try", "complete"}, feeds : SUBSET Feeds,
              result : {"none", "some", "failed"}]
Saving == [at : {"save"}, feed : Feeds, feeds : SUBSET Feeds,
           result : {"none", "some", "failed"}]

(* SourcesTypeOK, with what a scan carries at each of its points.           *)
CatalogueType ==
  /\ source \in [Feeds -> SourceRow]
  /\ discovery \in [status : {"none", "running", "completed", "failed"},
                    pause : Asides]
  /\ scan \in [Scans -> {NoScan} \cup Reading \cup Seeking \cup Saving]
  /\ refusals \in [Feeds -> 0..MaxFailures] /\ searches \in Nat

(* The failures of a row are the scans that recorded no success since.      *)
FailuresCounted ==
  \A f \in Feeds : /\ source[f].failures = refusals[f]
                   /\ source[f].aside # "none" => source[f].failures >= 3

(* A search that is under way or was paid for is within its pause, and no   *)
(* other is under way.                                                      *)
SearchesPaused ==
  /\ searches \in 0..1
  /\ searches = 1 \/ (\E s \in Scans : scan[s].at = "search") =>
       discovery.pause # "none" /\ discovery.status # "none"
  /\ \A s \in Scans : scan[s].at = "search" =>
       searches = 0 /\ \A r \in Scans : scan[r].at = "search" => r = s

SourcesInv == CatalogueType /\ FailuresCounted /\ SearchesPaused

(* What a scan carries is told by its point.                               *)
LEMMA CatalogueFacts ==
  ASSUME CatalogueType, NEW s \in Scans
  PROVE  /\ scan[s].at \in {"fetch", "fetched", "missed"} => scan[s] \in Reading
         /\ scan[s].at \in {"search", "try", "complete"} => scan[s] \in Seeking
         /\ scan[s].at = "save" => scan[s] \in Saving
  BY DEF CatalogueType, Reading, Seeking, Saving, NoScan

(* A success clears the count, a failure adds to it; three set aside.       *)
LEMMA RowFacts ==
  ASSUME NEW r \in SourceRow, r.aside # "none" => r.failures >= 3
  PROVE  /\ More(r.failures) \in 0..MaxFailures
         /\ Failed(r) \in SourceRow /\ Failed(r).failures = More(r.failures)
         /\ Failed(r).aside # "none" => More(r.failures) >= 3
         /\ Recovered(r) \in SourceRow
         /\ Recovered(r).failures = 0 /\ Recovered(r).aside = "none"
         /\ [Recovered(r) EXCEPT !.saved = TRUE] \in SourceRow
         /\ [Recovered(r) EXCEPT !.saved = TRUE].failures = 0
         /\ [Recovered(r) EXCEPT !.saved = TRUE].aside = "none"
<1> USE SourcesAssumption
<1>1. r.failures \in 0..MaxFailures
  BY DEF SourceRow
<1>2. More(r.failures) \in 0..MaxFailures /\ 0 \in 0..MaxFailures
      /\ (r.failures >= 3 => More(r.failures) >= 3)
  BY <1>1 DEF More
<1>3. Failed(r) \in SourceRow /\ Failed(r).failures = More(r.failures)
  <2> DEFINE n == More(r.failures)
             a == IF n >= 5 THEN "week" ELSE IF n >= 3 THEN "day" ELSE r.aside
  <2>1. Failed(r) = [r EXCEPT !.failures = n, !.aside = a]
    BY DEF Failed
  <2>2. n \in 0..MaxFailures /\ a \in Asides
    BY <1>2 DEF SourceRow, Asides
  <2>3. n = More(r.failures)
    OBVIOUS
  <2> HIDE DEF n, a
  <2> QED BY <2>1, <2>2, <2>3 DEF SourceRow
<1>4. Failed(r).aside # "none" => More(r.failures) >= 3
  <2> DEFINE n == More(r.failures)
             a == IF n >= 5 THEN "week" ELSE IF n >= 3 THEN "day" ELSE r.aside
  <2>1. Failed(r) = [r EXCEPT !.failures = n, !.aside = a]
    BY DEF Failed
  <2>2. Failed(r).aside = a
    <3> HIDE DEF n, a
    <3> QED BY <2>1 DEF SourceRow
  <2> QED BY <1>1, <1>2, <2>2
<1>5. /\ Recovered(r) \in SourceRow
      /\ Recovered(r).failures = 0 /\ Recovered(r).aside = "none"
  BY <1>2 DEF Recovered, SourceRow, Asides
<1> QED BY <1>2, <1>3, <1>4, <1>5 DEF SourceRow

(* A run that reads sources.                                                *)
LEMMA ReadingKeeps ==
  ASSUME SourcesInv, NEW s \in Scans,
         ListEnabledSources(s) \/ FetchSource(s) \/ ScanStops(s)
  PROVE  SourcesInv'
<1>1. CatalogueType /\ UNCHANGED <<source, discovery, refusals, searches>>
  BY DEF SourcesInv, ListEnabledSources, FetchSource, ScanStops
<1>2. \E v \in {NoScan} \cup Reading : scan' = [scan EXCEPT ![s] = v]
  <2>1. CASE ListEnabledSources(s)
    BY <1>1, <2>1 DEF ListEnabledSources, Reading
  <2>2. CASE FetchSource(s)
    <3>1. scan[s] \in Reading
      BY <1>1, <2>2, CatalogueFacts DEF FetchSource
    <3>2. CASE Goes(s, "fetched") \/ Goes(s, "missed")
      BY <3>1, <3>2 DEF Goes, Reading
    <3>3. CASE scan' = [scan EXCEPT ![s].attempt = @ + 1]
      <4> DEFINE n == scan[s].attempt + 1
      <4>1. n \in Nat /\ scan' = [scan EXCEPT ![s] = [scan[s] EXCEPT !.attempt = n]]
        BY <3>1, <3>3 DEF Reading
      <4> HIDE DEF n
      <4>2. [scan[s] EXCEPT !.attempt = n] \in Reading
        BY <3>1, <4>1 DEF Reading
      <4> QED BY <4>1, <4>2
    <3> QED BY <2>2, <3>2, <3>3 DEF FetchSource
  <2>3. CASE ScanStops(s)
    BY <2>3 DEF ScanStops
  <2> QED BY <2>1, <2>2, <2>3
<1>3. PICK v \in {NoScan} \cup Reading : scan' = [scan EXCEPT ![s] = v]
  BY <1>2
<1>4. v.at # "search"
  BY DEF NoScan, Reading
<1>5. CatalogueType' /\ \A r \in Scans : scan'[r].at = "search" => scan[r].at = "search"
  BY <1>1, <1>3, <1>4 DEF CatalogueType
<1> QED BY <1>1, <1>5 DEF SourcesInv, FailuresCounted, SearchesPaused

(* What comes of a source is counted in its row.                            *)
LEMMA MarkingKeeps ==
  ASSUME SourcesInv, NEW s \in Scans,
         MarkSourceFetchSuccess(s) \/ MarkSourceFetchFailure(s)
         \/ UpsertDiscoveredSource(s)
  PROVE  SourcesInv'
<1> USE SourcesAssumption
<1>1. CatalogueType /\ UNCHANGED <<discovery, searches>> /\ scan[s].feed \in Feeds
  BY CatalogueFacts DEF SourcesInv, MarkSourceFetchSuccess, MarkSourceFetchFailure,
    UpsertDiscoveredSource, Reading, Saving
<1>2. PICK v \in {NoScan} \cup Reading \cup Seeking :
        v.at # "search" /\ scan' = [scan EXCEPT ![s] = v]
  <2>1. CASE MarkSourceFetchSuccess(s)
    BY <1>1, <2>1, CatalogueFacts DEF MarkSourceFetchSuccess, Goes, Reading, NoScan
  <2>2. CASE MarkSourceFetchFailure(s)
    BY <2>2 DEF MarkSourceFetchFailure, NoScan
  <2>3. CASE UpsertDiscoveredSource(s)
    BY <1>1, <2>3, CatalogueFacts DEF UpsertDiscoveredSource, Seeking, Saving
  <2> QED BY <2>1, <2>2, <2>3
<1>3. scan' \in [Scans -> {NoScan} \cup Reading \cup Seeking \cup Saving]
      /\ \A r \in Scans : scan'[r].at = "search" => scan[r].at = "search"
  BY <1>1, <1>2 DEF CatalogueType
<1>4. SearchesPaused'
  BY <1>1, <1>3 DEF SourcesInv, SearchesPaused
<1>5. \E w \in SourceRow, n \in 0..MaxFailures, f \in Feeds :
        /\ source' = [source EXCEPT ![f] = w] /\ refusals' = [refusals EXCEPT ![f] = n]
        /\ w.failures = n /\ (w.aside # "none" => n >= 3)
  <2> DEFINE f == scan[s].feed
  <2>1. source[f] \in SourceRow /\ refusals[f] \in 0..MaxFailures
        /\ source[f].failures = refusals[f]
        /\ (source[f].aside # "none" => source[f].failures >= 3)
    BY <1>1 DEF SourcesInv, CatalogueType, FailuresCounted
  <2>2. CASE UNCHANGED <<source, refusals>>
    <3>1. source' = [source EXCEPT ![f] = source[f]]
          /\ refusals' = [refusals EXCEPT ![f] = refusals[f]]
      BY <1>1, <2>2 DEF CatalogueType
    <3> QED BY <1>1, <2>1, <3>1
  <2>3. CASE /\ source' = [source EXCEPT ![f] = Recovered(source[f])]
             /\ refusals' = [refusals EXCEPT ![f] = 0]
    <3>1. LET w == Recovered(source[f])
          IN  w \in SourceRow /\ w.failures = 0 /\ w.aside = "none"
      BY <2>1, RowFacts
    <3>2. 0 \in 0..MaxFailures /\ f \in Feeds
      BY <1>1
    <3> DEFINE w == Recovered(source[f])
    <3>3. source' = [source EXCEPT ![f] = w] /\ refusals' = [refusals EXCEPT ![f] = 0]
          /\ w \in SourceRow /\ w.failures = 0 /\ w.aside = "none"
      BY <2>3, <3>1
    <3> HIDE DEF w, f
    <3> QED BY <3>2, <3>3
  <2>4. CASE /\ source' = [source EXCEPT ![f] = [Recovered(source[f]) EXCEPT !.saved = TRUE]]
             /\ refusals' = [refusals EXCEPT ![f] = 0]
    <3>1. LET w == [Recovered(source[f]) EXCEPT !.saved = TRUE]
          IN  w \in SourceRow /\ w.failures = 0 /\ w.aside = "none"
      BY <2>1, RowFacts
    <3> DEFINE w == [Recovered(source[f]) EXCEPT !.saved = TRUE]
    <3>2. 0 \in 0..MaxFailures /\ f \in Feeds
      BY <1>1
    <3>3. source' = [source EXCEPT ![f] = w] /\ refusals' = [refusals EXCEPT ![f] = 0]
          /\ w \in SourceRow /\ w.failures = 0 /\ w.aside = "none"
      BY <2>4, <3>1
    <3> HIDE DEF w, f
    <3> QED BY <3>2, <3>3
  <2>5. CASE /\ source' = [source EXCEPT ![f] = Failed(source[f])]
             /\ refusals' = [refusals EXCEPT ![f] = More(refusals[f])]
    BY <1>1, <2>1, <2>5, RowFacts
  <2> QED BY <2>2, <2>3, <2>4, <2>5
       DEF MarkSourceFetchSuccess, MarkSourceFetchFailure, UpsertDiscoveredSource
<1>6. source' \in [Feeds -> SourceRow]
      /\ refusals' \in [Feeds -> 0..MaxFailures] /\ FailuresCounted'
  BY <1>1, <1>5 DEF SourcesInv, CatalogueType, FailuresCounted
<1> QED BY <1>1, <1>3, <1>4, <1>6 DEF SourcesInv, CatalogueType

(* A run that searches for feeds.                                           *)
LEMMA SearchingKeeps ==
  ASSUME SourcesInv, NEW s \in Scans,
         ClaimSourceDiscovery(s) \/ SearchFeeds(s) \/ TryFeed(s)
         \/ CompleteSourceDiscovery(s)
  PROVE  SourcesInv'
<1>1. CatalogueType /\ SearchesPaused /\ UNCHANGED <<source, refusals>>
  BY DEF SourcesInv, ClaimSourceDiscovery, SearchFeeds, TryFeed, CompleteSourceDiscovery
<1>2. FailuresCounted'
  BY <1>1 DEF SourcesInv, FailuresCounted
<1>3. CASE ClaimSourceDiscovery(s)
  <2> DEFINE v == [at |-> "search", result |-> "none", feeds |-> {}]
  <2>1. v \in Seeking /\ v.at = "search" /\ scan' = [scan EXCEPT ![s] = v]
        /\ discovery' = [status |-> "running", pause |-> "day"] /\ UNCHANGED searches
    BY <1>3 DEF ClaimSourceDiscovery, Seeking
  <2> HIDE DEF v
  <2>2. CatalogueType'
    BY <1>1, <2>1 DEF CatalogueType, Asides
  <2>3. searches = 0 /\ \A r \in Scans : scan[r].at # "search"
    BY <1>1, <1>3 DEF ClaimSourceDiscovery, SearchClaimable, SearchesPaused
  <2>4. SearchesPaused'
    BY <1>1, <2>1, <2>3 DEF SearchesPaused, CatalogueType
  <2> QED BY <1>2, <2>2, <2>4 DEF SourcesInv
<1>4. CASE SearchFeeds(s) \/ TryFeed(s) \/ CompleteSourceDiscovery(s)
  <2>1. PICK v \in {NoScan} \cup Seeking \cup Saving :
          v.at # "search" /\ scan' = [scan EXCEPT ![s] = v]
    <3>1. scan[s] \in Seeking
      BY <1>1, <1>4, CatalogueFacts
      DEF SearchFeeds, TryFeed, CompleteSourceDiscovery
    <3>2. CASE SearchFeeds(s)
      <4>1. CASE scan' = [scan EXCEPT ![s].at = "complete", ![s].result = "failed"]
        <5> DEFINE v == [scan[s] EXCEPT !.at = "complete", !.result = "failed"]
        <5>1. v \in Seeking /\ v.at # "search"
          BY <3>1 DEF Seeking
        <5>2. scan' = [scan EXCEPT ![s] = v]
          BY <1>1, <4>1 DEF CatalogueType
        <5> QED BY <5>1, <5>2
      <4>2. CASE \E found \in SUBSET Feeds :
                   scan' = [scan EXCEPT ![s].at = "try", ![s].feeds = found]
        BY <1>1, <3>1, <4>2 DEF Seeking, CatalogueType
      <4> QED BY <3>2, <4>1, <4>2 DEF SearchFeeds
    <3>3. CASE TryFeed(s)
      <4>1. CASE Goes(s, "complete")
        BY <3>1, <4>1 DEF Goes, Seeking
      <4>2. ASSUME NEW f \in scan[s].feeds,
                   scan' = [scan EXCEPT ![s] =
                              [at |-> "save", result |-> @.result, feed |-> f,
                               feeds |-> @.feeds \ {f}]]
            PROVE  \E v \in Saving : v.at # "search" /\ scan' = [scan EXCEPT ![s] = v]
        BY <3>1, <4>2 DEF Seeking, Saving
      <4>3. ASSUME NEW f \in scan[s].feeds,
                   scan' = [scan EXCEPT ![s] = [scan[s] EXCEPT !.feeds = @ \ {f}]]
            PROVE  \E v \in Seeking : v.at # "search" /\ scan' = [scan EXCEPT ![s] = v]
        <5> DEFINE v == [scan[s] EXCEPT !.feeds = @ \ {f}]
        <5>1. v \in Seeking /\ v.at = "try"
          BY <3>1, <3>3 DEF Seeking, TryFeed
        <5>2. scan' = [scan EXCEPT ![s] = v]
          BY <1>1, <4>3 DEF CatalogueType
        <5> HIDE DEF v
        <5> QED BY <5>1, <5>2
      <4>4. CASE scan[s].feeds # {}
        <5>1. PICK f \in scan[s].feeds, readable \in BOOLEAN :
                scan' = [scan EXCEPT ![s] =
                           IF readable
                           THEN [at |-> "save", result |-> @.result, feed |-> f,
                                 feeds |-> @.feeds \ {f}]
                           ELSE [scan[s] EXCEPT !.feeds = @ \ {f}]]
          BY <3>3, <4>4 DEF TryFeed
        <5>2. CASE readable
          BY <4>2, <5>1, <5>2
        <5>3. CASE ~readable
          BY <4>3, <5>1, <5>3
        <5> QED BY <5>2, <5>3
      <4> QED BY <3>3, <4>1, <4>4 DEF TryFeed
    <3>4. CASE CompleteSourceDiscovery(s)
      BY <3>4 DEF CompleteSourceDiscovery, NoScan
    <3> QED BY <1>4, <3>2, <3>3, <3>4
  <2>2. /\ scan' \in [Scans -> {NoScan} \cup Reading \cup Seeking \cup Saving]
        /\ \A r \in Scans : scan'[r].at = "search" => r # s /\ scan[r].at = "search"
    BY <1>1, <2>1 DEF CatalogueType
  <2>3. CASE SearchFeeds(s)
    <3>1. /\ scan[s].at = "search" /\ searches = 0 /\ searches' = 1
          /\ UNCHANGED discovery
          /\ \A r \in Scans : scan'[r].at # "search"
      BY <1>1, <2>2, <2>3 DEF SearchFeeds, SearchesPaused
    <3>2. SearchesPaused'
      BY <1>1, <3>1 DEF SearchesPaused
    <3> QED BY <1>1, <1>2, <2>2, <3>1, <3>2 DEF SourcesInv, CatalogueType
  <2>4. CASE TryFeed(s) \/ CompleteSourceDiscovery(s)
    <3>1. /\ UNCHANGED searches
          /\ discovery' \in [status : {"none", "running", "completed", "failed"},
                             pause : Asides]
          /\ discovery.pause # "none" /\ discovery.status # "none" =>
               discovery'.pause # "none" /\ discovery'.status # "none"
      BY <1>1, <2>4 DEF TryFeed, CompleteSourceDiscovery, CatalogueType, Asides
    <3>2. SearchesPaused'
      BY <1>1, <2>2, <3>1 DEF SearchesPaused
    <3> QED BY <1>1, <1>2, <2>2, <3>1, <3>2 DEF SourcesInv, CatalogueType
  <2> QED BY <1>4, <2>3, <2>4
<1> QED BY <1>3, <1>4

(* The admin, and time.                                                     *)
LEMMA CatalogueTimeKeeps ==
  ASSUME SourcesInv,
         (\E f \in Feeds : SetSourceEnabled(f) \/ AsideRunsOut(f)) \/ PauseRunsOut
  PROVE  SourcesInv'
<1>1. CatalogueType /\ SearchesPaused /\ UNCHANGED <<scan, refusals>>
  BY DEF SourcesInv, SetSourceEnabled, AsideRunsOut, PauseRunsOut
<1>2. CASE \E f \in Feeds : SetSourceEnabled(f) \/ AsideRunsOut(f)
  <2>1. PICK f \in Feeds : SetSourceEnabled(f) \/ AsideRunsOut(f)
    BY <1>2
  <2>4. PICK v \in SourceRow :
          /\ source' = [source EXCEPT ![f] = v]
          /\ v.failures = source[f].failures
          /\ v.aside = source[f].aside \/ v.aside = "none"
    <3>1. source[f] \in SourceRow
      BY <1>1 DEF CatalogueType
    <3>2. CASE SetSourceEnabled(f)
      <4> DEFINE v == [source[f] EXCEPT !.enabled = ~@]
      <4>1. v \in SourceRow /\ v.failures = source[f].failures /\ v.aside = source[f].aside
        BY <3>1 DEF SourceRow
      <4>2. source' = [source EXCEPT ![f] = v]
        BY <3>2 DEF SetSourceEnabled
      <4> HIDE DEF v
      <4> QED BY <4>1, <4>2
    <3>3. CASE AsideRunsOut(f)
      <4> DEFINE v == [source[f] EXCEPT !.aside = "none"]
      <4>1. v \in SourceRow /\ v.failures = source[f].failures /\ v.aside = "none"
        BY <3>1 DEF SourceRow, Asides
      <4>2. source' = [source EXCEPT ![f] = v]
        BY <3>3 DEF AsideRunsOut
      <4> HIDE DEF v
      <4> QED BY <4>1, <4>2
    <3> QED BY <2>1, <3>2, <3>3
  <2>2. UNCHANGED <<discovery, searches>>
    BY <1>2 DEF SetSourceEnabled, AsideRunsOut
  <2>3. CatalogueType' /\ FailuresCounted'
    BY <1>1, <2>4, <2>2 DEF SourcesInv, CatalogueType, FailuresCounted
  <2> QED BY <1>1, <2>2, <2>3 DEF SourcesInv, SearchesPaused
<1>3. CASE PauseRunsOut
  <2>1. CatalogueType' /\ FailuresCounted'
    BY <1>1, <1>3 DEF SourcesInv, PauseRunsOut, CatalogueType, FailuresCounted, Asides
  <2> QED BY <1>1, <1>3, <2>1 DEF SourcesInv, PauseRunsOut, SearchesPaused
<1> QED BY <1>2, <1>3

(* The invariant holds at the start.                                        *)
LEMMA SourcesBegin == SourcesInit => SourcesInv
  BY SourcesAssumption DEF SourcesInit, SourcesInv, CatalogueType, FailuresCounted,
    SearchesPaused, NoScan, Asides, SourceRow

(* Every step of a scan, and time, keeps the invariant.                     *)
LEMMA SourcesKeep ==
  ASSUME SourcesInv, [SourcesNext]_sourceVars PROVE SourcesInv'
<1> USE SourcesAssumption
<1>1. CASE UNCHANGED sourceVars
  BY <1>1 DEF sourceVars, SourcesInv, CatalogueType, FailuresCounted, SearchesPaused
<1> QED BY <1>1, ReadingKeeps, MarkingKeeps, SearchingKeeps, CatalogueTimeKeeps
     DEF SourcesNext

(* The invariant gives the promise and the types.                           *)
LEMMA SourcesMeans == SourcesInv => SourcesPromise /\ SourcesTypeOK
<1>1. SourcesInv => SourcesPromise
  BY DEF SourcesInv, FailuresCounted, SearchesPaused, SourcesPromise,
    SearchedOncePerPause, AsideIsEarned
<1>2. SourcesInv => SourcesTypeOK
  BY DEF SourcesInv, CatalogueType, SourcesTypeOK, SourceRow, Reading, Seeking, Saving,
    NoScan
<1> QED BY <1>1, <1>2

(* A source is set aside for three failures in a row and no less, and one   *)
(* search is paid for between two pauses, whichever runs claim, stop half   *)
(* way or complete (SourceAcquisitionGateway).                              *)
THEOREM SourcesPromiseHolds == SourcesSpec => []SourcesPromise
<1>1. SourcesInv /\ [SourcesNext]_sourceVars => SourcesInv'
  BY SourcesKeep
<1> QED BY <1>1, SourcesBegin, SourcesMeans, PTL DEF SourcesSpec

-----------------------------------------------------------------------------
(* The writing of a draft *)

(* Where the evidence stands: it is what the run was given until            *)
(* corroboration ends, and its outcome says what has been added to it.      *)
Grounded ==
  /\ Origin \notin writing.found
  /\ writing.at = "search" => writing.corroboration = "not_run"
  /\ IF writing.corroboration \in {"not_run", "error"}
     THEN evidence = Selected(given)
     ELSE /\ evidence = Corroborated(Enough)
          /\ writing.corroboration = "corroborated" <=> Enough
  /\ writing.corroboration # "not_run" => writing.at \notin {"flags", "plan", "search"}

(* What is not primary may be used, as soon as it is part of the evidence.  *)
Permitted ==
  /\ given # "primary_source" => writing.allow
  /\ writing.corroboration \in {"corroborated", "uncorroborated"} =>
       writing.allow \/ writing.found = {}
  /\ writing.reason # "refused"

(* The mark and the notes follow the evidence into the body.                *)
Marks ==
  /\ writing.at \in {"pass", "save", "saved"} =>
       baseline.version = "baseline" /\ (baseline.marked <=> Unverified)
  /\ writing.at \in {"save", "saved"} =>
       /\ body.marked <=> Unverified
       /\ notes = [version |-> body.version, corroboration |-> writing.corroboration]

DraftInv ==
  /\ given \in Status /\ writing \in Writing /\ baseline \in Body /\ body \in Body
  /\ Grounded /\ Permitted /\ Marks

(* The evidence takes shape.                                                *)
LEMMA EvidenceKeeps ==
  ASSUME DraftInv, PlanFacts \/ SearchFact \/ Corroborate \/ CorroborationFails
                   \/ ResolveFlags
  PROVE  DraftInv'
<1> USE DraftingAssumption
<1>1. /\ writing \in Writing /\ UNCHANGED <<given, baseline, body, notes>>
      /\ given \in Status /\ baseline \in Body /\ body \in Body
      /\ Grounded /\ Permitted /\ writing.at \in {"flags", "plan", "search"}
  BY DEF DraftInv, PlanFacts, SearchFact, Corroborate, CorroborationFails, ResolveFlags,
    Writes
<1>2. writing.corroboration = "not_run" /\ evidence = Selected(given)
  BY <1>1 DEF Grounded, Writing
<1>3. CASE ResolveFlags \/ PlanFacts
  <2> DEFINE Planned ==
        /\ writing' \in Writing /\ writing'.at \in {"plan", "search", "draft", "failed"}
        /\ writing'.found = writing.found /\ writing'.allow = writing.allow
        /\ writing'.corroboration \in {"not_run", "error"}
        /\ writing'.at \in {"plan", "search"} => writing'.corroboration = "not_run"
        /\ writing'.reason \in {writing.reason, "catalog"}
  <2>1. Planned
    <3>1. CASE Onward([at |-> "plan"])
      BY <1>1, <1>2, <3>1 DEF Onward, Writing
    <3>2. CASE Gives("catalog")
      BY <1>1, <1>2, <3>2 DEF Onward, Writing, Gives
    <3>3. ASSUME NEW c \in {"not_run", "error"},
                 Onward([at |-> "draft", corroboration |-> c])
          PROVE  Planned
      BY <1>1, <1>2, <3>3 DEF Onward, Writing
    <3>4. ASSUME NEW n \in 1..MaxRequests, Onward([at |-> "search", requests |-> n])
          PROVE  Planned
      BY <1>1, <1>2, <3>4 DEF Onward, Writing
    <3> QED BY <1>3, <3>1, <3>2, <3>3, <3>4 DEF ResolveFlags, PlanFacts
  <2>2. UNCHANGED evidence
    BY <1>3 DEF ResolveFlags, PlanFacts
  <2> QED BY <1>1, <1>2, <2>1, <2>2 DEF DraftInv, Grounded, Permitted, Marks, Selected
<1>4. CASE SearchFact
  <2>1. PICK s \in Answers({Origin}) :
          Onward([requests |-> writing.requests - 1, searches |-> writing.searches + 1,
                  found |-> writing.found \cup s])
    BY <1>4 DEF SearchFact
  <2>2. s \subseteq Publishers \ {Origin}
    BY <2>1 DEF Answers
  <2>3. /\ writing.requests - 1 \in 0..MaxRequests
        /\ writing.searches + 1 \in 0..MaxSearches
    BY <1>1, <1>4 DEF SearchFact, SearchesOn, Writing
  <2>4. /\ writing' \in Writing /\ writing'.at = "search"
        /\ writing'.found = writing.found \cup s /\ writing'.allow = writing.allow
        /\ writing'.corroboration = "not_run" /\ writing'.reason = writing.reason
    BY <1>1, <1>2, <1>4, <2>1, <2>2, <2>3 DEF Onward, Writing, SearchFact, Writes
  <2> QED BY <1>1, <1>2, <1>4, <2>2, <2>4
       DEF SearchFact, DraftInv, Grounded, Permitted, Marks, Selected
<1>5. CASE Corroborate
  <2>1. /\ writing' \in Writing /\ writing'.at = "draft"
        /\ writing'.found = writing.found
        /\ writing'.allow = (writing.allow \/ writing.found # {})
        /\ writing'.corroboration = IF Enough THEN "corroborated" ELSE "uncorroborated"
        /\ writing'.reason = writing.reason
    BY <1>1, <1>5 DEF Corroborate, Onward, Writing
  <2>2. (Enough' <=> Enough) /\ evidence' = Corroborated(Enough)'
    BY <1>1, <1>5, <2>1 DEF Corroborate, Corroborated, Enough, StrongFound
  <2> QED BY <1>1, <2>1, <2>2 DEF DraftInv, Grounded, Permitted, Marks
<1>6. CASE CorroborationFails
  <2>1. /\ writing' \in Writing /\ writing'.at = "draft" /\ writing'.found = {}
        /\ writing'.allow = writing.allow /\ writing'.corroboration = "error"
        /\ writing'.reason = writing.reason
    BY <1>1, <1>6 DEF CorroborationFails, Onward, Writing
  <2> QED BY <1>1, <1>6, <2>1
       DEF CorroborationFails, DraftInv, Grounded, Permitted, Marks, Selected
<1> QED BY <1>3, <1>4, <1>5, <1>6

(* Evidence that is not primary has been allowed by the time it is used.    *)
LEMMA NothingIsRefused ==
  ASSUME DraftInv, NonPrimary, writing.at = "draft"
  PROVE  writing.allow
<1>1. CASE evidence = Selected(given)
  BY <1>1 DEF DraftInv, Permitted, NonPrimary, Selected
<1>2. CASE /\ evidence = Corroborated(Enough) /\ writing.found = {}
           /\ writing.allow \/ writing.found = {}
  BY <1>2 DEF DraftInv, Permitted, NonPrimary, Corroborated, Cleared
<1> QED BY <1>1, <1>2 DEF DraftInv, Grounded, Permitted, Writing

(* The draft is written from it.                                            *)
LEMMA WritingKeeps ==
  ASSUME DraftInv, GenerateDraft \/ KeepBaseline \/ AskAgain \/ Enrich \/ SaveDraft
  PROVE  DraftInv'
<1> USE DraftingAssumption
<1>1. /\ writing \in Writing /\ UNCHANGED <<given, evidence>>
      /\ given \in Status /\ baseline \in Body /\ body \in Body
      /\ Grounded /\ Permitted /\ Marks /\ writing.at \in {"draft", "pass", "save"}
  BY DEF DraftInv, GenerateDraft, KeepBaseline, AskAgain, Enrich, SaveDraft, Writes
<1>2. (Unverified' <=> Unverified) /\ Unverified \in BOOLEAN
  BY <1>1 DEF Unverified
<1> DEFINE Kept == /\ writing' \in Writing /\ writing'.found = writing.found
                   /\ writing'.corroboration = writing.corroboration
                   /\ writing'.allow = writing.allow /\ writing'.reason # "refused"
                   /\ writing'.at \notin {"flags", "plan", "search"}
                   /\ baseline' \in Body /\ body' \in Body /\ Marks'
<1>3. SUFFICES Kept
  BY <1>1 DEF DraftInv, Grounded, Permitted, Selected, Corroborated, Enough, StrongFound
<1>4. CASE GenerateDraft
  <2>1. ~(NonPrimary /\ ~writing.allow) /\ UNCHANGED body
    BY <1>4, NothingIsRefused DEF GenerateDraft, Writes
  <2>2. CASE \/ Gives("provider") \/ Gives("invalid") \/ Onward([attempts |-> 1])
    <3>1. /\ writing' \in Writing /\ writing'.found = writing.found
          /\ writing'.corroboration = writing.corroboration
          /\ writing'.allow = writing.allow
          /\ writing'.reason \in {writing.reason, "provider", "invalid"}
          /\ writing'.at \in {"draft", "failed"}
      BY <1>1, <1>4, <2>2 DEF GenerateDraft, Writes, Gives, Onward, Writing
    <3>2. UNCHANGED baseline
      BY <1>4, <2>2, <3>1 DEF GenerateDraft, Onward, Gives, Writing
    <3> QED BY <1>1, <2>1, <3>1, <3>2 DEF Marks, Permitted
  <2>3. ASSUME NEW assigned \in BOOLEAN, NEW block \in BOOLEAN,
               Onward([at |-> "pass", assigned |-> assigned, attempts |-> 0]),
               baseline' = [version |-> "baseline", marked |-> Unverified,
                 tags |-> assigned /\ labs.tags = "enabled", block |-> block]
        PROVE  Kept
    <3>1. /\ writing' \in Writing /\ writing'.found = writing.found
          /\ writing'.corroboration = writing.corroboration
          /\ writing'.allow = writing.allow /\ writing'.reason = writing.reason
          /\ writing'.at = "pass"
      BY <1>1, <2>3 DEF Onward, Writing
    <3>2. baseline' \in Body /\ baseline'.version = "baseline"
          /\ baseline'.marked = Unverified
      BY <1>2, <2>3 DEF Body
    <3> QED BY <1>1, <1>2, <2>1, <3>1, <3>2 DEF Marks, Permitted
  <2> QED BY <1>4, <2>1, <2>2, <2>3 DEF GenerateDraft
<1>5. CASE AskAgain
  <2>1. /\ writing' \in Writing /\ writing'.found = writing.found
        /\ writing'.corroboration = writing.corroboration
        /\ writing'.allow = writing.allow /\ writing'.reason = writing.reason
        /\ writing'.at = writing.at
    BY <1>1, <1>5 DEF AskAgain, Onward, Writing
  <2> QED BY <1>1, <1>2, <1>5, <2>1 DEF AskAgain, Marks, Permitted
<1>6. CASE SaveDraft
  <2>1. /\ writing' \in Writing /\ writing'.found = writing.found
        /\ writing'.corroboration = writing.corroboration
        /\ writing'.allow = writing.allow
        /\ writing'.reason \in {writing.reason, "not_saved"}
        /\ writing'.at \in {"saved", "failed"} /\ writing.at = "save"
    BY <1>1, <1>6 DEF SaveDraft, Writes, Gives, Onward, Writing
  <2> QED BY <1>1, <1>2, <1>6, <2>1 DEF SaveDraft, Marks, Permitted
<1>7. ASSUME NEW b \in Body, Ship(b), b.marked <=> Unverified, UNCHANGED baseline,
             writing.at = "pass"
      PROVE  Kept
  <2>1. /\ writing' \in Writing /\ writing'.found = writing.found
        /\ writing'.corroboration = writing.corroboration
        /\ writing'.allow = writing.allow /\ writing'.reason = writing.reason
        /\ writing'.at = "save"
    BY <1>1, <1>7 DEF Ship, Onward, Writing
  <2> QED BY <1>1, <1>2, <1>7, <2>1 DEF Ship, Marks, Permitted
<1>8. CASE KeepBaseline
  <2>1. Stripped(baseline) \in Body /\ Stripped(baseline).marked = baseline.marked
    BY <1>1 DEF Stripped, Body
  <2> QED BY <1>1, <1>7, <1>8, <2>1 DEF KeepBaseline, Writes, Marks
<1>9. CASE Enrich
  <2> DEFINE b == [version |-> "enriched", marked |-> FALSE,
                   tags |-> writing.assigned /\ labs.tags = "enabled", block |-> TRUE]
  <2>1. b \in Body /\ ~b.marked /\ ~Unverified /\ Ship(b)
    BY <1>1, <1>9 DEF Enrich, SkipPass, Body
  <2> HIDE DEF b
  <2> QED BY <1>7, <1>9, <2>1 DEF Enrich, Writes
<1> QED BY <1>4, <1>5, <1>6, <1>8, <1>9

(* The invariant holds at the start.                                        *)
LEMMA DraftBegins == DraftInit => DraftInv
<1> USE DraftingAssumption
<1> SUFFICES ASSUME DraftInit PROVE DraftInv
  OBVIOUS
<1>1. writing \in Writing /\ baseline \in Body /\ body \in Body /\ given \in Status
  BY DEF DraftInit, Writing, Body, NoBody
<1> QED BY <1>1 DEF DraftInit, DraftInv, Grounded, Permitted, Marks

(* Every step of the writing keeps the invariant.                           *)
LEMMA DraftingKeeps ==
  ASSUME DraftInv, [DraftNext]_draftVars PROVE DraftInv'
<1> USE DraftingAssumption
<1>1. CASE UNCHANGED draftVars
  BY <1>1 DEF draftVars, DraftInv, Grounded, Permitted, Marks, Selected, Corroborated,
    Enough, StrongFound, Unverified
<1> QED BY <1>1, EvidenceKeeps, WritingKeeps DEF DraftNext

(* The invariant gives the promise.                                         *)
LEMMA DraftMeans == DraftInv => DraftPromise
<1> USE DraftingAssumption
<1> SUFFICES ASSUME DraftInv PROVE DraftPromise
  OBVIOUS
<1>1. ASSUME writing.at = "saved", given = "unverified_community", ~Unverified
      PROVE  Enough /\ evidence = Corroborated(Enough)
  <2>1. evidence # Selected(given)
    BY <1>1 DEF Unverified, Selected
  <2>2. evidence = Corroborated(Enough)
    BY <2>1 DEF DraftInv, Grounded
  <2> QED BY <1>1, <2>2 DEF Unverified, Corroborated
<1>2. CaveatIsEarned
  <2> SUFFICES ASSUME writing.at = "saved", given = "unverified_community",
                      ~body.marked
               PROVE  Cardinality((DOMAIN evidence \ {Origin}) \cap Strong)
                        >= RequiredPublishers
    BY DEF CaveatIsEarned, Writes
  <2>1. Enough /\ evidence = Corroborated(Enough)
    BY <1>1 DEF DraftInv, Marks
  <2>2. DOMAIN evidence \ {Origin} = writing.found
    BY <2>1 DEF Corroborated, DraftInv, Grounded
  <2> QED BY <2>1, <2>2 DEF Enough, StrongFound
<1>3. NotesAreTrue
  <2>1. ASSUME writing.at = "saved"
        PROVE  notes.version = body.version
               /\ notes.corroboration = writing.corroboration
               /\ (body.marked <=> Unverified)
    BY <2>1 DEF DraftInv, Marks
  <2>2. ASSUME writing.at = "saved", given = "unverified_community",
               writing.corroboration = "uncorroborated"
        PROVE  Unverified
    BY <1>1, <2>2 DEF DraftInv, Grounded
  <2> QED BY <2>1, <2>2 DEF NotesAreTrue, Writes, DraftInv, Grounded
<1> QED BY <1>2, <1>3 DEF DraftPromise, DetailNeverCosts, DraftInv, Permitted

(* A draft is marked as unverified unless enough strong publishers agree,   *)
(* its notes say what is so, and evidence that corroboration added is never *)
(* a reason to refuse it (legacy-editorial-draft.gateway.ts).               *)
THEOREM DraftPromiseHolds == DraftSpec => []DraftPromise
<1>1. DraftInv /\ [DraftNext]_draftVars => DraftInv'
  BY DraftingKeeps
<1> QED BY <1>1, DraftBegins, DraftMeans, PTL DEF DraftSpec

-----------------------------------------------------------------------------
(* The release *)

Whole(b) == b.active = b.env /\ b.role = b.env /\ b.db = b.env

Productions == [active : Envs, db : Envs, role : Envs, image : Images, env : Envs]

(* DeployTypeOK, with every field that the script keeps.                    *)
ReleaseType ==
  /\ envFiles \in [active : Envs, rollback : Envs \cup {Absent}]
  /\ database \in [env : Envs, role : Envs, schema : Nat]
  /\ bot \in [image : Images, env : Envs, up : BOOLEAN, restarted : BOOLEAN,
              by : {"deploy", "rollback"}]
  /\ deployment \in [at : Ended \cup Forward \cup Back, number : 0..MaxDeployments,
                     image : Images, env : Envs, promoted : BOOLEAN, started : BOOLEAN,
                     lost : BOOLEAN, checks : Nat, previous : Images \cup {Absent},
                     before : Productions]
  /\ migrators \in [Numbers -> [at : {"none", "runs", "done", "failed"}, image : Images]]

(* What each command leaves behind it on the way forward.                   *)
Ahead ==
  /\ deployment.at \in {"pull", "db", "role", "migrate", "migrating", "bot", "gate",
                        "verify", "accepted"} => envFiles.active = deployment.env
  /\ deployment.at \in {"role", "migrate", "migrating", "bot", "gate", "verify",
                        "accepted"} => database.env = deployment.env
  /\ deployment.at \in {"migrate", "migrating", "bot", "gate", "verify", "accepted"} =>
       database.role = deployment.env
  /\ deployment.at \in {"gate", "verify", "accepted"} =>
       bot.image = deployment.image /\ bot.env = deployment.env

(* The migrations of every image that runs, that may run next and that a    *)
(* rollback may bring back are applied.                                     *)
Migrated ==
  /\ deployment.at \notin Ended => deployment.number \in Numbers
  /\ deployment.at = "migrating" =>
       migrators[deployment.number].image = deployment.image
  /\ \A n \in Numbers : migrators[n].at = "done" =>
       Needs[migrators[n].image] <= database.schema
  /\ deployment.at \in {"bot", "gate", "verify", "accepted"} =>
       Needs[deployment.image] <= database.schema
  /\ deployment.previous # Absent => Needs[deployment.previous] <= database.schema
  /\ Needs[bot.image] <= database.schema

(* Nothing has changed until the script remembers that it has.              *)
Untouched ==
  /\ deployment.at \in {"save", "untouched"} =>
       ~deployment.promoted /\ ~deployment.started
  /\ deployment.at \in {"db", "role", "migrate", "migrating", "bot", "gate", "verify"} =>
       deployment.started
  /\ deployment.at \in {"restore env", "restore db", "restore role"} =>
       deployment.promoted
  /\ deployment.at = "restore bot" => deployment.promoted \/ deployment.started
  /\ ~deployment.promoted /\ ~deployment.started => Production = deployment.before

(* What a rollback finds of the production before, and has restored of it.  *)
WayBack ==
  LET b == deployment.before
  IN  /\ deployment.previous # Absent => deployment.previous = b.image
      /\ deployment.at = "activate" \/ (deployment.promoted /\ deployment.at \notin Ended) =>
           envFiles.rollback = b.active
      /\ ~deployment.promoted \/ deployment.at \in {"restore db", "restore role", "restore bot"}
           => envFiles.active = b.active
      /\ ~deployment.promoted /\ Whole(b) => database.env = b.db /\ database.role = b.role
      /\ deployment.at = "restore role" => database.env = b.active
      /\ deployment.at = "restore bot" /\ deployment.promoted /\ ~deployment.lost =>
           database.env = b.active /\ database.role = b.active
      /\ deployment.at = "restored" /\ Whole(b) => Production = b

DeployInv == ReleaseType /\ Ahead /\ Migrated /\ Untouched /\ WayBack

(* The backup, and the new environment.                                     *)
LEMMA SavingKeeps ==
  ASSUME DeployInv, SaveRollback \/ SaveFails \/ Activate \/ Pull
  PROVE  DeployInv'
<1> USE DeploymentAssumption
<1>1. ReleaseType /\ Ahead /\ Migrated /\ Untouched /\ WayBack
  BY DEF DeployInv
<1>2. CASE SaveRollback
  <2>1. ReleaseType'
    BY <1>1, <1>2
    DEF SaveRollback, GoesTo, ReleaseType, Ended, Forward, Back, Migrated
  <2>2. Ahead'
    BY <1>1, <1>2
    DEF SaveRollback, GoesTo, ReleaseType, Ahead
  <2>3. Migrated'
    BY <1>1, <1>2
    DEF SaveRollback, GoesTo, ReleaseType, Migrated, Ended, WayBack
  <2>4. Untouched'
    BY <1>1, <1>2
    DEF SaveRollback, GoesTo, ReleaseType, Untouched, Production
  <2>5. WayBack'
    BY <1>1, <1>2
    DEF SaveRollback, GoesTo, ReleaseType, WayBack, Untouched, Ahead, Whole, Ended, Production, Productions
  <2> QED BY <2>1, <2>2, <2>3, <2>4, <2>5 DEF DeployInv
<1>3. CASE SaveFails
  <2>1. ReleaseType'
    BY <1>1, <1>3
    DEF SaveFails, GoesTo, ReleaseType, Ended, Forward, Back, Migrated
  <2>2. Ahead'
    BY <1>1, <1>3
    DEF SaveFails, GoesTo, ReleaseType, Ahead
  <2>3. Migrated'
    BY <1>1, <1>3
    DEF SaveFails, GoesTo, ReleaseType, Migrated, Ended, WayBack
  <2>4. Untouched'
    BY <1>1, <1>3
    DEF SaveFails, GoesTo, ReleaseType, Untouched, Production
  <2>5. WayBack'
    BY <1>1, <1>3
    DEF SaveFails, GoesTo, ReleaseType, WayBack, Untouched, Ahead, Whole, Ended, Production, Productions
  <2> QED BY <2>1, <2>2, <2>3, <2>4, <2>5 DEF DeployInv
<1>4. CASE Activate
  <2>1. ReleaseType'
    BY <1>1, <1>4
    DEF Activate, GoesTo, ReleaseType, Ended, Forward, Back, Migrated
  <2>2. Ahead'
    BY <1>1, <1>4
    DEF Activate, GoesTo, ReleaseType, Ahead
  <2>3. Migrated'
    BY <1>1, <1>4
    DEF Activate, GoesTo, ReleaseType, Migrated, Ended, WayBack
  <2>4. Untouched'
    BY <1>1, <1>4
    DEF Activate, GoesTo, ReleaseType, Untouched, Production
  <2>5. WayBack'
    BY <1>1, <1>4
    DEF Activate, GoesTo, ReleaseType, WayBack, Untouched, Ahead, Whole, Ended, Production, Productions
  <2> QED BY <2>1, <2>2, <2>3, <2>4, <2>5 DEF DeployInv
<1>5. CASE Pull
  <2>1. ReleaseType'
    BY <1>1, <1>5
    DEF Pull, GoesTo, ReleaseType, Ended, Forward, Back, Migrated
  <2>2. Ahead'
    BY <1>1, <1>5
    DEF Pull, GoesTo, ReleaseType, Ahead
  <2>3. Migrated'
    BY <1>1, <1>5
    DEF Pull, GoesTo, ReleaseType, Migrated, Ended, WayBack
  <2>4. Untouched'
    BY <1>1, <1>5
    DEF Pull, GoesTo, ReleaseType, Untouched, Production
  <2>5. WayBack'
    BY <1>1, <1>5
    DEF Pull, GoesTo, ReleaseType, WayBack, Untouched, Ahead, Whole, Ended, Production, Productions
  <2> QED BY <2>1, <2>2, <2>3, <2>4, <2>5 DEF DeployInv
<1> QED BY <1>2, <1>3, <1>4, <1>5

(* The database, its role, its migrations.                                  *)
LEMMA DatabaseKeeps ==
  ASSUME DeployInv, UpDatabase \/ CreateAppRole \/ RunMigrate \/ MigrateReturns
  PROVE  DeployInv'
<1> USE DeploymentAssumption
<1>1. ReleaseType /\ Ahead /\ Migrated /\ Untouched /\ WayBack
  BY DEF DeployInv
<1>2. CASE UpDatabase
  <2>1. ReleaseType'
    BY <1>1, <1>2
    DEF UpDatabase, GoesTo, ReleaseType, Ended, Forward, Back, Migrated
  <2>2. Ahead'
    BY <1>1, <1>2
    DEF UpDatabase, GoesTo, ReleaseType, Ahead
  <2>3. Migrated'
    BY <1>1, <1>2
    DEF UpDatabase, GoesTo, ReleaseType, Migrated, Ended, WayBack
  <2>4. Untouched'
    BY <1>1, <1>2
    DEF UpDatabase, GoesTo, ReleaseType, Untouched, Production
  <2>5. WayBack'
    BY <1>1, <1>2
    DEF UpDatabase, GoesTo, ReleaseType, WayBack, Untouched, Ahead, Whole, Ended, Production, Productions
  <2> QED BY <2>1, <2>2, <2>3, <2>4, <2>5 DEF DeployInv
<1>3. CASE CreateAppRole
  <2>1. ReleaseType'
    BY <1>1, <1>3
    DEF CreateAppRole, GoesTo, ReleaseType, Ended, Forward, Back, Migrated
  <2>2. Ahead'
    BY <1>1, <1>3
    DEF CreateAppRole, GoesTo, ReleaseType, Ahead
  <2>3. Migrated'
    BY <1>1, <1>3
    DEF CreateAppRole, GoesTo, ReleaseType, Migrated, Ended, WayBack
  <2>4. Untouched'
    BY <1>1, <1>3
    DEF CreateAppRole, GoesTo, ReleaseType, Untouched, Production
  <2>5. WayBack'
    BY <1>1, <1>3
    DEF CreateAppRole, GoesTo, ReleaseType, WayBack, Untouched, Ahead, Whole, Ended, Production, Productions
  <2> QED BY <2>1, <2>2, <2>3, <2>4, <2>5 DEF DeployInv
<1>4. CASE RunMigrate
  <2>1. ReleaseType'
    BY <1>1, <1>4
    DEF RunMigrate, GoesTo, ReleaseType, Ended, Forward, Back, Migrated
  <2>2. Ahead'
    BY <1>1, <1>4
    DEF RunMigrate, GoesTo, ReleaseType, Ahead
  <2>3. Migrated'
    BY <1>1, <1>4
    DEF RunMigrate, GoesTo, ReleaseType, Migrated, Ended, WayBack
  <2>4. Untouched'
    BY <1>1, <1>4
    DEF RunMigrate, GoesTo, ReleaseType, Untouched, Production
  <2>5. WayBack'
    BY <1>1, <1>4
    DEF RunMigrate, GoesTo, ReleaseType, WayBack, Untouched, Ahead, Whole, Ended, Production, Productions
  <2> QED BY <2>1, <2>2, <2>3, <2>4, <2>5 DEF DeployInv
<1>5. CASE MigrateReturns
  <2>1. UNCHANGED <<envFiles, database, bot, migrators>>
    BY <1>5 DEF MigrateReturns
  <2>2. CASE migrators[deployment.number].at = "done" /\ GoesTo("migrating", "bot")
    <3>1. ReleaseType'
      BY <1>1, <2>1, <2>2
      DEF GoesTo, ReleaseType, Ended, Forward, Back, Migrated
    <3>2. Ahead'
      BY <1>1, <2>1, <2>2
      DEF GoesTo, ReleaseType, Ahead
    <3>3. Migrated'
      BY <1>1, <2>1, <2>2
      DEF GoesTo, ReleaseType, Migrated, Ended, WayBack
    <3>4. Untouched'
      BY <1>1, <2>1, <2>2
      DEF GoesTo, ReleaseType, Untouched, Production
    <3>5. WayBack'
      BY <1>1, <2>1, <2>2
      DEF GoesTo, ReleaseType, WayBack, Untouched, Ahead, Whole, Ended, Production, Productions
    <3> QED BY <3>1, <3>2, <3>3, <3>4, <3>5 DEF DeployInv
  <2>3. CASE GoesTo("migrating", "failed")
    <3>1. ReleaseType'
      BY <1>1, <2>1, <2>3
      DEF GoesTo, ReleaseType, Ended, Forward, Back, Migrated
    <3>2. Ahead'
      BY <1>1, <2>1, <2>3
      DEF GoesTo, ReleaseType, Ahead
    <3>3. Migrated'
      BY <1>1, <2>1, <2>3
      DEF GoesTo, ReleaseType, Migrated, Ended, WayBack
    <3>4. Untouched'
      BY <1>1, <2>1, <2>3
      DEF GoesTo, ReleaseType, Untouched, Production
    <3>5. WayBack'
      BY <1>1, <2>1, <2>3
      DEF GoesTo, ReleaseType, WayBack, Untouched, Ahead, Whole, Ended, Production, Productions
    <3> QED BY <3>1, <3>2, <3>3, <3>4, <3>5 DEF DeployInv
  <2> QED BY <1>1, <1>5, <2>2, <2>3 DEF MigrateReturns, ReleaseType
<1> QED BY <1>2, <1>3, <1>4, <1>5

(* The bot, and its gate.                                                   *)
LEMMA BotKeeps ==
  ASSUME DeployInv, UpBot \/ GateCheck \/ VerifyRuntime
  PROVE  DeployInv'
<1> USE DeploymentAssumption
<1>1. ReleaseType /\ Ahead /\ Migrated /\ Untouched /\ WayBack
  BY DEF DeployInv
<1>2. CASE UpBot
  <2>1. ReleaseType'
    BY <1>1, <1>2
    DEF UpBot, GoesTo, ReleaseType, Ended, Forward, Back, Migrated, Container
  <2>2. Ahead'
    BY <1>1, <1>2
    DEF UpBot, GoesTo, ReleaseType, Ahead, Container
  <2>3. Migrated'
    BY <1>1, <1>2
    DEF UpBot, GoesTo, ReleaseType, Migrated, Ended, WayBack, Container
  <2>4. Untouched'
    BY <1>1, <1>2
    DEF UpBot, GoesTo, ReleaseType, Untouched, Production, Container
  <2>5. WayBack'
    BY <1>1, <1>2
    DEF UpBot, GoesTo, ReleaseType, WayBack, Untouched, Ahead, Whole, Ended, Production, Productions, Container
  <2> QED BY <2>1, <2>2, <2>3, <2>4, <2>5 DEF DeployInv
<1>3. CASE GateCheck
  <2>1. UNCHANGED <<envFiles, database, bot, migrators>> /\ deployment.at = "gate"
    BY <1>3 DEF GateCheck
  <2>2. PICK c \in Nat, to \in {"gate", "verify", "failed"} :
          deployment' = [deployment EXCEPT !.checks = c, !.at = to]
    <3>1. deployment.checks \in Nat
      BY <1>1 DEF ReleaseType
    <3>2. CASE deployment' = [deployment EXCEPT !.checks = @ + 1,
                 !.at = IF deployment.checks = 2 THEN "verify" ELSE "gate"]
      <4> DEFINE c == deployment.checks + 1
                 to == IF deployment.checks = 2 THEN "verify" ELSE "gate"
      <4>1. c \in Nat /\ to \in {"gate", "verify", "failed"}
        BY <3>1
      <4>2. deployment' = [deployment EXCEPT !.checks = c, !.at = to]
        BY <3>2
      <4> HIDE DEF c, to
      <4> QED BY <4>1, <4>2
    <3>3. CASE deployment' = [deployment EXCEPT !.checks = 0]
      <4>1. deployment' = [deployment EXCEPT !.checks = 0, !.at = "gate"]
        BY <1>1, <2>1, <3>3 DEF ReleaseType
      <4> QED BY <4>1
    <3>4. CASE deployment' = [deployment EXCEPT !.at = "failed"]
      <4>1. deployment' = [deployment EXCEPT !.checks = deployment.checks, !.at = "failed"]
        BY <1>1, <3>4 DEF ReleaseType
      <4> QED BY <3>1, <4>1
    <3> QED BY <1>3, <3>2, <3>3, <3>4 DEF GateCheck
  <2> SUFFICES ReleaseType' /\ Ahead' /\ Migrated' /\ Untouched' /\ WayBack'
    BY DEF DeployInv
  <2>3. ReleaseType'
    BY <1>1, <2>1, <2>2
    DEF ReleaseType, Ended, Forward, Back, Migrated
  <2>4. Ahead'
    BY <1>1, <2>1, <2>2
    DEF ReleaseType, Ahead
  <2>5. Migrated'
    BY <1>1, <2>1, <2>2
    DEF ReleaseType, Migrated, Ended, WayBack
  <2>6. Untouched'
    BY <1>1, <2>1, <2>2
    DEF ReleaseType, Untouched, Production
  <2>7. WayBack'
    BY <1>1, <2>1, <2>2
    DEF ReleaseType, WayBack, Untouched, Ahead, Whole, Ended, Production, Productions
  <2> QED BY <2>3, <2>4, <2>5, <2>6, <2>7
<1>4. CASE VerifyRuntime
  <2>1. UNCHANGED <<envFiles, database, bot, migrators>>
    BY <1>4 DEF VerifyRuntime
  <2>2. CASE GoesTo("verify", "accepted")
    <3>1. ReleaseType'
      BY <1>1, <2>1, <2>2
      DEF GoesTo, ReleaseType, Ended, Forward, Back, Migrated, Container
    <3>2. Ahead'
      BY <1>1, <2>1, <2>2
      DEF GoesTo, ReleaseType, Ahead, Container
    <3>3. Migrated'
      BY <1>1, <2>1, <2>2
      DEF GoesTo, ReleaseType, Migrated, Ended, WayBack, Container
    <3>4. Untouched'
      BY <1>1, <2>1, <2>2
      DEF GoesTo, ReleaseType, Untouched, Production, Container
    <3>5. WayBack'
      BY <1>1, <2>1, <2>2
      DEF GoesTo, ReleaseType, WayBack, Untouched, Ahead, Whole, Ended, Production, Productions, Container
    <3> QED BY <3>1, <3>2, <3>3, <3>4, <3>5 DEF DeployInv
  <2>3. CASE GoesTo("verify", "failed")
    <3>1. ReleaseType'
      BY <1>1, <2>1, <2>3
      DEF GoesTo, ReleaseType, Ended, Forward, Back, Migrated, Container
    <3>2. Ahead'
      BY <1>1, <2>1, <2>3
      DEF GoesTo, ReleaseType, Ahead, Container
    <3>3. Migrated'
      BY <1>1, <2>1, <2>3
      DEF GoesTo, ReleaseType, Migrated, Ended, WayBack, Container
    <3>4. Untouched'
      BY <1>1, <2>1, <2>3
      DEF GoesTo, ReleaseType, Untouched, Production, Container
    <3>5. WayBack'
      BY <1>1, <2>1, <2>3
      DEF GoesTo, ReleaseType, WayBack, Untouched, Ahead, Whole, Ended, Production, Productions, Container
    <3> QED BY <3>1, <3>2, <3>3, <3>4, <3>5 DEF DeployInv
  <2> QED BY <1>1, <1>4, <2>2, <2>3 DEF VerifyRuntime, ReleaseType
<1> QED BY <1>2, <1>3, <1>4

(* The way back.                                                            *)
LEMMA RestoringKeeps ==
  ASSUME DeployInv, Rollback \/ RestoreEnvironment \/ RestoreDatabase \/ RestoreRole \/ RestoreBot
  PROVE  DeployInv'
<1> USE DeploymentAssumption
<1>1. ReleaseType /\ Ahead /\ Migrated /\ Untouched /\ WayBack
  BY DEF DeployInv
<1>2. CASE Rollback
  <2>1. UNCHANGED <<envFiles, database, bot, migrators>>
    BY <1>2 DEF Rollback
  <2>2. CASE RollbackNotNeeded /\ GoesTo("failed", "untouched")
    <3>1. ReleaseType'
      BY <1>1, <2>1, <2>2
      DEF GoesTo, ReleaseType, Ended, Forward, Back, Migrated, Container, RollbackNotNeeded
    <3>2. Ahead'
      BY <1>1, <2>1, <2>2
      DEF GoesTo, ReleaseType, Ahead, Container, RollbackNotNeeded
    <3>3. Migrated'
      BY <1>1, <2>1, <2>2
      DEF GoesTo, ReleaseType, Migrated, Ended, WayBack, Container, RollbackNotNeeded
    <3>4. Untouched'
      BY <1>1, <2>1, <2>2
      DEF GoesTo, ReleaseType, Untouched, Production, Container, RollbackNotNeeded
    <3>5. WayBack'
      BY <1>1, <2>1, <2>2
      DEF GoesTo, ReleaseType, WayBack, Untouched, Ahead, Whole, Ended, Production, Productions, Container, RollbackNotNeeded
    <3> QED BY <3>1, <3>2, <3>3, <3>4, <3>5 DEF DeployInv
  <2>3. CASE deployment.promoted /\ GoesTo("failed", "restore env")
    <3>1. ReleaseType'
      BY <1>1, <2>1, <2>3
      DEF GoesTo, ReleaseType, Ended, Forward, Back, Migrated, Container, RollbackNotNeeded
    <3>2. Ahead'
      BY <1>1, <2>1, <2>3
      DEF GoesTo, ReleaseType, Ahead, Container, RollbackNotNeeded
    <3>3. Migrated'
      BY <1>1, <2>1, <2>3
      DEF GoesTo, ReleaseType, Migrated, Ended, WayBack, Container, RollbackNotNeeded
    <3>4. Untouched'
      BY <1>1, <2>1, <2>3
      DEF GoesTo, ReleaseType, Untouched, Production, Container, RollbackNotNeeded
    <3>5. WayBack'
      BY <1>1, <2>1, <2>3
      DEF GoesTo, ReleaseType, WayBack, Untouched, Ahead, Whole, Ended, Production, Productions, Container, RollbackNotNeeded
    <3> QED BY <3>1, <3>2, <3>3, <3>4, <3>5 DEF DeployInv
  <2>4. CASE /\ ~deployment.promoted /\ deployment.started
           /\ GoesTo("failed", "restore bot")
    <3>1. ReleaseType'
      BY <1>1, <2>1, <2>4
      DEF GoesTo, ReleaseType, Ended, Forward, Back, Migrated, Container, RollbackNotNeeded
    <3>2. Ahead'
      BY <1>1, <2>1, <2>4
      DEF GoesTo, ReleaseType, Ahead, Container, RollbackNotNeeded
    <3>3. Migrated'
      BY <1>1, <2>1, <2>4
      DEF GoesTo, ReleaseType, Migrated, Ended, WayBack, Container, RollbackNotNeeded
    <3>4. Untouched'
      BY <1>1, <2>1, <2>4
      DEF GoesTo, ReleaseType, Untouched, Production, Container, RollbackNotNeeded
    <3>5. WayBack'
      BY <1>1, <2>1, <2>4
      DEF GoesTo, ReleaseType, WayBack, Untouched, Ahead, Whole, Ended, Production, Productions, Container, RollbackNotNeeded
    <3> QED BY <3>1, <3>2, <3>3, <3>4, <3>5 DEF DeployInv
  <2> QED BY <1>1, <1>2, <2>2, <2>3, <2>4 DEF Rollback, ReleaseType
<1>3. CASE RestoreEnvironment
  <2>1. ReleaseType'
    BY <1>1, <1>3
    DEF RestoreEnvironment, GoesTo, ReleaseType, Ended, Forward, Back, Migrated, Container, RollbackNotNeeded
  <2>2. Ahead'
    BY <1>1, <1>3
    DEF RestoreEnvironment, GoesTo, ReleaseType, Ahead, Container, RollbackNotNeeded
  <2>3. Migrated'
    BY <1>1, <1>3
    DEF RestoreEnvironment, GoesTo, ReleaseType, Migrated, Ended, WayBack, Container, RollbackNotNeeded
  <2>4. Untouched'
    BY <1>1, <1>3
    DEF RestoreEnvironment, GoesTo, ReleaseType, Untouched, Production, Container, RollbackNotNeeded
  <2>5. WayBack'
    BY <1>1, <1>3
    DEF RestoreEnvironment, GoesTo, ReleaseType, WayBack, Untouched, Ahead, Whole, Ended, Production, Productions, Container, RollbackNotNeeded
  <2> QED BY <2>1, <2>2, <2>3, <2>4, <2>5 DEF DeployInv
<1>4. CASE RestoreDatabase
  <2>1. ReleaseType'
    BY <1>1, <1>4
    DEF RestoreDatabase, GoesTo, ReleaseType, Ended, Forward, Back, Migrated, Container, RollbackNotNeeded
  <2>2. Ahead'
    BY <1>1, <1>4
    DEF RestoreDatabase, GoesTo, ReleaseType, Ahead, Container, RollbackNotNeeded
  <2>3. Migrated'
    BY <1>1, <1>4
    DEF RestoreDatabase, GoesTo, ReleaseType, Migrated, Ended, WayBack, Container, RollbackNotNeeded
  <2>4. Untouched'
    BY <1>1, <1>4
    DEF RestoreDatabase, GoesTo, ReleaseType, Untouched, Production, Container, RollbackNotNeeded
  <2>5. WayBack'
    BY <1>1, <1>4
    DEF RestoreDatabase, GoesTo, ReleaseType, WayBack, Untouched, Ahead, Whole, Ended, Production, Productions, Container, RollbackNotNeeded
  <2> QED BY <2>1, <2>2, <2>3, <2>4, <2>5 DEF DeployInv
<1>5. CASE RestoreRole
  <2>1. ReleaseType'
    BY <1>1, <1>5
    DEF RestoreRole, GoesTo, ReleaseType, Ended, Forward, Back, Migrated, Container, RollbackNotNeeded
  <2>2. Ahead'
    BY <1>1, <1>5
    DEF RestoreRole, GoesTo, ReleaseType, Ahead, Container, RollbackNotNeeded
  <2>3. Migrated'
    BY <1>1, <1>5
    DEF RestoreRole, GoesTo, ReleaseType, Migrated, Ended, WayBack, Container, RollbackNotNeeded
  <2>4. Untouched'
    BY <1>1, <1>5
    DEF RestoreRole, GoesTo, ReleaseType, Untouched, Production, Container, RollbackNotNeeded
  <2>5. WayBack'
    BY <1>1, <1>5
    DEF RestoreRole, GoesTo, ReleaseType, WayBack, Untouched, Ahead, Whole, Ended, Production, Productions, Container, RollbackNotNeeded
  <2> QED BY <2>1, <2>2, <2>3, <2>4, <2>5 DEF DeployInv
<1>6. CASE RestoreBot
  <2>1. UNCHANGED <<envFiles, database, migrators>> /\ deployment.at = "restore bot"
    BY <1>6 DEF RestoreBot
  <2>2. CASE /\ deployment.previous = Absent
           /\ UNCHANGED bot
           /\ deployment' = [deployment EXCEPT !.at = "broken"]
    <3>1. ReleaseType'
      BY <1>1, <2>1, <2>2
      DEF GoesTo, ReleaseType, Ended, Forward, Back, Migrated, Container, RollbackNotNeeded
    <3>2. Ahead'
      BY <1>1, <2>1, <2>2
      DEF GoesTo, ReleaseType, Ahead, Container, RollbackNotNeeded
    <3>3. Migrated'
      BY <1>1, <2>1, <2>2
      DEF GoesTo, ReleaseType, Migrated, Ended, WayBack, Container, RollbackNotNeeded
    <3>4. Untouched'
      BY <1>1, <2>1, <2>2
      DEF GoesTo, ReleaseType, Untouched, Production, Container, RollbackNotNeeded
    <3>5. WayBack'
      BY <1>1, <2>1, <2>2
      DEF GoesTo, ReleaseType, WayBack, Untouched, Ahead, Whole, Ended, Production, Productions, Container, RollbackNotNeeded
    <3> QED BY <3>1, <3>2, <3>3, <3>4, <3>5 DEF DeployInv
  <2>3. CASE /\ deployment.lost
           /\ bot' = Container(deployment.previous, envFiles.active, "rollback")
           /\ deployment.previous # Absent
           /\ deployment' = [deployment EXCEPT !.at = "broken"]
    <3>1. ReleaseType'
      BY <1>1, <2>1, <2>3
      DEF GoesTo, ReleaseType, Ended, Forward, Back, Migrated, Container, RollbackNotNeeded
    <3>2. Ahead'
      BY <1>1, <2>1, <2>3
      DEF GoesTo, ReleaseType, Ahead, Container, RollbackNotNeeded
    <3>3. Migrated'
      BY <1>1, <2>1, <2>3
      DEF GoesTo, ReleaseType, Migrated, Ended, WayBack, Container, RollbackNotNeeded
    <3>4. Untouched'
      BY <1>1, <2>1, <2>3
      DEF GoesTo, ReleaseType, Untouched, Production, Container, RollbackNotNeeded
    <3>5. WayBack'
      BY <1>1, <2>1, <2>3
      DEF GoesTo, ReleaseType, WayBack, Untouched, Ahead, Whole, Ended, Production, Productions, Container, RollbackNotNeeded
    <3> QED BY <3>1, <3>2, <3>3, <3>4, <3>5 DEF DeployInv
  <2>4. CASE /\ ~deployment.lost
           /\ bot' = Container(deployment.previous, envFiles.active, "rollback")
           /\ deployment.previous # Absent
           /\ deployment' = [deployment EXCEPT !.at = "restored"]
    <3>1. ReleaseType'
      BY <1>1, <2>1, <2>4
      DEF GoesTo, ReleaseType, Ended, Forward, Back, Migrated, Container, RollbackNotNeeded
    <3>2. Ahead'
      BY <1>1, <2>1, <2>4
      DEF GoesTo, ReleaseType, Ahead, Container, RollbackNotNeeded
    <3>3. Migrated'
      BY <1>1, <2>1, <2>4
      DEF GoesTo, ReleaseType, Migrated, Ended, WayBack, Container, RollbackNotNeeded
    <3>4. Untouched'
      BY <1>1, <2>1, <2>4
      DEF GoesTo, ReleaseType, Untouched, Production, Container, RollbackNotNeeded
    <3>5. WayBack'
      BY <1>1, <2>1, <2>4
      DEF GoesTo, ReleaseType, WayBack, Untouched, Ahead, Whole, Ended, Production, Productions, Container, RollbackNotNeeded
    <3> QED BY <3>1, <3>2, <3>3, <3>4, <3>5 DEF DeployInv
  <2> QED BY <1>1, <1>6, <2>2, <2>3, <2>4 DEF RestoreBot, ReleaseType
<1> QED BY <1>2, <1>3, <1>4, <1>5, <1>6

(* What nobody asked for.                                                   *)
LEMMA OutsideKeeps ==
  ASSUME DeployInv, KillDeployment \/ BotDies \/ BotRestarts
  PROVE  DeployInv'
<1> USE DeploymentAssumption
<1>1. ReleaseType /\ Ahead /\ Migrated /\ Untouched /\ WayBack
  BY DEF DeployInv
<1>2. CASE KillDeployment
  <2>1. ReleaseType'
    BY <1>1, <1>2
    DEF KillDeployment, GoesTo, ReleaseType, Ended, Forward, Back, Migrated, DeployFault
  <2>2. Ahead'
    BY <1>1, <1>2
    DEF KillDeployment, GoesTo, ReleaseType, Ahead, DeployFault
  <2>3. Migrated'
    BY <1>1, <1>2
    DEF KillDeployment, GoesTo, ReleaseType, Migrated, Ended, WayBack, DeployFault
  <2>4. Untouched'
    BY <1>1, <1>2
    DEF KillDeployment, GoesTo, ReleaseType, Untouched, Production, DeployFault
  <2>5. WayBack'
    BY <1>1, <1>2
    DEF KillDeployment, GoesTo, ReleaseType, WayBack, Untouched, Ahead, Whole, Ended, Production, Productions, DeployFault
  <2> QED BY <2>1, <2>2, <2>3, <2>4, <2>5 DEF DeployInv
<1>3. CASE BotDies
  <2>1. ReleaseType'
    BY <1>1, <1>3
    DEF BotDies, GoesTo, ReleaseType, Ended, Forward, Back, Migrated, DeployFault
  <2>2. Ahead'
    BY <1>1, <1>3
    DEF BotDies, GoesTo, ReleaseType, Ahead, DeployFault
  <2>3. Migrated'
    BY <1>1, <1>3
    DEF BotDies, GoesTo, ReleaseType, Migrated, Ended, WayBack, DeployFault
  <2>4. Untouched'
    BY <1>1, <1>3
    DEF BotDies, GoesTo, ReleaseType, Untouched, Production, DeployFault
  <2>5. WayBack'
    BY <1>1, <1>3
    DEF BotDies, GoesTo, ReleaseType, WayBack, Untouched, Ahead, Whole, Ended, Production, Productions, DeployFault
  <2> QED BY <2>1, <2>2, <2>3, <2>4, <2>5 DEF DeployInv
<1>4. CASE BotRestarts
  <2>1. ReleaseType'
    BY <1>1, <1>4
    DEF BotRestarts, GoesTo, ReleaseType, Ended, Forward, Back, Migrated, DeployFault
  <2>2. Ahead'
    BY <1>1, <1>4
    DEF BotRestarts, GoesTo, ReleaseType, Ahead, DeployFault
  <2>3. Migrated'
    BY <1>1, <1>4
    DEF BotRestarts, GoesTo, ReleaseType, Migrated, Ended, WayBack, DeployFault
  <2>4. Untouched'
    BY <1>1, <1>4
    DEF BotRestarts, GoesTo, ReleaseType, Untouched, Production, DeployFault
  <2>5. WayBack'
    BY <1>1, <1>4
    DEF BotRestarts, GoesTo, ReleaseType, WayBack, Untouched, Ahead, Whole, Ended, Production, Productions, DeployFault
  <2> QED BY <2>1, <2>2, <2>3, <2>4, <2>5 DEF DeployInv
<1> QED BY <1>2, <1>3, <1>4
(* The next release begins with the production it finds.                    *)
LEMMA BeginKeeps ==
  ASSUME DeployInv, NEW i \in Images, NEW e \in Envs, BeginDeployment(i, e)
  PROVE  DeployInv'
<1> USE DeploymentAssumption
<1>1. ReleaseType /\ Ahead /\ Migrated /\ Untouched /\ WayBack
  BY DEF DeployInv
<1>2. /\ UNCHANGED <<envFiles, database, bot, migrators>>
      /\ Production' = Production /\ Production \in Productions
  BY <1>1 DEF BeginDeployment, Production, Productions, ReleaseType
<1>3. PICK at \in {"pull", "save"}, previous \in {bot.image, Absent} :
        /\ deployment' =
             [at |-> at, number |-> deployment.number + 1, image |-> i, env |-> e,
              promoted |-> FALSE, started |-> FALSE, lost |-> FALSE, checks |-> 0,
              previous |-> previous, before |-> Production]
        /\ at = "pull" => e = envFiles.active
  BY DEF BeginDeployment
<1>4. deployment.number + 1 \in Numbers /\ deployment.number + 1 \in 0..MaxDeployments
  BY <1>1 DEF BeginDeployment, ReleaseType, Numbers
<1>5. ReleaseType'
  BY <1>1, <1>2, <1>3, <1>4 DEF ReleaseType, Ended, Forward, Back
<1>6. Ahead'
  BY <1>2, <1>3 DEF Ahead
<1>7. Migrated'
  BY <1>1, <1>2, <1>3, <1>4 DEF Migrated, ReleaseType
<1>8. Untouched'
  BY <1>2, <1>3 DEF Untouched
<1>9. WayBack'
  BY <1>1, <1>2, <1>3 DEF WayBack, Production, Whole, ReleaseType
<1> QED BY <1>5, <1>6, <1>7, <1>8, <1>9 DEF DeployInv

(* A command fails on the way forward.                                      *)
LEMMA CommandFailsKeeps ==
  ASSUME DeployInv, CommandFails
  PROVE  DeployInv'
<1> USE DeploymentAssumption
<1>1. ReleaseType /\ Ahead /\ Migrated /\ Untouched /\ WayBack
  BY DEF DeployInv
<1>2. /\ UNCHANGED <<envFiles, migrators>>
      /\ deployment.at \in {"activate", "pull", "db", "role", "bot"}
      /\ deployment' = [deployment EXCEPT !.at = "failed"]
  BY DEF CommandFails, GoesTo
<1>3. /\ database' \in [env : Envs, role : Envs, schema : Nat]
      /\ database'.schema = database.schema
      /\ database'.env \in {database.env, envFiles.active}
      /\ database'.role \in {database.role, database.env}
      /\ deployment.at \notin {"db", "role"} => database' = database
      /\ database'.role # database.role => deployment.at = "role"
  BY <1>1 DEF CommandFails, ReleaseType
<1>4. /\ bot' \in [image : Images, env : Envs, up : BOOLEAN, restarted : BOOLEAN,
                   by : {"deploy", "rollback"}]
      /\ bot'.image \in {bot.image, deployment.image}
      /\ deployment.at # "bot" => bot' = bot
  <2>1. CASE deployment.at = "bot" /\ bot' = Container(deployment.image, envFiles.active, "deploy")
    BY <1>1, <2>1 DEF ReleaseType, Container
  <2>2. CASE deployment.at = "bot" /\ bot' = [bot EXCEPT !.up = FALSE]
    BY <1>1, <2>2 DEF ReleaseType
  <2>3. CASE UNCHANGED bot
    BY <1>1, <2>3 DEF ReleaseType
  <2> QED BY <2>1, <2>2, <2>3 DEF CommandFails
<1>5. ReleaseType'
  BY <1>1, <1>2, <1>3, <1>4 DEF ReleaseType, Back
<1>6. Ahead'
  BY <1>1, <1>2 DEF Ahead, ReleaseType
<1>7. Migrated'
  BY <1>1, <1>2, <1>3, <1>4 DEF Migrated, ReleaseType, Ended
<1>8. Untouched'
  BY <1>1, <1>2, <1>3, <1>4 DEF Untouched, Production, ReleaseType
<1>9. WayBack'
  <2>1. deployment'.at = "failed" /\ deployment'.promoted = deployment.promoted
        /\ deployment'.before = deployment.before
        /\ deployment'.previous = deployment.previous
    BY <1>1, <1>2 DEF ReleaseType
  <2>2. ~deployment.promoted /\ Whole(deployment.before) =>
          /\ database'.env = deployment.before.db
          /\ database'.role = deployment.before.role
    BY <1>1, <1>3 DEF WayBack, Whole
  <2> QED BY <1>1, <1>2, <2>1, <2>2 DEF WayBack, Ended, Whole
<1> QED BY <1>5, <1>6, <1>7, <1>8, <1>9 DEF DeployInv

(* A command of the way back fails.                                         *)
LEMMA RestoreFailsKeeps ==
  ASSUME DeployInv, RestoreFails
  PROVE  DeployInv'
<1> USE DeploymentAssumption
<1>1. ReleaseType /\ Ahead /\ Migrated /\ Untouched /\ WayBack
  BY DEF DeployInv
<1>2. UNCHANGED <<envFiles, migrators>>
  BY DEF RestoreFails
<1>3. CASE /\ deployment.at \in {"restore env", "restore bot"}
           /\ deployment' = [deployment EXCEPT !.at = "broken"]
           /\ bot' \in {bot, [bot EXCEPT !.up = FALSE]} /\ UNCHANGED database
  <2>1. bot'.image = bot.image /\ bot'.env = bot.env
        /\ bot' \in [image : Images, env : Envs, up : BOOLEAN, restarted : BOOLEAN,
                     by : {"deploy", "rollback"}]
    <3>1. CASE bot' = [bot EXCEPT !.up = FALSE]
      BY <1>1, <3>1 DEF ReleaseType
    <3>2. CASE bot' = bot
      BY <1>1, <3>2 DEF ReleaseType
    <3> QED BY <1>3, <3>1, <3>2
  <2>2. ReleaseType' /\ Ahead'
    BY <1>1, <1>2, <1>3, <2>1 DEF ReleaseType, Ended, Ahead
  <2>3. Migrated' /\ Untouched'
    BY <1>1, <1>2, <1>3, <2>1 DEF Migrated, Untouched, Production, ReleaseType, Ended
  <2>4. WayBack'
    BY <1>1, <1>2, <1>3 DEF WayBack, ReleaseType, Ended, Back
  <2> QED BY <2>2, <2>3, <2>4 DEF DeployInv
<1>4. CASE /\ deployment.at \in {"restore db", "restore role"}
           /\ database' \in {database, [database EXCEPT !.env = envFiles.active],
                             [database EXCEPT !.role = database.env]}
           /\ deployment' = [deployment EXCEPT !.at = "restore bot", !.lost = TRUE]
           /\ UNCHANGED bot
  <2>1. database' \in [env : Envs, role : Envs, schema : Nat]
        /\ database'.schema = database.schema
    <3>1. CASE database' = database
      BY <1>1, <3>1 DEF ReleaseType
    <3>2. CASE database' = [database EXCEPT !.env = envFiles.active]
      BY <1>1, <3>2 DEF ReleaseType
    <3>3. CASE database' = [database EXCEPT !.role = database.env]
      BY <1>1, <3>3 DEF ReleaseType
    <3> QED BY <1>4, <3>1, <3>2, <3>3
  <2>2. ReleaseType' /\ Ahead'
    BY <1>1, <1>2, <1>4, <2>1 DEF ReleaseType, Back, Ahead
  <2>3. Migrated' /\ Untouched'
    BY <1>1, <1>2, <1>4, <2>1 DEF Migrated, Untouched, ReleaseType, Ended
  <2>4. WayBack'
    BY <1>1, <1>2, <1>4 DEF WayBack, Untouched, ReleaseType, Ended
  <2> QED BY <2>2, <2>3, <2>4 DEF DeployInv
<1> QED BY <1>3, <1>4 DEF RestoreFails, GoesTo

(* The migrators go on, whatever becomes of the script.                     *)
LEMMA MigratorsKeep ==
  ASSUME DeployInv, NEW n \in Numbers,
         TakeMigrationLock(n) \/ ApplyMigration(n) \/ MigrationsApplied(n)
         \/ MigrationFails(n)
  PROVE  DeployInv'
<1> USE DeploymentAssumption
<1>1. ReleaseType /\ Ahead /\ Migrated /\ Untouched /\ WayBack
  BY DEF DeployInv
<1>2. /\ UNCHANGED <<envFiles, bot, deployment>>
      /\ database' \in [env : Envs, role : Envs, schema : Nat]
      /\ database'.env = database.env /\ database'.role = database.role
      /\ database.schema \in Nat /\ database'.schema >= database.schema
  BY <1>1 DEF TakeMigrationLock, ApplyMigration, MigrationsApplied, MigrationFails,
    EndMigrator, ReleaseType
<1>3. PICK at \in {"none", "runs", "done", "failed"} :
        /\ migrators' = [migrators EXCEPT ![n].at = at]
        /\ at = "done" => Needs[migrators[n].image] <= database.schema
  <2>1. CASE TakeMigrationLock(n) \/ ApplyMigration(n)
    <3>1. migrators' = [migrators EXCEPT ![n].at = migrators[n].at]
      BY <1>1, <2>1 DEF TakeMigrationLock, ApplyMigration, ReleaseType
    <3> QED BY <1>1, <3>1 DEF ReleaseType, Migrated
  <2>2. CASE MigrationsApplied(n)
    BY <1>1, <2>2 DEF MigrationsApplied, EndMigrator, ReleaseType
  <2>3. CASE MigrationFails(n)
    BY <2>3 DEF MigrationFails, EndMigrator
  <2> QED BY <2>1, <2>2, <2>3
<1>4. /\ migrators' \in [Numbers -> [at : {"none", "runs", "done", "failed"}, image : Images]]
      /\ \A m \in Numbers : migrators'[m].image = migrators[m].image
      /\ \A m \in Numbers : migrators'[m].at = "done" =>
           Needs[migrators[m].image] <= database.schema
  BY <1>1, <1>3 DEF ReleaseType, Migrated
<1>5. \A i \in Images : Needs[i] <= database.schema => Needs[i] <= database'.schema
  BY <1>2 DEF ReleaseType
<1>6. ReleaseType' /\ Ahead'
  BY <1>1, <1>2, <1>4 DEF ReleaseType, Ahead
<1>7. Migrated'
  <2>1. /\ deployment.image \in Images /\ bot.image \in Images
        /\ deployment.previous # Absent => deployment.previous \in Images
        /\ \A m \in Numbers : migrators[m].image \in Images
    BY <1>1 DEF ReleaseType
  <2> QED BY <1>1, <1>2, <1>4, <1>5, <2>1 DEF Migrated, Ended
<1>8. Untouched' /\ WayBack'
  BY <1>1, <1>2 DEF Untouched, WayBack, Production, Whole
<1> QED BY <1>6, <1>7, <1>8 DEF DeployInv

(* The invariant holds at the start.                                        *)
LEMMA DeploymentBegins == DeployInit => DeployInv
<1> USE DeploymentAssumption
<1> SUFFICES ASSUME DeployInit PROVE DeployInv
  OBVIOUS
<1>1. PICK i \in Images, e \in Envs :
        /\ envFiles = [active |-> e, rollback |-> Absent]
        /\ database = [env |-> e, role |-> e, schema |-> Needs[i]]
        /\ bot = [image |-> i, env |-> e, up |-> TRUE, restarted |-> FALSE,
                  by |-> "deploy"]
        /\ deployment = [at |-> "idle", number |-> 0, image |-> i, env |-> e,
                         promoted |-> FALSE, started |-> FALSE, lost |-> FALSE,
                         checks |-> 0, previous |-> i, before |-> Production]
        /\ migrators = [n \in Numbers |-> [at |-> "none", image |-> i]]
  BY DEF DeployInit
<1>2. Production = [active |-> e, db |-> e, role |-> e, image |-> i, env |-> e]
  BY <1>1 DEF Production
<1>3. ReleaseType
  BY <1>1, <1>2 DEF ReleaseType, Productions, Ended
<1>4. Ahead /\ Migrated
  BY <1>1 DEF Ahead, Migrated, Ended
<1>5. Untouched /\ WayBack
  BY <1>1, <1>2 DEF Untouched, WayBack, Ended
<1> QED BY <1>3, <1>4, <1>5 DEF DeployInv

(* Every command, its failure, and what happens around a release keep the   *)
(* invariant.                                                               *)
LEMMA DeploymentKeeps ==
  ASSUME DeployInv, [DeployNext]_deployVars PROVE DeployInv'
<1> USE DeploymentAssumption
<1>1. CASE UNCHANGED deployVars
  <2>1. ReleaseType' /\ Ahead' /\ Migrated'
    BY <1>1 DEF deployVars, DeployInv, ReleaseType, Ahead, Migrated
  <2>2. Untouched' /\ WayBack'
    BY <1>1 DEF deployVars, DeployInv, Untouched, WayBack, Production
  <2> QED BY <2>1, <2>2 DEF DeployInv
<1>2. ASSUME NEW i \in Images, NEW e \in Envs, BeginDeployment(i, e) PROVE DeployInv'
  BY <1>2, BeginKeeps
<1>3. CASE \/ SaveRollback \/ SaveFails \/ Activate \/ Pull
           \/ UpDatabase \/ CreateAppRole \/ RunMigrate \/ MigrateReturns
  BY <1>3, SavingKeeps, DatabaseKeeps
<1>4. CASE UpBot \/ GateCheck \/ VerifyRuntime \/ CommandFails
  BY <1>4, BotKeeps, CommandFailsKeeps
<1>5. CASE \/ Rollback \/ RestoreEnvironment \/ RestoreDatabase \/ RestoreRole
           \/ RestoreBot \/ RestoreFails
  BY <1>5, RestoringKeeps, RestoreFailsKeeps
<1>6. CASE KillDeployment \/ BotDies \/ BotRestarts
  BY <1>6, OutsideKeeps
<1>7. ASSUME NEW n \in Numbers,
             TakeMigrationLock(n) \/ ApplyMigration(n) \/ MigrationsApplied(n)
             \/ MigrationFails(n)
      PROVE  DeployInv'
  BY <1>7, MigratorsKeep
<1> QED BY <1>1, <1>2, <1>3, <1>4, <1>5, <1>6, <1>7 DEF DeployNext

(* The invariant gives the promise.                                         *)
LEMMA DeploymentMeans == DeployInv => DeploymentPromise
<1> USE DeploymentAssumption
<1> SUFFICES ASSUME DeployInv PROVE DeploymentPromise
  OBVIOUS
<1>1. AcceptedIsWhole
  BY DEF DeployInv, Ahead, Migrated, ReleaseType, AcceptedIsWhole, Production
<1>2. UntouchedIsAsBefore /\ RestoredIsAsBefore
  BY DEF DeployInv, Untouched, WayBack, Whole, UntouchedIsAsBefore, RestoredIsAsBefore
<1>3. SchemaComesFirst /\ BackupIsOfThisDeployment
  BY DEF DeployInv, Migrated, WayBack, SchemaComesFirst, BackupIsOfThisDeployment
<1> QED BY <1>1, <1>2, <1>3 DEF DeploymentPromise

(* A release is accepted whole, or is said to have changed nothing or to be *)
(* rolled back when that is so, and no image ever runs ahead of the schema, *)
(* whichever commands fail and whenever the script is killed (deploy.sh).   *)
THEOREM DeploymentPromiseHolds == DeploySpec => []DeploymentPromise
<1>1. DeployInv /\ [DeployNext]_deployVars => DeployInv'
  BY DeploymentKeeps
<1> QED BY <1>1, DeploymentBegins, DeploymentMeans, PTL DEF DeploySpec

-----------------------------------------------------------------------------
(* The Notion outbox *)

(* A drain that is about to complete a row has seen Notion take its page.   *)
(* Nothing is said of the batch: the proof needs no bound on its rows.      *)
DrainRecord(s) ==
  s \in [at : {"idle", "deliver", "complete", "retry", "dead"}, batch : {s.batch},
         abort : BOOLEAN]

DeliveredInv ==
  /\ row \in [Runs -> {"none", "waiting", "claimed", "completed"}]
  /\ drain = [d \in Drains |-> drain[d]] /\ \A d \in Drains : DrainRecord(drain[d])
  /\ \A d \in Drains : drain[d].at = "complete" => Page(d) \in final
  /\ \A p \in Runs : row[p] = "completed" => p \in final

(* A step of a drain, and of the runs and their claims.                     *)
LEMMA OutboxKeeps ==
  ASSUME DeliveredInv, OutboxNext
  PROVE  /\ DeliveredInv' /\ final \subseteq final'
         /\ \A p \in Runs : row[p] = "completed" => row'[p] = "completed"
<1> DEFINE Kept == /\ DeliveredInv' /\ final \subseteq final'
                   /\ \A p \in Runs : row[p] = "completed" => row'[p] = "completed"
<1> SUFFICES Kept
  OBVIOUS
<1>1. ASSUME NEW p \in Runs, FinishRun(p) \/ ClaimExpires(p) PROVE Kept
  BY <1>1 DEF DeliveredInv, FinishRun, ClaimExpires, Page
<1>2. ASSUME NEW d \in Drains, NEW s, DrainRecord(s), s.at # "complete",
             drain' = [drain EXCEPT ![d] = s],
             row' \in [Runs -> {"none", "waiting", "claimed", "completed"}],
             \A p \in Runs : row'[p] = "completed" <=> row[p] = "completed",
             UNCHANGED final
      PROVE  Kept
  BY <1>2 DEF DeliveredInv, Page
<1>3. ASSUME NEW d \in Drains, ClaimNotionAuditBackfill(d) PROVE Kept
  <2>1. PICK taken \in SUBSET {p \in Runs : row[p] = "waiting"} :
        \E batch \in SetToSeqs(taken) :
          /\ row' = [p \in Runs |-> IF p \in taken THEN "claimed" ELSE row[p]]
          /\ drain' = [drain EXCEPT ![d] = [Off EXCEPT !.at = "deliver", !.batch = batch]]
    BY <1>3 DEF ClaimNotionAuditBackfill
  <2>2. PICK batch : drain' = [drain EXCEPT ![d] =
                                 [Off EXCEPT !.at = "deliver", !.batch = batch]]
    BY <2>1
  <2> DEFINE s == [Off EXCEPT !.at = "deliver", !.batch = batch]
  <2>3. DrainRecord(s) /\ s.at # "complete" /\ drain' = [drain EXCEPT ![d] = s]
    BY <2>2 DEF DrainRecord, Off
  <2> HIDE DEF s
  <2>4. row' \in [Runs -> {"none", "waiting", "claimed", "completed"}]
        /\ \A p \in Runs : row'[p] = "completed" <=> row[p] = "completed"
    BY <2>1 DEF DeliveredInv
  <2> QED BY <1>2, <1>3, <2>3, <2>4 DEF ClaimNotionAuditBackfill
<1>4. ASSUME NEW d \in Drains, DeliverRow(d) PROVE Kept
  <2>1. PICK at \in {"complete", "retry"} :
          /\ drain' = [drain EXCEPT ![d].at = at] /\ UNCHANGED row
          /\ final \subseteq final' /\ (at = "complete" => Page(d) \in final')
    BY <1>4 DEF DeliverRow
  <2>2. \A e \in Drains : Page(e)' = Page(e)
    BY <2>1 DEF DeliveredInv, Page, DrainRecord
  <2> QED BY <2>1, <2>2 DEF DeliveredInv, DrainRecord
<1>5. ASSUME NEW d \in Drains, NEW stop, drain[d].at # "complete" \/ Page(d) \in final,
             NextRow(d, stop)
      PROVE  \E s : DrainRecord(s) /\ s.at # "complete" /\ drain' = [drain EXCEPT ![d] = s]
  <2> DEFINE t == [drain[d] EXCEPT !.at = "deliver", !.batch = Tail(@)]
  <2>1. DrainRecord(Off) /\ Off.at # "complete"
    BY DEF DrainRecord, Off
  <2>2. DrainRecord(t) /\ t.at # "complete"
    BY DEF DeliveredInv, DrainRecord
  <2>3. drain' = [drain EXCEPT ![d] = Off] \/ drain' = [drain EXCEPT ![d] = t]
    BY <1>5 DEF NextRow
  <2> HIDE DEF t
  <2> QED BY <2>1, <2>2, <2>3
<1>6. ASSUME NEW d \in Drains, CompleteNotionAuditBackfill(d) PROVE Kept
  <2>1. \E s : DrainRecord(s) /\ s.at # "complete" /\ drain' = [drain EXCEPT ![d] = s]
    <3>1. CASE NextRow(d, FALSE)
      BY <1>5, <1>6, <3>1 DEF CompleteNotionAuditBackfill, DeliveredInv
    <3>2. CASE drain' = [drain EXCEPT ![d].at = "retry"]
      <4> DEFINE t == [drain[d] EXCEPT !.at = "retry"]
      <4>1. DrainRecord(t) /\ t.at # "complete" /\ drain' = [drain EXCEPT ![d] = t]
        BY <3>2 DEF DeliveredInv, DrainRecord
      <4> HIDE DEF t
      <4> QED BY <4>1
    <3> QED BY <1>6, <3>1, <3>2 DEF CompleteNotionAuditBackfill
  <2>2. PICK s : DrainRecord(s) /\ s.at # "complete" /\ drain' = [drain EXCEPT ![d] = s]
    BY <2>1
  <2>3. row' \in {row, IfClaimed(d, "completed")} /\ UNCHANGED final /\ Page(d) \in final
    BY <1>6 DEF CompleteNotionAuditBackfill, DeliveredInv
  <2>4. \/ /\ row' \in [Runs -> {"none", "waiting", "claimed", "completed"}]
           /\ \A p \in Runs : row'[p] = "completed" <=> row[p] = "completed" \/ p = Page(d)
        \/ UNCHANGED row
    BY <2>3 DEF IfClaimed, DeliveredInv
  <2> QED BY <2>2, <2>3, <2>4 DEF DeliveredInv, Page
<1>7. ASSUME NEW d \in Drains, RetryNotionAuditBackfill(d) PROVE Kept
  <2>1. PICK stop : NextRow(d, stop)
    BY <1>7 DEF RetryNotionAuditBackfill
  <2>2. drain[d].at = "retry" /\ row' \in {row, IfClaimed(d, "waiting")} /\ UNCHANGED final
    BY <1>7 DEF RetryNotionAuditBackfill
  <2>3. PICK s : DrainRecord(s) /\ s.at # "complete" /\ drain' = [drain EXCEPT ![d] = s]
    BY <1>5, <2>1, <2>2
  <2>4. row' \in [Runs -> {"none", "waiting", "claimed", "completed"}]
        /\ \A p \in Runs : row'[p] = "completed" <=> row[p] = "completed"
    BY <2>2 DEF IfClaimed, DeliveredInv
  <2> QED BY <1>2, <2>2, <2>3, <2>4
<1>8. ASSUME NEW d \in Drains, DrainRestarts(d) PROVE Kept
  <2>1. DrainRecord(Off) /\ Off.at # "complete"
    BY DEF DrainRecord, Off
  <2> QED BY <1>2, <1>8, <2>1 DEF DrainRestarts, DeliveredInv
<1>9. ASSUME NEW d \in Drains, AbortDrain(d) \/ DrainDies(d) PROVE Kept
  <2>1. \A e \in Drains : Page(e)' = Page(e) /\ DrainRecord(drain'[e])
                          /\ (drain'[e].at = "complete" => drain[e].at = "complete")
    <3>1. \A e \in Drains : drain'[e].batch = drain[e].batch /\ DrainRecord(drain'[e])
                            /\ (drain'[e].at = "complete" => drain[e].at = "complete")
      <4>1. CASE drain' = [drain EXCEPT ![d].abort = TRUE]
        BY <4>1 DEF DeliveredInv, DrainRecord
      <4>2. CASE drain' = [drain EXCEPT ![d].at = "dead"]
        BY <4>2 DEF DeliveredInv, DrainRecord
      <4> QED BY <1>9, <4>1, <4>2 DEF AbortDrain, DrainDies
    <3> QED BY <3>1 DEF Page
  <2> QED BY <1>9, <2>1 DEF AbortDrain, DrainDies, DeliveredInv
<1> QED BY <1>1, <1>3, <1>4, <1>6, <1>7, <1>8, <1>9 DEF OutboxNext, DrainStep

(* Nothing is delivered at the start.                                       *)
LEMMA DeliveredBegins == OutboxInit => DeliveredInv
BY DEF OutboxInit, DeliveredInv, Off, DrainRecord

(* Every step of a drain keeps that what is completed was delivered, and    *)
(* completed.                                                               *)
LEMMA DeliveredKeeps ==
  DeliveredInv /\ [OutboxNext]_outboxVars =>
    /\ DeliveredInv'
    /\ [\A p \in Runs : row[p] = "completed" =>
          row'[p] = "completed" /\ p \in final]_outboxVars
<1>1. DeliveredInv /\ UNCHANGED outboxVars => DeliveredInv'
  BY DEF DeliveredInv, outboxVars, Page
<1>2. DeliveredInv /\ [OutboxNext]_outboxVars =>
        [\A p \in Runs : row[p] = "completed" =>
           row'[p] = "completed" /\ p \in final]_outboxVars
  BY OutboxKeeps DEF DeliveredInv
<1> QED BY <1>1, <1>2, OutboxKeeps

(* A completed row is a page that Notion shows as finished and is not       *)
(* opened again, by no drain that overran its claim either                  *)
(* (notion-audit-delivery.service.ts).                                      *)
THEOREM CompletedIsFinalHolds == OutboxSpec => CompletedIsFinal
<1>1. OutboxInit => DeliveredInv
  BY DEF OutboxInit, DeliveredInv, Off, DrainRecord
<1>2. DeliveredInv /\ [OutboxNext]_outboxVars => DeliveredInv'
  <2>1. DeliveredInv /\ UNCHANGED outboxVars => DeliveredInv'
    BY DEF DeliveredInv, outboxVars, Page
  <2> QED BY <2>1, OutboxKeeps
<1>3. DeliveredInv /\ [OutboxNext]_outboxVars =>
        [\A p \in Runs : row[p] = "completed" =>
           row'[p] = "completed" /\ p \in final]_outboxVars
  BY OutboxKeeps DEF DeliveredInv
<1> QED BY <1>1, <1>2, <1>3, PTL DEF OutboxSpec, CompletedIsFinal

-----------------------------------------------------------------------------
(* The rest of the types *)

(* What else the types say: the flags are read once, the notes say what was *)
(* shipped.                                                                 *)
NotesInv ==
  /\ labs \in [tags : LabState, pass : LabState]
  /\ notes \in [version : {"none", "baseline", "enriched"},
                corroboration : {"none", "not_run", "corroborated",
                                 "uncorroborated", "error"}]

(* No step writes a note that is none.                                      *)
LEMMA NotesKeep ==
  ASSUME DraftInv, NotesInv, [DraftNext]_draftVars PROVE NotesInv'
<1>1. labs' = labs
  BY DEF DraftNext, draftVars, ResolveFlags, PlanFacts, SearchFact, Corroborate,
         CorroborationFails, GenerateDraft, KeepBaseline, AskAgain, Enrich, SaveDraft
<1>2. \/ UNCHANGED notes
      \/ \E b \in Body : notes' = [version |-> b.version,
                                   corroboration |-> writing.corroboration]
  <2>1. CASE KeepBaseline
    <3>1. Stripped(baseline) \in Body
      BY DEF DraftInv, Stripped, Body
    <3> QED BY <2>1, <3>1 DEF KeepBaseline, Ship
  <2>2. CASE Enrich
    <3> DEFINE b == [version |-> "enriched", marked |-> FALSE,
                     tags |-> writing.assigned /\ labs.tags = "enabled", block |-> TRUE]
    <3>1. writing.assigned \in BOOLEAN
      BY DEF DraftInv, Writing
    <3>2. b \in Body
      BY <3>1 DEF Body
    <3>3. Ship(b)
      BY <2>2 DEF Enrich
    <3> HIDE DEF b
    <3> QED BY <3>2, <3>3 DEF Ship
  <2>3. CASE \/ UNCHANGED draftVars \/ ResolveFlags \/ PlanFacts \/ SearchFact
             \/ Corroborate \/ CorroborationFails \/ GenerateDraft \/ AskAgain \/ SaveDraft
    BY <2>3 DEF draftVars, ResolveFlags, PlanFacts, SearchFact, Corroborate,
         CorroborationFails, GenerateDraft, AskAgain, SaveDraft
  <2> QED BY <2>1, <2>2, <2>3 DEF DraftNext
<1>3. writing.corroboration \in {"not_run", "corroborated", "uncorroborated", "error"}
  BY DEF DraftInv, Writing
<1> QED BY <1>1, <1>2, <1>3 DEF NotesInv, Body

(* The two invariants give the types.                                       *)
LEMMA DraftIsTyped == DraftInv /\ NotesInv => DraftTypeOK
<1> SUFFICES ASSUME DraftInv, NotesInv PROVE DraftTypeOK
  OBVIOUS
<1>1. DOMAIN evidence \subseteq Publishers /\ \A p \in DOMAIN evidence : evidence[p] \in Status
  <2>1. writing.found \subseteq Publishers /\ given \in Status /\ Origin \in Publishers
    BY DraftingAssumption DEF DraftInv, Writing
  <2>2. CASE evidence = Selected(given)
    BY <2>1, <2>2 DEF Selected
  <2>3. CASE evidence = Corroborated(Enough)
    BY <2>1, <2>3 DEF Corroborated, Cleared, Status
  <2> QED BY <2>2, <2>3 DEF DraftInv, Grounded
<1> QED BY <1>1 DEF DraftInv, NotesInv, DraftTypeOK

(* The gate counts to three, the lock is a migrator's that runs.            *)
GateInv ==
  /\ deployment.checks \in 0..3 /\ (deployment.at = "gate" => deployment.checks \in 0..2)
  /\ deployment.at \in Forward \ {"gate", "verify"} => deployment.checks = 0
  /\ lockedBy \in {0} \cup {n \in Numbers : migrators[n].at = "runs"}
  /\ deployFaults \in 0..MaxDeployFaults

(* The gate starts from none and ends at three; the lock is taken by a      *)
(* migrator that runs and is let go with it.                                *)
LEMMA GateKeeps ==
  ASSUME DeployInv, GateInv, [DeployNext]_deployVars PROVE GateInv'
<1> USE DeploymentAssumption
<1>1. /\ ReleaseType
      /\ \A n \in Numbers : n # 0
  BY DEF DeployInv, Numbers
<1>2. CASE UNCHANGED deployVars
  BY <1>2 DEF deployVars, GateInv
<1>3. ASSUME DeployFault PROVE deployFaults' \in 0..MaxDeployFaults
  BY <1>3 DEF DeployFault, GateInv
<1>4. ASSUME NEW i \in Images, NEW e \in Envs, BeginDeployment(i, e) PROVE GateInv'
  BY <1>4 DEF BeginDeployment, GateInv
<1> DEFINE Gate == /\ deployment.checks \in 0..3
                   /\ deployment.at = "gate" => deployment.checks \in 0..2
                   /\ deployment.at \in Forward \ {"gate", "verify"} => deployment.checks = 0
           Running == Forward \ {"gate", "verify"}
<1>14. \A point : /\ [deployment EXCEPT !.at = point].at = point
                  /\ [deployment EXCEPT !.at = point].checks = deployment.checks
  BY <1>1 DEF ReleaseType
<1>15. Gate
  BY DEF GateInv
<1>16. ASSUME NEW from, NEW to, GoesTo(from, to), to \in Forward => from \in Running /\ to # "verify"
       PROVE  Gate'
  <2>1. deployment.at = from /\ deployment' = [deployment EXCEPT !.at = to]
    BY <1>16 DEF GoesTo
  <2>2. deployment'.at = to /\ deployment'.checks = deployment.checks
    BY <1>14, <2>1
  <2> QED BY <1>15, <1>16, <2>1, <2>2 DEF Forward
<1>17. ASSUME Gate', UNCHANGED <<migrators, lockedBy>>, DeployFault \/ UNCHANGED deployFaults
       PROVE  GateInv'
  BY <1>3, <1>17 DEF GateInv
<1>5. CASE SaveRollback \/ SaveFails \/ UpDatabase \/ CreateAppRole \/ UpBot
  <2>1. PICK from \in {"save", "db", "role", "bot"} :
          \E to \in {"activate", "untouched", "role", "migrate", "gate"} : GoesTo(from, to)
    BY <1>5 DEF SaveRollback, SaveFails, UpDatabase, CreateAppRole, UpBot
  <2>2. Gate'
    BY <1>16, <2>1 DEF Forward
  <2> HIDE DEF Gate
  <2> QED BY <1>5, <1>17, <2>2 DEF SaveRollback, SaveFails, UpDatabase, CreateAppRole, UpBot
<1>18. CASE Activate \/ Pull
  <2>1. /\ deployment.at \in {"activate", "pull"} /\ deployment'.checks = deployment.checks
        /\ deployment'.at \in {"pull", "db"}
    <3>1. CASE Activate
      BY <1>1, <3>1 DEF Activate, ReleaseType
    <3>2. CASE Pull
      BY <1>1, <3>2 DEF Pull, ReleaseType
    <3> QED BY <1>18, <3>1, <3>2
  <2>2. Gate'
    BY <1>15, <2>1 DEF Forward
  <2> HIDE DEF Gate
  <2> QED BY <1>17, <1>18, <2>2 DEF Activate, Pull
<1>6. CASE RunMigrate
  <2>1. Gate'
    BY <1>6, <1>16 DEF RunMigrate, Forward
  <2>2. lockedBy' \in {0} \cup {n \in Numbers : migrators'[n].at = "runs"}
    BY <1>1, <1>6 DEF RunMigrate, GateInv, ReleaseType
  <2> QED BY <1>6, <2>1, <2>2 DEF RunMigrate, GateInv
<1>7. CASE MigrateReturns
  <2>1. PICK to \in {"bot", "failed"} : GoesTo("migrating", to)
    BY <1>7 DEF MigrateReturns
  <2>2. Gate'
    BY <1>16, <2>1 DEF Forward
  <2> HIDE DEF Gate
  <2> QED BY <1>7, <1>17, <2>2 DEF MigrateReturns
<1>8. CASE GateCheck \/ VerifyRuntime
  <2>1. CASE GateCheck
    <3>1. /\ deployment.at = "gate" /\ deployment.checks \in 0..2
          /\ \/ /\ deployment'.checks = deployment.checks + 1
                /\ deployment'.at = IF deployment.checks = 2 THEN "verify" ELSE "gate"
             \/ deployment'.checks = 0 /\ deployment'.at = "gate"
             \/ deployment'.checks = deployment.checks /\ deployment'.at = "failed"
      BY <1>1, <1>15, <2>1 DEF GateCheck, ReleaseType
    <3>2. Gate'
      BY <3>1 DEF Forward
    <3> HIDE DEF Gate
    <3> QED BY <1>17, <2>1, <3>2 DEF GateCheck
  <2>2. CASE VerifyRuntime
    <3>1. PICK to \in {"accepted", "failed"} : GoesTo("verify", to)
      BY <2>2 DEF VerifyRuntime
    <3>2. Gate'
      BY <1>16, <3>1 DEF Forward
    <3> HIDE DEF Gate
    <3> QED BY <1>17, <2>2, <3>2 DEF VerifyRuntime
  <2> QED BY <1>8, <2>1, <2>2
<1>9. CASE CommandFails \/ KillDeployment
  <2>1. Gate'
    BY <1>9, <1>14, <1>15, <1>16 DEF CommandFails, KillDeployment, Forward
  <2> HIDE DEF Gate
  <2> QED BY <1>9, <1>17, <2>1 DEF CommandFails, KillDeployment
<1>10. CASE Rollback \/ RestoreEnvironment \/ RestoreDatabase \/ RestoreRole \/ RestoreBot
  <2>1. \E from, to \in Ended \cup Back : GoesTo(from, to)
    BY <1>10 DEF Rollback, RestoreEnvironment, RestoreDatabase, RestoreRole, RestoreBot,
       GoesTo, Ended, Back
  <2>2. Gate'
    BY <1>16, <2>1 DEF Forward, Ended, Back
  <2> HIDE DEF Gate
  <2> QED BY <1>10, <1>17, <2>2
          DEF Rollback, RestoreEnvironment, RestoreDatabase, RestoreRole, RestoreBot
<1>11. CASE RestoreFails
  <2>1. deployment'.checks = deployment.checks /\ deployment'.at \in {"broken", "restore bot"}
    BY <1>1, <1>11 DEF RestoreFails, GoesTo, ReleaseType
  <2>2. Gate'
    BY <1>15, <2>1 DEF Forward
  <2> HIDE DEF Gate
  <2> QED BY <1>11, <1>17, <2>2 DEF RestoreFails
<1>12. CASE BotDies \/ BotRestarts
  BY <1>3, <1>12 DEF BotDies, BotRestarts, GateInv
<1>13. ASSUME NEW n \in Numbers,
              TakeMigrationLock(n) \/ ApplyMigration(n) \/ MigrationsApplied(n)
              \/ MigrationFails(n)
       PROVE  GateInv'
  BY <1>1, <1>3, <1>13 DEF TakeMigrationLock, ApplyMigration, MigrationsApplied,
     MigrationFails, EndMigrator, ReleaseType, GateInv
<1> QED BY <1>2, <1>4, <1>5, <1>6, <1>7, <1>8, <1>9, <1>10, <1>11, <1>12, <1>13, <1>18
         DEF DeployNext

(* The two invariants give the types.                                       *)
LEMMA DeploymentIsTyped == DeployInv /\ GateInv => DeployTypeOK
BY DEF DeployInv, ReleaseType, GateInv, DeployTypeOK

(* A drain that is under way has rows of its claim before it.               *)
BatchesInv ==
  /\ final \subseteq Runs /\ thrown \subseteq Runs
  /\ notionFaults \in 0..MaxNotionFaults
  /\ \A d \in Drains :
       /\ drain[d].batch \in Seq(Runs) /\ IsInjective(drain[d].batch)
       /\ drain[d].at \in {"deliver", "complete", "retry"} => drain[d].batch # <<>>

(* Faults are counted up to their bound.                                    *)
LEMMA NotionFaultFacts ==
  ASSUME BatchesInv, NotionFault \/ UNCHANGED notionFaults
  PROVE  notionFaults' \in 0..MaxNotionFaults
BY OutboxAssumption DEF BatchesInv, NotionFault

(* A drain takes a row off its batch at a time, and stops when none is      *)
(* left.                                                                    *)
LEMMA BatchesKeep ==
  ASSUME DeliveredInv, BatchesInv, [OutboxNext]_outboxVars PROVE BatchesInv'
<1>1. CASE UNCHANGED outboxVars
  BY <1>1 DEF outboxVars, BatchesInv
<1>2. ASSUME NEW p \in Runs, FinishRun(p) \/ ClaimExpires(p) PROVE BatchesInv'
  <2>1. notionFaults' \in 0..MaxNotionFaults
    BY <1>2, NotionFaultFacts DEF FinishRun, ClaimExpires
  <2> QED BY <1>2, <2>1 DEF FinishRun, ClaimExpires, BatchesInv
<1>3. ASSUME NEW d \in Drains, NEW s, drain' = [drain EXCEPT ![d] = s],
             s.batch \in Seq(Runs), IsInjective(s.batch),
             s.at \in {"deliver", "complete", "retry"} => s.batch # <<>>,
             final' \subseteq Runs, UNCHANGED thrown,
             NotionFault \/ UNCHANGED notionFaults
      PROVE  BatchesInv'
  BY <1>3, NotionFaultFacts DEF BatchesInv, DeliveredInv
<1>4. ASSUME NEW d \in Drains, ClaimNotionAuditBackfill(d) PROVE BatchesInv'
  <2>1. PICK taken \in SUBSET {p \in Runs : row[p] = "waiting"} :
          \E batch \in SetToSeqs(taken) :
            /\ taken # {}
            /\ drain' = [drain EXCEPT ![d] = [Off EXCEPT !.at = "deliver", !.batch = batch]]
    BY <1>4 DEF ClaimNotionAuditBackfill
  <2>2. PICK batch \in SetToSeqs(taken) :
          drain' = [drain EXCEPT ![d] = [Off EXCEPT !.at = "deliver", !.batch = batch]]
    BY <2>1
  <2>3. taken \subseteq Runs /\ IsFiniteSet(taken)
    BY OutboxAssumption, FS_Subset
  <2>4. Cardinality(taken) \in Nat \ {0}
    BY <2>1, <2>3, FS_CardinalityType, FS_EmptySet
  <2>5. /\ batch \in [1..Cardinality(taken) -> taken]
        /\ \A i, j \in 1..Cardinality(taken) : i # j => batch[i] # batch[j]
    BY <2>4 DEF SetToSeqs
  <2>6. batch \in Seq(Runs) /\ IsInjective(batch) /\ batch # <<>>
    BY <2>3, <2>4, <2>5 DEF IsInjective
  <2> DEFINE s == [Off EXCEPT !.at = "deliver", !.batch = batch]
  <2>7. s.batch = batch /\ s.at = "deliver"
    BY DEF Off
  <2>8. final' \subseteq Runs /\ UNCHANGED <<thrown, notionFaults>>
    BY <1>4 DEF ClaimNotionAuditBackfill, BatchesInv
  <2>9. drain' = [drain EXCEPT ![d] = s]
    BY <2>2
  <2> HIDE DEF s
  <2> QED BY <1>3, <2>6, <2>7, <2>8, <2>9
<1>5. ASSUME NEW d \in Drains, NEW point \in {"complete", "retry", "dead"},
             point # "dead" => drain[d].at \in {"deliver", "complete"},
             drain' = [drain EXCEPT ![d].at = point],
             final' \subseteq Runs, UNCHANGED thrown,
             NotionFault \/ UNCHANGED notionFaults
      PROVE  BatchesInv'
  <2> DEFINE s == [drain[d] EXCEPT !.at = point]
  <2>1. s.batch = drain[d].batch /\ s.at = point /\ drain' = [drain EXCEPT ![d] = s]
    BY <1>5 DEF DeliveredInv, DrainRecord
  <2> HIDE DEF s
  <2> QED BY <1>3, <1>5, <2>1 DEF BatchesInv
<1>6. ASSUME NEW d \in Drains, NEW stop, drain[d].at \in {"complete", "retry"},
             NextRow(d, stop), UNCHANGED <<final, thrown>>,
             NotionFault \/ UNCHANGED notionFaults
      PROVE  BatchesInv'
  <2> DEFINE t == [drain[d] EXCEPT !.at = "deliver", !.batch = Tail(@)]
  <2>1. /\ drain[d].batch \in Seq(Runs) /\ IsInjective(drain[d].batch)
        /\ drain[d].batch # <<>> /\ final' \subseteq Runs
    BY <1>6 DEF BatchesInv
  <2>2. CASE drain' = [drain EXCEPT ![d] = Off]
    <3>1. Off.batch = <<>> /\ Off.at = "idle" /\ <<>> \in Seq(Runs)
      BY DEF Off
    <3> QED BY <1>3, <1>6, <2>1, <2>2, <3>1, NoneIsThere
  <2>3. CASE drain' = [drain EXCEPT ![d] = t] /\ Len(drain[d].batch) # 1
    <3>1. t.batch = Tail(drain[d].batch) /\ t.at = "deliver"
      BY DEF DeliveredInv, DrainRecord
    <3>2. Tail(drain[d].batch) \in Seq(Runs) /\ IsInjective(Tail(drain[d].batch))
      BY <2>1, FirstAndRest
    <3>3. Tail(drain[d].batch) # <<>>
      <4>1. Len(drain[d].batch) \in Nat \ {0, 1}
        BY <2>1, <2>3
      <4>2. Len(Tail(drain[d].batch)) = Len(drain[d].batch) - 1
        BY <2>1
      <4> SUFFICES ASSUME Tail(drain[d].batch) = <<>> PROVE FALSE
        OBVIOUS
      <4>3. Len(Tail(drain[d].batch)) = 0
        <5>1. \A rest : rest = <<>> => Len(rest) = 0
          OBVIOUS
        <5> QED BY <5>1
      <4> QED BY <4>1, <4>2, <4>3
    <3> HIDE DEF t
    <3> QED BY <1>3, <1>6, <2>1, <2>3, <3>1, <3>2, <3>3
  <2> QED BY <1>6, <2>2, <2>3 DEF NextRow
<1>7. ASSUME NEW d \in Drains, DeliverRow(d) PROVE BatchesInv'
  <2>1. drain[d].batch # <<>> /\ drain[d].batch \in Seq(Runs)
    BY <1>7 DEF DeliverRow, BatchesInv
  <2>2. Page(d) \in Runs
    BY <2>1 DEF Page
  <2>3. final' \subseteq Runs
    BY <1>7, <2>2 DEF DeliverRow, BatchesInv
  <2>7. UNCHANGED thrown /\ (NotionFault \/ UNCHANGED notionFaults)
    BY <1>7 DEF DeliverRow
  <2>4. PICK point \in {"complete", "retry"} : drain' = [drain EXCEPT ![d].at = point]
    BY <1>7 DEF DeliverRow
  <2>5. drain[d].at = "deliver"
    BY <1>7 DEF DeliverRow
  <2> QED BY <1>5, <2>3, <2>4, <2>5, <2>7
<1>8. ASSUME NEW d \in Drains,
             CompleteNotionAuditBackfill(d) \/ RetryNotionAuditBackfill(d)
      PROVE  BatchesInv'
  <2>1. /\ drain[d].at \in {"complete", "retry"} /\ UNCHANGED <<final, thrown>>
        /\ NotionFault \/ UNCHANGED notionFaults
        /\ \/ \E stop : NextRow(d, stop)
           \/ drain[d].at = "complete" /\ drain' = [drain EXCEPT ![d].at = "retry"]
    BY <1>8 DEF CompleteNotionAuditBackfill, RetryNotionAuditBackfill
  <2>2. final' \subseteq Runs
    BY <2>1 DEF BatchesInv
  <2>3. ASSUME NEW stop, NextRow(d, stop) PROVE BatchesInv'
    BY <1>6, <2>1, <2>3
  <2>4. CASE drain[d].at = "complete" /\ drain' = [drain EXCEPT ![d].at = "retry"]
    BY <1>5, <2>1, <2>2, <2>4
  <2> QED BY <2>1, <2>3, <2>4
<1>9. ASSUME NEW d \in Drains, DrainDies(d) PROVE BatchesInv'
  BY <1>5, <1>9 DEF DrainDies, BatchesInv
<1>10. ASSUME NEW d \in Drains, AbortDrain(d) PROVE BatchesInv'
  <2> DEFINE s == [drain[d] EXCEPT !.abort = TRUE]
  <2>1. s.batch = drain[d].batch /\ s.at = drain[d].at /\ drain' = [drain EXCEPT ![d] = s]
    BY <1>10 DEF AbortDrain, DeliveredInv, DrainRecord
  <2>2. final' \subseteq Runs /\ UNCHANGED thrown /\ NotionFault
    BY <1>10 DEF AbortDrain, BatchesInv
  <2> HIDE DEF s
  <2>3. /\ s.batch \in Seq(Runs) /\ IsInjective(s.batch)
        /\ s.at \in {"deliver", "complete", "retry"} => s.batch # <<>>
    BY <2>1 DEF BatchesInv
  <2> QED BY <1>3, <2>1, <2>2, <2>3
<1>11. ASSUME NEW d \in Drains, DrainRestarts(d) PROVE BatchesInv'
  <2>1. Off.batch = <<>> /\ Off.at = "idle" /\ <<>> \in Seq(Runs)
    BY DEF Off
  <2>2. final' \subseteq Runs /\ UNCHANGED <<thrown, notionFaults>> /\ drain' = [drain EXCEPT ![d] = Off]
    BY <1>11 DEF DrainRestarts, BatchesInv
  <2> QED BY <1>3, <2>1, <2>2, NoneIsThere
<1> QED BY <1>1, <1>2, <1>4, <1>7, <1>8, <1>9, <1>10, <1>11 DEF OutboxNext, DrainStep

(* The two invariants give the types.                                       *)
LEMMA OutboxIsTyped == DeliveredInv /\ BatchesInv => OutboxTypeOK
BY DEF DeliveredInv, BatchesInv, OutboxTypeOK, DrainRecord

(* These hold at the start.                                                 *)
LEMMA RestBegins == (DraftInit => NotesInv) /\ (DeployInit => GateInv) /\ (OutboxInit => BatchesInv)
<1>1. DraftInit => NotesInv
  BY DEF DraftInit, NotesInv
<1>2. DeployInit => GateInv
  BY DeploymentAssumption DEF DeployInit, GateInv, Forward
<1>3. OutboxInit => BatchesInv
  <2>1. Off.batch = <<>> /\ Off.at = "idle" /\ <<>> \in Seq(Runs)
    BY DEF Off
  <2> SUFFICES ASSUME OutboxInit PROVE BatchesInv
    OBVIOUS
  <2>2. /\ final \subseteq Runs /\ thrown \subseteq Runs
        /\ notionFaults \in 0..MaxNotionFaults
    BY OutboxAssumption DEF OutboxInit
  <2>3. \A d \in Drains : drain[d] = Off
    BY DEF OutboxInit
  <2>4. \A d \in Drains : drain[d].batch = <<>> /\ drain[d].at = "idle"
    BY <2>1, <2>3
  <2> QED BY <2>1, <2>2, <2>4, NoneIsThere DEF BatchesInv
<1> QED BY <1>1, <1>2, <1>3

-----------------------------------------------------------------------------
(* The eleven components side by side *)

(* What is true of each of them is true of all of them: the one in focus    *)
(* takes its step, the others take none.                                    *)
OpsInv ==
  /\ ResearchInv /\ DeliveredInv /\ BatchesInv /\ HealthInv /\ CoordInv
  /\ SourcesInv /\ CascadeInv /\ RouterInv /\ TopicInv
  /\ DraftInv /\ NotesInv /\ MilestoneInv /\ DeployInv /\ GateInv

(* A step of the composition is a step of every component or leaves it.     *)
LEMMA EachMoves ==
  [OpsNext]_opsVars =>
    /\ [ResearchNext]_researchVars /\ [OutboxNext]_outboxVars
    /\ [HealthNext]_healthVars /\ [CoordNext]_coordVars
    /\ [SourcesNext]_sourceVars /\ [AiNext]_aiVars
    /\ [RouterNext]_routerVars /\ [TopicNext]_topicVars
    /\ [DraftNext]_draftVars /\ [MilestoneNext]_milestoneVars
    /\ [DeployNext]_deployVars
BY DEF OpsNext, opsVars

(* The invariant holds at the start.                                        *)
LEMMA OpsBegins == OpsInit => OpsInv
<1> SUFFICES ASSUME OpsInit PROVE OpsInv
  OBVIOUS
<1>1. /\ ResearchInit /\ OutboxInit /\ HealthInit /\ CoordInit
      /\ SourcesInit /\ AiInit /\ RouterInit /\ TopicInit
      /\ DraftInit /\ MilestoneInit /\ DeployInit
  BY DEF OpsInit
<1> QED BY <1>1, ResearchBegins, DeliveredBegins, RestBegins, HealthStart, CoordStart,
           SourcesBegin, CascadeStart, RouterStart, TopicStart, DraftBegins,
           MilestoneInductive, DeploymentBegins DEF OpsInv

(* Whichever component is in focus, its step keeps its part and the others  *)
(* keep theirs.                                                             *)
LEMMA OpsKeeps == OpsInv /\ [OpsNext]_opsVars => OpsInv'
<1> SUFFICES ASSUME OpsInv, [OpsNext]_opsVars PROVE OpsInv'
  OBVIOUS
<1>1. /\ ResearchInv /\ DeliveredInv /\ BatchesInv /\ HealthInv /\ CoordInv
      /\ SourcesInv /\ CascadeInv /\ RouterInv /\ TopicInv
      /\ DraftInv /\ NotesInv /\ MilestoneInv /\ DeployInv /\ GateInv
  BY DEF OpsInv
<1>2. /\ [ResearchNext]_researchVars /\ [OutboxNext]_outboxVars
      /\ [HealthNext]_healthVars /\ [CoordNext]_coordVars
      /\ [SourcesNext]_sourceVars /\ [AiNext]_aiVars
      /\ [RouterNext]_routerVars /\ [TopicNext]_topicVars
      /\ [DraftNext]_draftVars /\ [MilestoneNext]_milestoneVars
      /\ [DeployNext]_deployVars
  BY EachMoves
<1>3. ResearchInv' /\ DeliveredInv' /\ BatchesInv' /\ SourcesInv' /\ TopicInv'
  BY <1>1, <1>2, ResearchKeeps, DeliveredKeeps, BatchesKeep, SourcesKeep, TopicStep
<1>4. HealthInv' /\ CoordInv' /\ CascadeInv' /\ RouterInv' /\ MilestoneInv'
  BY <1>1, <1>2, HealthStep, CoordStep, CascadeStep, RouterStep, MilestoneInductive
<1>5. DraftInv' /\ NotesInv' /\ DeployInv' /\ GateInv'
  BY <1>1, <1>2, DraftingKeeps, NotesKeep, DeploymentKeeps, GateKeeps
<1> QED BY <1>3, <1>4, <1>5 DEF OpsInv

(* Every component keeps its invariant in the composition.                  *)
LEMMA OpsInvariant == OpsSpec => []OpsInv
BY OpsBegins, OpsKeeps, PTL DEF OpsSpec

(* The variables of every component keep their types, whatever the          *)
(* component in focus does.                                                 *)
THEOREM OperationsAreTyped == OpsSpec => []OperationsTypeOK
<1>1. OpsInv => OperationsTypeOK
  BY ResearchMeans, OutboxIsTyped, HealthIsTyped, SourcesMeans, CascadeIsTyped,
     TopicMeans, DraftIsTyped, MilestoneMeans, DeploymentIsTyped
     DEF OpsInv, OperationsTypeOK, CoordInv, RouterInv
<1> QED BY <1>1, OpsInvariant, PTL

(* Sources are set aside and searched for cause only, a draft says what its *)
(* evidence lets it say, a milestone is announced once, and a release ends  *)
(* whole or as it began: each in the composition, as of itself.             *)
THEOREM OperationsKeepTheirPromises ==
  OpsSpec => [](SourcesPromise /\ DraftPromise /\ MilestonesPromise /\ DeploymentPromise)
<1>1. OpsInv => SourcesPromise /\ DraftPromise /\ MilestonesPromise /\ DeploymentPromise
  BY SourcesMeans, DraftMeans, MilestoneMeans, DeploymentMeans DEF OpsInv
<1> QED BY <1>1, OpsInvariant, PTL

(* A storm of throttled replies is bounded, a provider or model is asked    *)
(* for no caller that has gone, and a walk fails when no free model is left *)
(* to try (src/ai/).                                                        *)
THEOREM ProvidersKeepTheirPromise == OpsSpec => ProvidersPromise
<1>1. OpsInv => StormIsBounded /\ ProvenHasAnswered /\ NothingFreeIsLeft
  BY StormFacts, NothingLeft DEF OpsInv, RouterInv
<1>2. OpsInv /\ [OpsNext]_opsVars =>
        [\A k \in Callers : call[k].abort /\ call'[k].at = "request"
                              => call'[k] = call[k]]_aiVars
  BY EachMoves, AbortedStep DEF OpsInv
<1>3. OpsInv /\ [OpsNext]_opsVars =>
        [\A k \in Walkers : walk[k].aborted /\ walk'[k].at = "calling"
                              => walk'[k] = walk[k]]_routerVars
  BY EachMoves, GoneStep DEF OpsInv
<1>4. OpsSpec => []StormIsBounded /\ [](ProvenHasAnswered /\ NothingFreeIsLeft)
  BY <1>1, OpsInvariant, PTL
<1>5. OpsSpec => AbortedTriesNoMore
  BY <1>2, OpsInvariant, PTL DEF OpsSpec, AbortedTriesNoMore
<1>6. OpsSpec => GoneAsksNoMore
  BY <1>3, OpsInvariant, PTL DEF OpsSpec, GoneAsksNoMore
<1> QED BY <1>4, <1>5, <1>6 DEF ProvidersPromise, CascadePromise, OpenRouterPromise

(* Readiness is never left behind by who stopped, nor is one who has gone   *)
(* called healthy, and a stop reaches every worker before the pool closes.  *)
THEOREM RuntimeKeepsItsPromise == OpsSpec => []RuntimePromise
<1>1. OpsInv => RuntimePromise
  BY HealthMeans, CoordMeans
     DEF OpsInv, RuntimePromise, ReadinessPromise, CoordinatorPromise
<1> QED BY <1>1, OpsInvariant, PTL

(* A page delivered to Notion is final, whatever the other components do.   *)
THEOREM DeliveredIsFinal == OpsSpec => CompletedIsFinal
<1>1. OpsInv /\ [OpsNext]_opsVars =>
        [\A p \in Runs : row[p] = "completed" =>
           row'[p] = "completed" /\ p \in final]_outboxVars
  BY EachMoves, DeliveredKeeps DEF OpsInv
<1> QED BY <1>1, OpsInvariant, PTL DEF OpsSpec, CompletedIsFinal

(* A draft stands on a comparison that let it pass, settled articles and    *)
(* ended searches stay as they are, a search is called filtered only if it  *)
(* was, and the excluded topics lose no candidate and fail closed.          *)
THEOREM CurationKeepsItsPromise == OpsSpec => CurationPromise
<1>1. OpsInv => DecisionBehindDraft /\ BatchIsPartitioned /\ PolicyFailsClosed
  BY ResearchMeans, TopicMeans DEF OpsInv
<1>2. OpsInv /\ [OpsNext]_opsVars =>
        [\A c \in Candidates : article[c].status \in {"rejected", "drafted"}
           => article'[c] = article[c]]_researchVars
  BY EachMoves, SettledKept DEF OpsInv
<1>3. OpsInv /\ [OpsNext]_opsVars =>
        [\A r \in Runners : \A t \in 1..LastTier[r] :
           searchRun'[r][t] = "filtered" /\ searchRun[r][t] # "filtered" =>
             \A c \in ToSet(runner[r].kept) :
               \/ article[c].status = "rejected"
               \/ c \in runner[r].deduped]_researchVars
  BY EachMoves, FilteredKept DEF OpsInv
<1>4. OpsInv /\ [OpsNext]_opsVars =>
        [\A r \in Runners : \A t \in 1..LastTier[r] :
           searchRun[r][t] \notin {"none", "running"}
           => searchRun'[r][t] = searchRun[r][t]]_researchVars
  BY EachMoves, OutcomeKept DEF OpsInv
<1>5. OpsSpec => []DecisionBehindDraft /\ [](BatchIsPartitioned /\ PolicyFailsClosed)
  BY <1>1, OpsInvariant, PTL
<1>6. OpsSpec => SettledForGood
  BY <1>2, OpsInvariant, PTL DEF OpsSpec, SettledForGood
<1>7. OpsSpec => FilteredIsTrue
  BY <1>3, OpsInvariant, PTL DEF OpsSpec, FilteredIsTrue
<1>8. OpsSpec => SearchRunsAreFinal
  BY <1>4, OpsInvariant, PTL DEF OpsSpec, SearchRunsAreFinal
<1> QED BY <1>5, <1>6, <1>7, <1>8 DEF CurationPromise, ResearchPromise
=============================================================================
