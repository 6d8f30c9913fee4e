------------------------------- MODULE Sources -------------------------------
(***************************************************************************)
(* The source catalogue: runs fetch the sources that are on and not set    *)
(* aside, and record what came of it; failures in a row set a source aside *)
(* for a day, then for a week; and a run that finds too little asks a paid *)
(* provider for new feeds of its topics, which are tried before they are   *)
(* saved (SourceAcquisitionGateway and the statements on sources and       *)
(* source_discovery_state).                                                *)
(*                                                                         *)
(* One set of topics; a feed that discovery finds may be a source already. *)
(* Scans are the runs, in any process, any of which may stop at any point. *)
(***************************************************************************)
EXTENDS Naturals, FiniteSets

CONSTANTS
  Feeds, Known,      \* feeds of the world; those that are sources at first
  Scans,
  FetchAttempts,     \* attempts at a source: three (two at GDELT)
  MaxFailures        \* bound on failures in a row that are told apart

ASSUME SourcesAssumption ==
  /\ IsFiniteSet(Feeds) /\ Known \subseteq Feeds
  /\ FetchAttempts \in Nat \ {0} /\ MaxFailures \in Nat /\ MaxFailures >= 5

VARIABLES
  source,      \* sources, by feed_url
  discovery,   \* source_discovery_state of the topics
  scan,
  refusals,    \* scans of each feed in a row that recorded no success (history)
  searches     \* paid searches since the pause last ran out (history)

sourceVars == <<source, discovery, scan, refusals, searches>>

Asides == {"none", "day", "week"}
NoScan == [at |-> "idle"]

SourcesTypeOK ==
  /\ source \in [Feeds -> [saved : BOOLEAN, enabled : BOOLEAN,
                           failures : 0..MaxFailures, aside : Asides]]
  /\ discovery \in [status : {"none", "running", "completed", "failed"},
                    pause : Asides]
  /\ \A s \in Scans : scan[s].at \in
       {"idle", "fetch", "fetched", "missed", "search", "try", "save", "complete"}
  /\ refusals \in [Feeds -> 0..MaxFailures] /\ searches \in Nat

SourcesInit ==
  /\ source = [f \in Feeds |-> [saved |-> f \in Known, enabled |-> TRUE,
                                failures |-> 0, aside |-> "none"]]
  /\ discovery = [status |-> "none", pause |-> "none"]
  /\ scan = [s \in Scans |-> NoScan]
  /\ refusals = [f \in Feeds |-> 0] /\ searches = 0

More(n) == IF n < MaxFailures THEN n + 1 ELSE n

Goes(s, point) == scan' = [scan EXCEPT ![s].at = point]

-----------------------------------------------------------------------------
(* listEnabledSources and fetchWithHealth *)

Available(f) == source[f].saved /\ source[f].enabled /\ source[f].aside = "none"

ListEnabledSources(s) ==
  /\ scan[s] = NoScan
  /\ \E f \in Feeds :
       /\ Available(f)
       /\ scan' = [scan EXCEPT ![s] = [at |-> "fetch", feed |-> f, attempt |-> 1]]
  /\ UNCHANGED <<source, discovery, refusals, searches>>

FetchSource(s) ==
  /\ scan[s].at = "fetch"
  /\ \/ Goes(s, "fetched")
     \/ IF scan[s].attempt < FetchAttempts
        THEN scan' = [scan EXCEPT ![s].attempt = @ + 1]
        ELSE Goes(s, "missed")
  /\ UNCHANGED <<source, discovery, refusals, searches>>

(* Mutant: a success lifts the pause and leaves the count. *)
RecoveredUncounted(row) == [row EXCEPT !.aside = "none"]

Recovered(row) == [row EXCEPT !.failures = 0, !.aside = "none"]

Failed(row) ==
  LET failures == More(row.failures)
  IN [row EXCEPT !.failures = failures,
                 !.aside = IF failures >= 5 THEN "week"
                           ELSE IF failures >= 3 THEN "day" ELSE @]

(* If recording the success fails, the catch records a failure instead.     *)
MarkSourceFetchSuccess(s) ==
  /\ scan[s].at = "fetched"
  /\ \/ /\ source' = [source EXCEPT ![scan[s].feed] = Recovered(@)]
        /\ refusals' = [refusals EXCEPT ![scan[s].feed] = 0]
        /\ scan' = [scan EXCEPT ![s] = NoScan]
     \/ Goes(s, "missed") /\ UNCHANGED <<source, refusals>>
  /\ UNCHANGED <<discovery, searches>>

MarkSourceFetchFailure(s) ==
  /\ scan[s].at = "missed"
  /\ source' = [source EXCEPT ![scan[s].feed] = Failed(@)]
  /\ refusals' = [refusals EXCEPT ![scan[s].feed] = More(@)]
  /\ scan' = [scan EXCEPT ![s] = NoScan]
  /\ UNCHANGED <<discovery, searches>>

-----------------------------------------------------------------------------
(* discoverFeeds *)

(* Mutant: only a completed search holds the next one back. *)
SearchClaimableUnlessDone ==
  discovery.status # "completed" \/ discovery.pause = "none"

SearchClaimable == discovery.status = "none" \/ discovery.pause = "none"

ClaimSourceDiscovery(s) ==
  /\ scan[s] = NoScan /\ SearchClaimable
  /\ discovery' = [status |-> "running", pause |-> "day"]
  /\ scan' = [scan EXCEPT ![s] = [at |-> "search", result |-> "none", feeds |-> {}]]
  /\ UNCHANGED <<source, refusals, searches>>

(* The provider fails, or names feeds. *)
SearchFeeds(s) ==
  /\ scan[s].at = "search" /\ searches' = searches + 1
  /\ \/ scan' = [scan EXCEPT ![s].at = "complete", ![s].result = "failed"]
     \/ \E found \in SUBSET Feeds :
          scan' = [scan EXCEPT ![s].at = "try", ![s].feeds = found]
  /\ UNCHANGED <<source, discovery, refusals>>

(* Each feed is read in its turn, twice if need be, and left out if it     *)
(* cannot be read or has no entries, or if saving it fails.                 *)
TryFeed(s) ==
  /\ scan[s].at = "try"
  /\ IF scan[s].feeds = {} THEN Goes(s, "complete")
     ELSE \E f \in scan[s].feeds, readable \in BOOLEAN :
            scan' = [scan EXCEPT ![s] =
                       IF readable
                       THEN [at |-> "save", result |-> @.result, feed |-> f,
                             feeds |-> @.feeds \ {f}]
                       ELSE [scan[s] EXCEPT !.feeds = @ \ {f}]]
  /\ UNCHANGED <<source, discovery, refusals, searches>>

UpsertDiscoveredSource(s) ==
  /\ scan[s].at = "save"
  /\ \E saves \in BOOLEAN :
       LET f == scan[s].feed
       IN /\ source' = IF saves
                       THEN [source EXCEPT ![f] =
                               [Recovered(@) EXCEPT !.saved = TRUE]]
                       ELSE source
          /\ refusals' = IF saves THEN [refusals EXCEPT ![f] = 0] ELSE refusals
          /\ scan' = [scan EXCEPT ![s] =
                        [at |-> "try", feeds |-> @.feeds,
                         result |-> IF saves THEN "some" ELSE @.result]]
  /\ UNCHANGED <<discovery, searches>>

(* Mutant: the result is taken for a status. *)
CompleteSourceDiscoveryVerbatim(s) ==
  /\ scan[s].at = "complete"
  /\ discovery' = [status |-> scan[s].result, pause |-> "day"]
  /\ scan' = [scan EXCEPT ![s] = NoScan]
  /\ UNCHANGED <<source, refusals, searches>>

(* Only a running search is completed, whichever run claimed it. *)
CompleteSourceDiscovery(s) ==
  /\ scan[s].at = "complete"
  /\ discovery' =
       IF discovery.status # "running" THEN discovery
       ELSE [status |-> IF scan[s].result = "failed" THEN "failed" ELSE "completed",
             pause |-> IF scan[s].result = "some" THEN "week" ELSE "day"]
  /\ scan' = [scan EXCEPT ![s] = NoScan]
  /\ UNCHANGED <<source, refusals, searches>>

-----------------------------------------------------------------------------
(* The admin, time, and runs that stop *)

SetSourceEnabled(f) ==
  /\ source[f].saved
  /\ source' = [source EXCEPT ![f].enabled = ~@]
  /\ UNCHANGED <<discovery, scan, refusals, searches>>

AsideRunsOut(f) ==
  /\ source[f].aside # "none" /\ source' = [source EXCEPT ![f].aside = "none"]
  /\ UNCHANGED <<discovery, scan, refusals, searches>>

(* A search takes minutes, not the day of its claim. *)
PauseRunsOut ==
  /\ discovery.pause # "none" /\ \A s \in Scans : scan[s].at # "search"
  /\ discovery' = [discovery EXCEPT !.pause = "none"] /\ searches' = 0
  /\ UNCHANGED <<source, scan, refusals>>

ScanStops(s) ==
  /\ scan[s] # NoScan /\ scan' = [scan EXCEPT ![s] = NoScan]
  /\ UNCHANGED <<source, discovery, refusals, searches>>

SourcesNext ==
  \/ \E s \in Scans :
       \/ ListEnabledSources(s) \/ FetchSource(s) \/ MarkSourceFetchSuccess(s)
       \/ MarkSourceFetchFailure(s) \/ ClaimSourceDiscovery(s) \/ SearchFeeds(s)
       \/ TryFeed(s) \/ UpsertDiscoveredSource(s) \/ CompleteSourceDiscovery(s)
       \/ ScanStops(s)
  \/ \E f \in Feeds : SetSourceEnabled(f) \/ AsideRunsOut(f)
  \/ PauseRunsOut

SourcesSpec == SourcesInit /\ [][SourcesNext]_sourceVars

-----------------------------------------------------------------------------
(* What the catalogue promises *)

(* A provider is paid for one search of the topics between two pauses, and  *)
(* a pause is at least a day: whichever runs ask, stop half way, or record  *)
(* the end of a search that another run has begun since.                    *)
SearchedOncePerPause == searches <= 1

(* A source is out of the scans only after three of them in a row recorded  *)
(* no success with it, and once it is read again, by a scan or by a search  *)
(* for feeds, it is in again.                                               *)
AsideIsEarned ==
  \A f \in Feeds : source[f].aside # "none" => refusals[f] >= 3

(* Sources lose their place and providers their pay for cause only.         *)
SourcesPromise == SearchedOncePerPause /\ AsideIsEarned
=============================================================================
