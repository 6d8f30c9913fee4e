----------------------------- MODULE AiProviders -----------------------------
(***************************************************************************)
(* The provider cascade, createFallbackAiProvider: callers that share the  *)
(* throttle breakers of one process.                                       *)
(*                                                                         *)
(* An operation is "search" (execute: every provider that offers it, in    *)
(* order, some attempts each), "once" (executeOnce: one attempt at the     *)
(* first of them) or "fact" (executeFactSearch: the exclusive provider,    *)
(* billed per call, two attempts, outside the breakers).  Deadlines and    *)
(* cooldowns may pass at any time.  A provider answers, or its call fails  *)
(* with a code of one of five classes.                                     *)
(***************************************************************************)
EXTENDS Naturals, FiniteSets, Sequences

CONSTANTS
  Callers, Providers, NoProvider,
  Offers,               \* the providers of an operation, in order
  HaltsOnQuota,         \* haltsCascadeOnQuotaExhaustion
  SearchAttempts,       \* FALLBACK_PROVIDER_ATTEMPTS
  ThrottleThreshold, CredentialThreshold,
  Uses                  \* the operations of a caller

Operations == {"search", "once", "fact"}

ASSUME AiAssumption ==
  /\ IsFiniteSet(Callers) /\ NoProvider \notin Providers
  /\ Offers \in [Operations -> Seq(Providers)]
  /\ Len(Offers["once"]) = 1 /\ Len(Offers["fact"]) = 1
  /\ HaltsOnQuota \subseteq Providers
  /\ {SearchAttempts, ThrottleThreshold, CredentialThreshold} \subseteq Nat \ {0}
  /\ Uses \in [Callers -> SUBSET Operations]

VARIABLES
  breaker,      \* throttleState
  call,         \* the call each caller is in
  storm         \* throttled replies of recorded calls since a provider last
                \* did better or cooled down (history)

aiVars == <<breaker, call, storm>>

Codes == {"rate_limited", "quota_exhausted", "authentication_failed",
          "timeout", "invalid_response"}
Transient == {"rate_limited", "timeout"}
Throttle == {"rate_limited", "quota_exhausted"}
Credential == {"authentication_failed"}

Attempts(op) == CASE op = "search" -> SearchAttempts
                  [] op = "once" -> 1
                  [] op = "fact" -> 2
Guarded(op) == op # "fact"

(* next: before the provider at index; request: an attempt is under way;    *)
(* retry: the alert and the delay before another attempt; alert: the alert  *)
(* of the last one.  hits: throttled replies of this provider so far.       *)
InCall == {"next", "request", "retry", "alert"}

NoCall == [at |-> "idle", op |-> "search", index |-> 1, attempt |-> 0,
           code |-> NoProvider, hits |-> 0, abort |-> FALSE]

AiTypeOK ==
  /\ breaker \in [Providers ->
       [throttled : 0..ThrottleThreshold, rejected : 0..CredentialThreshold,
        open : BOOLEAN]]
  /\ \A k \in Callers :
       /\ call[k].at \in InCall \cup {"idle"} /\ call[k].op \in Operations
       /\ call[k].attempt \in 0..Attempts(call[k].op)
       /\ call[k].index \in 1..(Len(Offers[call[k].op]) + 1)
       /\ call[k].code \in Codes \cup {NoProvider}
       /\ call[k].hits \in 0..call[k].attempt
  /\ storm \in [Providers -> Nat]

AiInit ==
  /\ breaker = [p \in Providers |-> [throttled |-> 0, rejected |-> 0, open |-> FALSE]]
  /\ call = [k \in Callers |-> NoCall]
  /\ storm = [p \in Providers |-> 0]

Plan(k) == Offers[call[k].op]
Provider(k) == Plan(k)[call[k].index]
SetCall(k, c) == call' = [call EXCEPT ![k] = c]

EndCall(k) == SetCall(k, NoCall)

NextProvider(c) ==
  [c EXCEPT !.at = "next", !.index = @ + 1, !.attempt = 0, !.hits = 0, !.code = NoProvider]

-----------------------------------------------------------------------------
(* Breakers *)

AtMost(bound, n) == IF n > bound THEN bound ELSE n

(* recordThrottleOutcome for a call that failed, and for one that did not. *)
AfterFailure(b, code) ==
  CASE code \in Credential ->
         [throttled |-> 0, rejected |-> AtMost(CredentialThreshold, b.rejected + 1),
          open |-> b.open \/ b.rejected + 1 >= CredentialThreshold]
    [] code \in Throttle ->
         [throttled |-> AtMost(ThrottleThreshold, b.throttled + 1), rejected |-> 0,
          open |-> b.open \/ b.throttled + 1 >= ThrottleThreshold]
    [] OTHER -> [throttled |-> 0, rejected |-> 0, open |-> b.open]

RecordProviderFailure(k, p, code, hits) ==
  IF Guarded(call[k].op)
  THEN /\ breaker' = [breaker EXCEPT ![p] = AfterFailure(@, code)]
       /\ storm' = [storm EXCEPT ![p] = IF code \in Throttle THEN @ + hits ELSE 0]
  ELSE UNCHANGED <<breaker, storm>>

RecordProviderSuccess(k, p) ==
  IF Guarded(call[k].op)
  THEN /\ breaker' = [breaker EXCEPT ![p] =
                        [throttled |-> 0, rejected |-> 0, open |-> FALSE]]
       /\ storm' = [storm EXCEPT ![p] = 0]
  ELSE UNCHANGED <<breaker, storm>>

(* Mutant: an open breaker is not looked at. *)
IsThrottleOpenNever(k, p) == FALSE

IsThrottleOpen(k, p) == Guarded(call[k].op) /\ breaker[p].open

CooldownEnds(p) ==
  /\ breaker[p].open
  /\ breaker' = [breaker EXCEPT ![p].open = FALSE]
  /\ storm' = [storm EXCEPT ![p] = 0]
  /\ UNCHANGED call

-----------------------------------------------------------------------------
(* A call *)

StartCall(k) ==
  /\ call[k].at = "idle"
  /\ \E op \in Uses[k] : SetCall(k, [NoCall EXCEPT !.at = "next", !.op = op])
  /\ UNCHANGED <<breaker, storm>>

Send(k) == SetCall(k, [call[k] EXCEPT !.at = "request", !.attempt = @ + 1])

(* The next provider is skipped, given up on with the whole call, or asked. *)
TakeProvider(k) ==
  /\ call[k].at = "next"
  /\ IF call[k].index > Len(Plan(k)) THEN EndCall(k)
     ELSE IF IsThrottleOpen(k, Provider(k)) THEN SetCall(k, NextProvider(call[k]))
     ELSE IF call[k].abort THEN EndCall(k)
     ELSE Send(k)
  /\ UNCHANGED <<breaker, storm>>

Answer(k) ==
  /\ call[k].at = "request"
  /\ EndCall(k) /\ RecordProviderSuccess(k, Provider(k))

Hits(k, code) ==
  call[k].hits + (IF code \in Throttle /\ Guarded(call[k].op) THEN 1 ELSE 0)

(* The attempt was abandoned: neither alert nor record. *)
AttemptAborts(k) ==
  /\ call[k].at = "request" /\ call[k].abort /\ EndCall(k)
  /\ UNCHANGED <<breaker, storm>>

(* Mutant: the attempts are not counted. *)
AttemptMayRepeatAlways(k) ==
  /\ call[k].at = "request" /\ ~call[k].abort
  /\ \E code \in Transient :
       SetCall(k, [call[k] EXCEPT !.at = "retry", !.hits = Hits(k, code)])
  /\ UNCHANGED <<breaker, storm>>

(* A transient failure with attempts left, before the deadline if there is  *)
(* one.                                                                     *)
AttemptMayRepeat(k) ==
  /\ call[k].at = "request" /\ ~call[k].abort
  /\ call[k].attempt < Attempts(call[k].op)
  /\ \E code \in Transient :
       SetCall(k, [call[k] EXCEPT !.at = "retry", !.hits = Hits(k, code)])
  /\ UNCHANGED <<breaker, storm>>

(* The last failure of a provider: a code that is not transient, the last   *)
(* attempt or the deadline.  executeOnce records it here.                   *)
ProviderFails(k) ==
  /\ call[k].at = "request" /\ ~call[k].abort
  /\ \E code \in Codes :
       /\ \/ code \notin Transient \/ call[k].attempt = Attempts(call[k].op)
          \/ call[k].op = "search"
       /\ IF call[k].op = "search"
          THEN /\ SetCall(k, [call[k] EXCEPT !.at = "alert", !.code = code,
                                         !.hits = Hits(k, code)])
               /\ UNCHANGED <<breaker, storm>>
          ELSE /\ SetCall(k, [call[k] EXCEPT !.at = "alert"])
               /\ RecordProviderFailure(k, Provider(k), code, Hits(k, code))

Halts(k) ==
  call[k].code = "quota_exhausted" /\ Provider(k) \in HaltsOnQuota

(* The alert is out.  execute records the failure only now, unless the call *)
(* was abandoned meanwhile, and goes on with the next provider.             *)
AfterAlert(k) ==
  /\ call[k].at = "alert"
  /\ IF call[k].op # "search" \/ call[k].abort
     THEN EndCall(k) /\ UNCHANGED <<breaker, storm>>
     ELSE /\ RecordProviderFailure(k, Provider(k), call[k].code, call[k].hits)
          /\ IF Halts(k) THEN EndCall(k) ELSE SetCall(k, NextProvider(call[k]))

(* Mutant: the signal is not looked at after the delay. *)
RetryAborted(k) ==
  /\ call[k].at = "retry" /\ Send(k)
  /\ UNCHANGED <<breaker, storm>>

(* The delay is over.  When it outlasted the deadline the loop of execute   *)
(* ends without an error, so that nothing is recorded of the provider.      *)
Retry(k) ==
  /\ call[k].at = "retry"
  /\ \/ call[k].op = "search" /\ SetCall(k, NextProvider(call[k]))
     \/ IF call[k].abort THEN EndCall(k) ELSE Send(k)
  /\ UNCHANGED <<breaker, storm>>

(* The parent signal: /stop, a lost claim, a shutdown. *)
Abort(k) ==
  /\ call[k].at \in InCall /\ ~call[k].abort
  /\ SetCall(k, [call[k] EXCEPT !.abort = TRUE])
  /\ UNCHANGED <<breaker, storm>>

CallStep(k) ==
  \/ TakeProvider(k) \/ Answer(k) \/ AttemptAborts(k) \/ AttemptMayRepeat(k)
  \/ ProviderFails(k) \/ AfterAlert(k) \/ Retry(k)

AiNext ==
  \/ \E k \in Callers : StartCall(k) \/ CallStep(k) \/ Abort(k)
  \/ \E p \in Providers : CooldownEnds(p)

AiSpec == AiInit /\ [][AiNext]_aiVars

-----------------------------------------------------------------------------
(* What the cascade promises *)

(* A provider that throttles everything is asked a bounded number of times  *)
(* before it is left alone: the threshold counts calls, and besides those   *)
(* only the calls already under way when the breaker opened may go on.      *)
StormIsBounded ==
  \A p \in Providers :
    storm[p] <= (ThrottleThreshold - 1 + Cardinality(Callers)) * SearchAttempts

(* An abandoned call begins no further attempt: at most the one at hand,    *)
(* whose start is being recorded, is still sent.                            *)
AbortedTriesNoMore ==
  [][\A k \in Callers :
       call[k].abort /\ call'[k].at = "request" => call'[k] = call[k]]_aiVars

(* The cascade pays neither for a provider that throttles nor for a caller  *)
(* that has gone.                                                           *)
CascadePromise == []StormIsBounded /\ AbortedTriesNoMore
=============================================================================
