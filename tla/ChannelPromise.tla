--------------------------- MODULE ChannelPromise ---------------------------
(***************************************************************************)
(* What the editorial publication promises a reader of the channel, with   *)
(* no database, executions or replies: a draft is shown at most once, only *)
(* while it is reserved, and two drafts of one story are never shown less  *)
(* than the comparison window (14 days) apart.                             *)
(***************************************************************************)
CONSTANTS Drafts, Stories, Story, None, MessageIds

VARIABLES
  phase,    \* what has become of each draft
  shown,    \* <<message id, draft>> pairs on the channel
  expired   \* stories none of whose messages is within the window

promiseVars == <<phase, shown, expired>>

Phase == {"open", "reserved", "shown", "closed"}

PromiseInit ==
  /\ phase = [d \in Drafts |-> "open"]
  /\ shown = {}
  /\ expired = Stories

(* Another draft of d's story that stands in the way of showing d.         *)
Rival(d, e) == e # d /\ Story[d] # None /\ Story[e] = Story[d]

Reserve(d) ==
  /\ phase[d] = "open"
  /\ \A e \in Drafts : Rival(d, e) =>
       /\ phase[e] # "reserved"
       /\ phase[e] = "shown" => Story[d] \in expired
  /\ phase' = [phase EXCEPT ![d] = "reserved"]
  /\ UNCHANGED <<shown, expired>>

Free(d) ==
  /\ phase[d] = "reserved"
  /\ phase' = [phase EXCEPT ![d] = "open"]
  /\ UNCHANGED <<shown, expired>>

Show(d, m) ==
  /\ phase[d] = "reserved"
  /\ \A e \in Drafts : <<m, e>> \notin shown
  /\ phase' = [phase EXCEPT ![d] = "shown"]
  /\ shown' = shown \cup {<<m, d>>}
  /\ expired' = expired \ {Story[d]}

Close(d) ==
  /\ phase[d] = "open"
  /\ phase' = [phase EXCEPT ![d] = "closed"]
  /\ UNCHANGED <<shown, expired>>

Expire(s) ==
  /\ \A d \in Drafts : Story[d] = s => phase[d] # "reserved"
  /\ expired' = expired \cup {s}
  /\ UNCHANGED <<phase, shown>>

PromiseNext ==
  \/ \E d \in Drafts :
       \/ Reserve(d)
       \/ Free(d)
       \/ Close(d)
       \/ \E m \in MessageIds : Show(d, m)
  \/ \E s \in Stories : Expire(s)

PromiseSpec == PromiseInit /\ [][PromiseNext]_promiseVars
=============================================================================
