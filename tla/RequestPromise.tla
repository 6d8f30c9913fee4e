---------------------------- MODULE RequestPromise ----------------------------
(***************************************************************************)
(* What the durable queue promises of a /news request: one request of a    *)
(* channel is open at a time and the others are refused, an open request   *)
(* is settled once and for all, and it is closed by telling the admin its  *)
(* answer or after giving up on telling it.                                *)
(***************************************************************************)
CONSTANTS
  Requests,
  Channel,          \* the channel a request is for
  Findings          \* what a search may come to

VARIABLES
  phase,            \* of each request
  answer,           \* its settled answer, "none" before
  told              \* what the admin was told

vars == <<phase, answer, told>>

Open   == {"accepted", "settled"}
Closed == {"answered", "given_up", "refused"}

Init ==
  /\ phase = [r \in Requests |-> "none"]
  /\ answer = [r \in Requests |-> "none"]
  /\ told = [r \in Requests |-> {}]

Move(r, from, to) == phase[r] = from /\ phase' = [phase EXCEPT ![r] = to]

SomeOpen(r) == \E q \in Requests : phase[q] \in Open /\ Channel[q] = Channel[r]

Accept(r) == ~SomeOpen(r) /\ Move(r, "none", "accepted") /\ UNCHANGED <<answer, told>>

Refuse(r) ==
  /\ SomeOpen(r) /\ Move(r, "none", "refused")
  /\ answer' = [answer EXCEPT ![r] = "already_running"]
  /\ UNCHANGED told

Settle(r) ==
  /\ Move(r, "accepted", "settled")
  /\ \E a \in Findings \cup {"failed"} : answer' = [answer EXCEPT ![r] = a]
  /\ UNCHANGED told

(* The admin may be told more than once, and of a review that was decided  *)
(* meanwhile is told just that.                                            *)
Tell(r) ==
  /\ phase[r] \in {"settled", "answered", "given_up"}
  /\ \E what \in {answer[r]} \cup
                 (IF answer[r] = "review_ready" THEN {"review_resolved"} ELSE {}) :
       told' = [told EXCEPT ![r] = @ \cup {what}]
  /\ UNCHANGED <<phase, answer>>

Answer(r) ==
  /\ told[r] # {} /\ Move(r, "settled", "answered")
  /\ UNCHANGED <<answer, told>>

GiveUp(r) == Move(r, "settled", "given_up") /\ UNCHANGED <<answer, told>>

Next ==
  \E r \in Requests :
    Accept(r) \/ Refuse(r) \/ Settle(r) \/ Tell(r) \/ Answer(r) \/ GiveUp(r)

Spec == Init /\ [][Next]_vars

OpenRequestsClose == \A r \in Requests : phase[r] \in Open ~> phase[r] \in Closed
=============================================================================
