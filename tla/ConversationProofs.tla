--------------------------- MODULE ConversationProofs ---------------------------
(***************************************************************************)
(* Theorems about what people see of the bot: TelegramUpdates, for any     *)
(* number of pollers, updates, attempts and faults, ReviewSessions, for    *)
(* any number of deliveries, presses, previews and mishaps, and the panels *)
(* and hours beside them.                                                  *)
(***************************************************************************)
EXTENDS MCConversation, FiniteSetTheorems, WellFoundedInduction, TLAPS

-----------------------------------------------------------------------------
(* The least and the greatest                                              *)

(* A set of numbers with an element has a least one, and Min is it.        *)
LEMMA MinIsLeast ==
  ASSUME NEW S \in SUBSET Nat, S # {}
  PROVE  Min(S) \in S /\ \A y \in S : Min(S) <= y
<1>1. PICK x \in S : \A y \in S : ~ (<<y, x>> \in OpToRel(<, Nat))
  BY NatLessThanWellFounded, WFMin
<1>2. \A y \in S : ~ (y < x)
  BY <1>1, Zenon DEF OpToRel
<1>3. \A y \in S : x <= y
  BY <1>2
<1> QED BY <1>3 DEF Min

(* Max of two numbers is the greater.                                      *)
LEMMA MaxOfTwo ==
  ASSUME NEW m \in Nat, NEW n \in Nat
  PROVE  /\ Max({m, n}) \in {m, n}
         /\ Max({m, n}) >= m /\ Max({m, n}) >= n
<1>1. \E x \in {m, n} : \A y \in {m, n} : x >= y
  OBVIOUS
<1> QED BY <1>1 DEF Max

-----------------------------------------------------------------------------
(* Type correctness, and where the cursor stands                           *)

InHand == {"update", "ledger"} \cup Handling

IsClosed(u) == ledger[u].status \in Closed

(* What the memory of poller p says of the updates: those below its cursor *)
(* are closed, it has updates in hand exactly while it deals with them, and *)
(* those it passed over on the way to one in hand are closed.              *)
CursorAt(p) ==
  /\ poller[p].batch # {} <=> poller[p].at \in InHand
  /\ \A u \in Updates : u < poller[p].offset => IsClosed(u)
  /\ \A u \in poller[p].batch, w \in Updates :
       w < u /\ w \notin poller[p].batch => IsClosed(w)

CursorInv == \A p \in Pollers : CursorAt(p)

(* A row that is not quarantined has attempts left.                        *)
AttemptsInv ==
  \A u \in Updates :
    ledger[u].status # "quarantined" => ledger[u].failures < MaxAttempts

(* The update in hand is an update, the first of the batch.                *)
LEMMA CurrentInHand ==
  ASSUME UpdatesTypeOK, NEW p \in Pollers, poller[p].batch # {}
  PROVE  /\ Current(p) \in Updates /\ Current(p) \in poller[p].batch
         /\ \A u \in poller[p].batch : Current(p) <= u
<1>1. poller[p].batch \in SUBSET Updates
  BY DEF UpdatesTypeOK, Process
<1>2. Updates \subseteq Nat
  BY TelegramUpdatesAssumption DEF Updates
<1> QED BY <1>1, <1>2, MinIsLeast DEF Current

(* Moving the cursor past the update in hand keeps the memory's type.      *)
LEMMA AcknowledgeType ==
  ASSUME UpdatesTypeOK, NEW p \in Pollers, poller[p].batch # {}, Acknowledge(p)
  PROVE  poller' \in [Pollers -> Process]
<1>1. Current(p) \in 1..LastUpdate
  BY CurrentInHand DEF Updates
<1>2. poller[p].offset \in 0..LastUpdate + 1
  BY DEF UpdatesTypeOK, Process
<1>3. Max({poller[p].offset, Current(p) + 1}) \in 0..LastUpdate + 1
  BY <1>1, <1>2, MaxOfTwo, TelegramUpdatesAssumption
<1>4. 0 \in 0..MaxLedgerAttempts
  BY TelegramUpdatesAssumption
<1>5. poller[p] \in Process
  BY DEF UpdatesTypeOK
<1> DEFINE point == IF poller[p].batch = {Current(p)} THEN "poll" ELSE "update"
           memory == [poller[p] EXCEPT
             !.at = point,
             !.offset = Max({poller[p].offset, Current(p) + 1}),
             !.batch = poller[p].batch \ {Current(p)},
             !.verdict = "none", !.tries = 0]
<1>6. poller' = [poller EXCEPT ![p] = memory]
  BY DEF Acknowledge
<1>7. memory \in Process
  BY <1>3, <1>4, <1>5 DEF Process
<1> QED BY <1>6, <1>7 DEF UpdatesTypeOK

(* So does asking for the rest of the batch again.                         *)
LEMMA PollAgainType ==
  ASSUME UpdatesTypeOK, NEW p \in Pollers, NEW tries \in 0..MaxLedgerAttempts,
         PollAgain(p, tries)
  PROVE  poller' \in [Pollers -> Process]
<1>1. poller[p] \in Process
  BY DEF UpdatesTypeOK
<1>2. [poller[p] EXCEPT !.at = "poll", !.batch = {}, !.verdict = "none",
                        !.tries = tries] \in Process
  BY <1>1 DEF Process
<1> QED BY <1>2 DEF PollAgain, UpdatesTypeOK

(* So does a step from one point to another, or to the end of the process. *)
LEMMA MoveType ==
  ASSUME UpdatesTypeOK, NEW p \in Pollers,
         \/ Leave(p)
         \/ \E point \in {"acquire", "poll", "update"} \cup InHand : Go(p, point)
         \/ \E point \in InHand, v \in {"none", "terminal", "retry"} :
              GoWith(p, point, v)
  PROVE  poller' \in [Pollers -> Process]
<1>1. poller[p] \in Process
  BY DEF UpdatesTypeOK
<1>2. Down \in Process
  BY TelegramUpdatesAssumption DEF Down, Process
<1>3. ASSUME NEW point \in {"acquire", "poll", "update"} \cup InHand
      PROVE  [poller[p] EXCEPT !.at = point] \in Process
  BY <1>1 DEF Process, InHand, Handling
<1>4. ASSUME NEW point \in InHand, NEW v \in {"none", "terminal", "retry"}
      PROVE  [poller[p] EXCEPT !.at = point, !.verdict = v] \in Process
  BY <1>1 DEF Process, InHand, Handling
<1>5. CASE Leave(p)
  BY <1>2, <1>5 DEF Leave, UpdatesTypeOK
<1>6. CASE \E point \in {"acquire", "poll", "update"} \cup InHand : Go(p, point)
  BY <1>3, <1>6 DEF Go, UpdatesTypeOK
<1>7. CASE \E point \in InHand, v \in {"none", "terminal", "retry"} :
             GoWith(p, point, v)
  BY <1>4, <1>7 DEF GoWith, UpdatesTypeOK
<1> QED BY <1>5, <1>6, <1>7

-----------------------------------------------------------------------------
(* What a step does to the ledger                                          *)

(* Every statement on telegram_updates, whoever makes it.                  *)
LedgerMove ==
  \/ UNCHANGED ledger
  \/ \E u \in Updates :
       \/ \E p \in Pollers : Claimable(u) /\ Write(u, "processing", p)
       \/ \E p \in Pollers, s \in {"failed", "completed"} :
            FinishTelegramUpdate(p, u, s)
       \/ \E v \in {"none", "terminal", "retry"} :
            RecordTelegramUpdateFailure(u, v)
       \/ Stale(u)

(* Every step makes one of them, on an update that is in hand.             *)
LEMMA StepIsLedgerMove ==
  ASSUME UpdatesTypeOK, CursorInv, UpdatesNext
  PROVE  LedgerMove
<1> USE DEF LedgerMove
<1>1. ASSUME NEW p \in Pollers, poller[p].at \in InHand
      PROVE  /\ Current(p) \in Updates
             /\ poller[p].verdict \in {"none", "terminal", "retry"}
  BY <1>1, CurrentInHand DEF CursorInv, CursorAt, UpdatesTypeOK, Process
<1>2. CASE Outside
  BY <1>2 DEF Outside, Arrive, LeaseExpires, ClaimGoesStale, HandlerStalls,
              Heartbeat, Conflict, Crash, Stop
<1>3. ASSUME NEW p \in Pollers, PollerStep(p) \/ Routes(p)
      PROVE  LedgerMove
  <2> USE <1>1 DEF At, InHand, Handling
  <2>1. CASE \/ Start(p) \/ Acquire(p) \/ LeaveLoop(p) \/ Detach(p)
             \/ GetUpdates(p) \/ Malformed(p) \/ Routes(p)
             \/ Presents(p)
    BY <2>1 DEF Start, Acquire, LeaveLoop, Detach, GetUpdates, Malformed,
                Routes, Route, Presents, Present
  <2>2. CASE ClaimTelegramUpdate(p)
    BY <2>2 DEF ClaimTelegramUpdate
  <2>3. CASE FinishForeign(p)
    BY <2>3 DEF FinishForeign
  <2>4. CASE Finish(p)
    BY <2>4 DEF Finish
  <2>5. CASE Settle(p)
    BY <2>5 DEF Settle, SettleAs
  <2>6. CASE RecordFailure(p) \/ LedgerUnavailable(p)
    BY <2>6 DEF RecordFailure, LedgerUnavailable
  <2> QED
    BY <1>3, <2>1, <2>2, <2>3, <2>4, <2>5, <2>6 DEF PollerStep
<1> QED BY <1>2, <1>3 DEF UpdatesNext

(* A write keeps the row's failures.                                       *)
LEMMA WriteRow ==
  ASSUME UpdatesTypeOK, NEW u \in Updates, NEW c \in Pollers \cup {None},
         NEW s \in {"processing", "failed", "completed"}, Write(u, s, c)
  PROVE  /\ ledger' \in [Updates -> Row]
         /\ \A w \in Updates \ {u} : ledger'[w] = ledger[w]
         /\ ledger'[u].status = s
         /\ ledger'[u].failures = ledger[u].failures
<1>1. ledger[u] \in Row /\ ledger \in [Updates -> Row]
  BY DEF UpdatesTypeOK
<1>2. ledger' = [ledger EXCEPT ![u] = [ledger[u] EXCEPT
                   !.status = s, !.claimant = c, !.stale = FALSE]]
  BY <1>1 DEF Write, Row
<1>3. [ledger[u] EXCEPT !.status = s, !.claimant = c, !.stale = FALSE] \in Row
  BY <1>1 DEF Row, Closed
<1> QED BY <1>1, <1>2, <1>3 DEF Row

(* A recorded failure counts one more, of a row that had attempts left.    *)
LEMMA RecordRow ==
  ASSUME UpdatesTypeOK, AttemptsInv, NEW u \in Updates, NEW v,
         RecordTelegramUpdateFailure(u, v), Recordable(u)
  PROVE  /\ ledger' \in [Updates -> Row]
         /\ \A w \in Updates \ {u} : ledger'[w] = ledger[w]
         /\ ledger'[u].failures = ledger[u].failures + 1
         /\ ledger'[u].status = IF Quarantines(u, v) THEN "quarantined"
                                                     ELSE "failed"
<1>1. /\ ledger[u].failures \in 0..MaxAttempts /\ ledger \in [Updates -> Row]
      /\ MaxAttempts \in Nat
  BY TelegramUpdatesAssumption DEF UpdatesTypeOK, Row
<1>2. ledger[u].failures + 1 \in 0..MaxAttempts
  BY <1>1 DEF AttemptsInv, Recordable
<1>3. NoRow \in Row
  BY TelegramUpdatesAssumption DEF NoRow, Row
<1> DEFINE entry == [NoRow EXCEPT
             !.status = IF Quarantines(u, v) THEN "quarantined" ELSE "failed",
             !.failures = ledger[u].failures + 1]
<1>4. entry \in Row
  BY <1>2, <1>3 DEF Row, Closed
<1>5. ledger' = [ledger EXCEPT ![u] = entry]
  BY DEF RecordTelegramUpdateFailure
<1>6. /\ entry.failures = ledger[u].failures + 1
      /\ entry.status = IF Quarantines(u, v) THEN "quarantined" ELSE "failed"
  BY DEF NoRow
<1> HIDE DEF entry
<1> QED BY <1>1, <1>4, <1>5, <1>6

(* Rows keep their type, a row out of attempts is quarantined, and what is *)
(* closed stays as it is.                                                  *)
LEMMA LedgerKept ==
  ASSUME UpdatesTypeOK, AttemptsInv, LedgerMove
  PROVE  /\ ledger' \in [Updates -> Row] /\ AttemptsInv'
         /\ \A u \in Updates : IsClosed(u) => ledger'[u] = ledger[u]
<1> USE DEF IsClosed, Closed
<1>1. CASE UNCHANGED ledger
  BY <1>1 DEF UpdatesTypeOK, AttemptsInv
<1>2. ASSUME NEW u \in Updates, NEW p \in Pollers, Claimable(u),
             Write(u, "processing", p)
      PROVE  /\ ledger' \in [Updates -> Row] /\ AttemptsInv'
             /\ \A w \in Updates : IsClosed(w) => ledger'[w] = ledger[w]
  BY <1>2, WriteRow DEF AttemptsInv, Claimable
<1>3. ASSUME NEW u \in Updates, NEW p \in Pollers,
             NEW s \in {"failed", "completed"}, FinishTelegramUpdate(p, u, s)
      PROVE  /\ ledger' \in [Updates -> Row] /\ AttemptsInv'
             /\ \A w \in Updates : IsClosed(w) => ledger'[w] = ledger[w]
  BY <1>1, <1>3, WriteRow DEF AttemptsInv, FinishTelegramUpdate, Holds
<1>4. ASSUME NEW u \in Updates, NEW v \in {"none", "terminal", "retry"},
             RecordTelegramUpdateFailure(u, v)
      PROVE  /\ ledger' \in [Updates -> Row] /\ AttemptsInv'
             /\ \A w \in Updates : IsClosed(w) => ledger'[w] = ledger[w]
  <2>1. CASE Recordable(u)
    <3>1. /\ ledger' \in [Updates -> Row]
          /\ \A w \in Updates \ {u} : ledger'[w] = ledger[w]
          /\ ledger'[u].failures = ledger[u].failures + 1
          /\ ledger'[u].status = IF Quarantines(u, v) THEN "quarantined"
                                                      ELSE "failed"
      BY <1>4, <2>1, RecordRow
    <3>2. ledger[u].failures \in Nat /\ MaxAttempts \in Nat
      BY TelegramUpdatesAssumption DEF UpdatesTypeOK, Row
    <3> QED BY <2>1, <3>1, <3>2 DEF AttemptsInv, Quarantines, Recordable
  <2>2. CASE ~Recordable(u)
    BY <1>1, <1>4, <2>2 DEF RecordTelegramUpdateFailure
  <2> QED BY <2>1, <2>2
<1>5. ASSUME NEW u \in Updates, Stale(u)
      PROVE  /\ ledger' \in [Updates -> Row] /\ AttemptsInv'
             /\ \A w \in Updates : IsClosed(w) => ledger'[w] = ledger[w]
  <2>1. ledger[u] \in Row
    BY DEF UpdatesTypeOK
  <2>2. [ledger[u] EXCEPT !.stale = TRUE] \in Row
    BY <2>1 DEF Row
  <2>3. ledger' = [ledger EXCEPT ![u] = [ledger[u] EXCEPT !.stale = TRUE]]
    BY <1>5, <2>1 DEF Stale, UpdatesTypeOK
  <2> QED BY <1>5, <2>1, <2>2, <2>3 DEF Stale, UpdatesTypeOK, AttemptsInv, Row
<1> QED BY <1>1, <1>2, <1>3, <1>4, <1>5 DEF LedgerMove

-----------------------------------------------------------------------------
(* What a step does to a poller's memory                                   *)

Ashore == {"acquire", "poll"}
Verdicts == {"none", "terminal", "retry"}

(* Every change of one process's memory: it goes on with or without        *)
(* updates in hand, is told something, fetches, drops what it has in hand, *)
(* or moves past the update in hand, which is closed.                      *)
PollerMove(p) ==
  \/ UNCHANGED poller
  \/ Leave(p)
  \/ poller' = [poller EXCEPT ![p] = Down]
  \/ /\ poller[p].at \notin InHand
     /\ \E point \in Ashore : Go(p, point)
  \/ /\ poller[p].at \in InHand
     /\ \E point \in InHand : \/ Go(p, point)
                              \/ \E v \in Verdicts : GoWith(p, point, v)
  \/ poller' = [poller EXCEPT ![p].lost = TRUE]
  \/ poller' = [poller EXCEPT ![p].stopping = TRUE]
  \/ poller' = [poller EXCEPT ![p].detached = TRUE]
  \/ GetUpdates(p)
  \/ poller[p].at \in InHand /\ ledger'[Current(p)].status \in Closed
     /\ Acknowledge(p)
  \/ \E tries \in 0..MaxLedgerAttempts : PollAgain(p, tries)

(* What a handler that ends does to the memory of its process.             *)
LEMMA HandlerEndsMove ==
  ASSUME UpdatesTypeOK, NEW p \in Pollers, NEW acknowledged \in BOOLEAN,
         poller[p].at \in Handling, HandlerEnds(p, acknowledged),
         acknowledged => ledger'[Current(p)].status \in Closed
  PROVE  PollerMove(p)
  BY DEF HandlerEnds, PollerMove, InHand, Verdicts

(* A statement that closes the row of the update in hand.                  *)
LEMMA FinishCloses ==
  ASSUME UpdatesTypeOK, NEW p \in Pollers, NEW u \in Updates, Holds(p, u),
         FinishTelegramUpdate(p, u, "completed")
  PROVE  ledger'[u].status = "completed"
  BY WriteRow DEF FinishTelegramUpdate

(* Every step is such a change of one process.                             *)
LEMMA StepIsPollerMove ==
  ASSUME UpdatesTypeOK, CursorInv, UpdatesNext
  PROVE  UNCHANGED poller \/ \E p \in Pollers : PollerMove(p)
<1>1. ASSUME NEW p \in Pollers, poller[p].at \in InHand
      PROVE  /\ Current(p) \in Updates /\ poller[p].batch # {}
             /\ poller[p].tries \in 0..MaxLedgerAttempts
  BY <1>1, CurrentInHand DEF CursorInv, CursorAt, UpdatesTypeOK, Process
<1>2. CASE Outside
  BY <1>2 DEF Outside, Arrive, LeaseExpires, ClaimGoesStale, HandlerStalls,
              Stale, Heartbeat, Conflict, Crash, Stop, PollerMove
<1>3. ASSUME NEW p \in Pollers, PollerStep(p) \/ Routes(p)
      PROVE  PollerMove(p)
  <2>1. CASE Start(p) \/ Acquire(p) \/ LeaveLoop(p) \/ GetUpdates(p)
    BY <2>1 DEF Start, Acquire, LeaveLoop, PollerMove, At, InHand, Handling,
                Ashore
  <2>2. CASE Detach(p)
    BY <2>2 DEF Detach, PollerMove
  <2>3. CASE Malformed(p) \/ Routes(p) \/ Presents(p)
    BY <2>3 DEF Malformed, Routes, Route, Presents, Present, PollerMove, At, InHand,
                Handling, Verdicts
  <2>4. CASE ClaimTelegramUpdate(p)
    BY <1>1, <2>4 DEF ClaimTelegramUpdate, PollerMove, At, InHand, Handling,
                      Verdicts
  <2>5. CASE FinishForeign(p)
    <3>1. At(p, "foreign") /\ Current(p) \in Updates
      BY <1>1, <2>5 DEF FinishForeign, At, InHand, Handling
    <3>2. ASSUME FinishTelegramUpdate(p, Current(p), "completed")
          PROVE  Holds(p, Current(p)) => ledger'[Current(p)].status \in Closed
      BY <3>1, <3>2, FinishCloses DEF Closed
    <3>3. CASE /\ FinishTelegramUpdate(p, Current(p), "completed")
               /\ HandlerEnds(p, Holds(p, Current(p)))
      BY <3>1, <3>2, <3>3, HandlerEndsMove DEF At, Handling, Holds
    <3>4. CASE PollAgain(p, poller[p].tries)
      BY <1>1, <3>1, <3>4 DEF PollerMove, At, InHand, Handling
    <3>5. CASE HandlerEnds(p, FALSE)
      BY <3>1, <3>5, HandlerEndsMove DEF At, Handling
    <3> QED BY <2>5, <3>3, <3>4, <3>5 DEF FinishForeign
  <2>6. CASE Finish(p)
    <3>1. At(p, "finish") /\ Current(p) \in Updates
      BY <1>1, <2>6 DEF Finish, At, InHand, Handling
    <3>2. CASE GoWith(p, "settle", "retry")
      BY <3>1, <3>2 DEF PollerMove, At, InHand, Handling, Verdicts
    <3>3. CASE /\ FinishTelegramUpdate(p, Current(p), "completed")
               /\ Holds(p, Current(p)) /\ HandlerEnds(p, TRUE)
      BY <3>1, <3>3, FinishCloses, HandlerEndsMove DEF At, Handling, Closed
    <3> QED BY <2>6, <3>2, <3>3 DEF Finish
  <2>7. CASE Settle(p)
    <3>1. At(p, "settle") /\ Current(p) \in Updates
      BY <1>1, <2>7 DEF Settle, At, InHand, Handling
    <3>2. CASE HandlerEnds(p, FALSE)
      BY <3>1, <3>2, HandlerEndsMove DEF At, Handling
    <3>3. CASE /\ FinishTelegramUpdate(p, Current(p), "completed")
               /\ Holds(p, Current(p)) /\ HandlerEnds(p, TRUE)
      BY <3>1, <3>3, FinishCloses, HandlerEndsMove DEF At, Handling, Closed
    <3> QED BY <2>7, <3>2, <3>3 DEF Settle, Holds
  <2>8. CASE RecordFailure(p) \/ LedgerUnavailable(p)
    <3>1. poller[p].at \in InHand
      BY <2>8 DEF RecordFailure, LedgerUnavailable, At, InHand
    <3>2. poller[p].tries + 1 < MaxLedgerAttempts
            => poller[p].tries + 1 \in 0..MaxLedgerAttempts
      BY <1>1, <3>1, TelegramUpdatesAssumption
    <3>3. 0 \in 0..MaxLedgerAttempts
      BY TelegramUpdatesAssumption
    <3>4. ~ (poller[p].tries + 1 >= MaxLedgerAttempts)
            => poller[p].tries + 1 < MaxLedgerAttempts
      BY <1>1, <3>1, TelegramUpdatesAssumption
    <3> QED
      BY <2>8, <3>1, <3>2, <3>3, <3>4
         DEF RecordFailure, LedgerUnavailable, PollerMove
  <2> QED
    BY <1>3, <2>1, <2>2, <2>3, <2>4, <2>5, <2>6, <2>7, <2>8 DEF PollerStep
<1> QED BY <1>2, <1>3 DEF UpdatesNext

(* What changes nothing of updates in hand leaves a cursor where it stands. *)
LEMMA CursorStays ==
  ASSUME \A u \in Updates : IsClosed(u) => IsClosed(u)',
         NEW p, CursorAt(p),
         poller'[p].batch = poller[p].batch, poller'[p].offset = poller[p].offset,
         poller'[p].at \in InHand <=> poller[p].at \in InHand,
         poller[p].batch \subseteq Updates
  PROVE  CursorAt(p)'
  BY DEF CursorAt

(* A process that drops what it has in hand keeps its cursor, or forgets it. *)
LEMMA CursorDrops ==
  ASSUME \A u \in Updates : IsClosed(u) => IsClosed(u)',
         NEW p, CursorAt(p),
         poller'[p].batch = {}, poller'[p].offset \in {0, poller[p].offset},
         poller'[p].at \notin InHand
  PROVE  CursorAt(p)'
  BY TelegramUpdatesAssumption DEF CursorAt, Updates

(* Telegram forgets only what is closed.                                   *)
ForgottenInv == \A u \in Updates : u < confirmed => IsClosed(u)

(* The updates asked for follow those that are closed.                     *)
LEMMA FetchedFromClosed ==
  ASSUME UpdatesTypeOK, CursorInv, ForgottenInv, NEW p \in Pollers, GetUpdates(p)
  PROVE  /\ confirmed' \in 0..LastUpdate + 1
         /\ \A u \in Updates : u < confirmed' => IsClosed(u)
         /\ \/ UNCHANGED poller
            \/ \E pending \in (SUBSET Updates) \ {{}} :
                 /\ \A u \in pending, w \in Updates :
                      w < u /\ w \notin pending => IsClosed(w)
                 /\ poller' = [poller EXCEPT ![p].at = "update",
                                             ![p].batch = pending]
<1> DEFINE from == Max({confirmed, poller[p].offset})
           pending == {u \in Updates : from <= u /\ u <= arrived}
<1>1. /\ confirmed \in 0..LastUpdate + 1
      /\ poller[p].offset \in 0..LastUpdate + 1 /\ arrived \in 0..LastUpdate
      /\ LastUpdate \in Nat
  BY TelegramUpdatesAssumption DEF UpdatesTypeOK, Process
<1>2. from \in {confirmed, poller[p].offset}
  BY <1>1, MaxOfTwo
<1>3. \A u \in Updates : u < from => IsClosed(u)
  BY <1>2 DEF ForgottenInv, CursorInv, CursorAt
<1>4. from \in 0..LastUpdate + 1
  BY <1>1, <1>2
<1> HIDE DEF from
<1>5. \A u \in pending, w \in Updates :
        w < u /\ w \notin pending => IsClosed(w)
  BY <1>1, <1>3, <1>4 DEF Updates
<1>6. /\ confirmed' = from
      /\ \/ pending # {} /\ poller' = [poller EXCEPT ![p].at = "update",
                                                     ![p].batch = pending]
         \/ UNCHANGED poller
  BY DEF GetUpdates, from
<1> QED BY <1>3, <1>4, <1>5, <1>6

(* Every change of one process leaves every cursor at closed updates.      *)
LEMMA CursorKept ==
  ASSUME UpdatesTypeOK, CursorInv, ForgottenInv,
         \A u \in Updates : IsClosed(u) => IsClosed(u)',
         NEW p \in Pollers, PollerMove(p)
  PROVE  poller' \in [Pollers -> Process] /\ CursorInv'
<1>1. poller \in [Pollers -> Process]
  BY DEF UpdatesTypeOK
<1>2. \A q \in Pollers : CursorAt(q)
  BY DEF CursorInv
<1>3. ASSUME NEW q \in Pollers, poller'[q] = poller[q]
      PROVE  CursorAt(q)'
  BY <1>1, <1>2, <1>3, CursorStays DEF Process
<1>4. SUFFICES /\ poller' \in [Pollers -> Process]
               /\ \A q \in Pollers \ {p} : poller'[q] = poller[q]
               /\ CursorAt(p)'
  BY <1>3 DEF CursorInv
<1>5. poller[p] \in Process /\ CursorAt(p) /\ poller[p].batch \subseteq Updates
  BY <1>1, <1>2 DEF Process
<1>6. CASE UNCHANGED poller
  BY <1>1, <1>3, <1>6
<1>7. CASE Leave(p) \/ poller' = [poller EXCEPT ![p] = Down]
  <2>1. poller' = [poller EXCEPT ![p] = Down]
    BY <1>7 DEF Leave
  <2>2. Down \in Process
    BY TelegramUpdatesAssumption DEF Down, Process
  <2> QED BY <1>1, <1>5, <2>1, <2>2, CursorDrops DEF Down, InHand, Handling
<1>8. ASSUME NEW point, Go(p, point) \/ \E v \in Verdicts : GoWith(p, point, v),
             \/ point \in Ashore /\ Go(p, point) /\ poller[p].at \notin InHand
             \/ point \in InHand /\ poller[p].at \in InHand
      PROVE  /\ poller' \in [Pollers -> Process]
             /\ \A q \in Pollers \ {p} : poller'[q] = poller[q]
             /\ CursorAt(p)'
  <2>1. poller' \in [Pollers -> Process]
    BY <1>8, MoveType DEF Ashore, Verdicts
  <2>2. /\ \A q \in Pollers \ {p} : poller'[q] = poller[q]
        /\ poller'[p].batch = poller[p].batch
        /\ poller'[p].offset = poller[p].offset
        /\ poller'[p].at = point
    BY <1>1, <1>5, <1>8 DEF Go, GoWith, Process
  <2>3. point \in InHand <=> poller[p].at \in InHand
    BY <1>8 DEF Ashore, InHand, Handling
  <2> QED BY <1>5, <2>1, <2>2, <2>3, CursorStays
<1>9. CASE \/ poller' = [poller EXCEPT ![p].lost = TRUE]
           \/ poller' = [poller EXCEPT ![p].stopping = TRUE]
           \/ poller' = [poller EXCEPT ![p].detached = TRUE]
  <2>1. /\ [poller[p] EXCEPT !.lost = TRUE] \in Process
        /\ [poller[p] EXCEPT !.stopping = TRUE] \in Process
        /\ [poller[p] EXCEPT !.detached = TRUE] \in Process
    BY <1>5 DEF Process
  <2>2. poller' \in [Pollers -> Process]
    BY <1>1, <1>9, <2>1
  <2>3. /\ \A q \in Pollers \ {p} : poller'[q] = poller[q]
        /\ poller'[p].batch = poller[p].batch
        /\ poller'[p].offset = poller[p].offset
        /\ poller'[p].at = poller[p].at
    BY <1>1, <1>5, <1>9 DEF Process
  <2> QED BY <1>5, <2>2, <2>3, CursorStays
<1>10. CASE GetUpdates(p)
  <2>1. ASSUME NEW pending \in (SUBSET Updates) \ {{}},
               \A u \in pending, w \in Updates :
                 w < u /\ w \notin pending => IsClosed(w),
               poller' = [poller EXCEPT ![p].at = "update",
                                        ![p].batch = pending]
        PROVE  /\ poller' \in [Pollers -> Process]
               /\ \A q \in Pollers \ {p} : poller'[q] = poller[q]
               /\ CursorAt(p)'
    <3>1. [poller[p] EXCEPT !.at = "update", !.batch = pending] \in Process
      BY <1>5 DEF Process
    <3>2. /\ \A q \in Pollers \ {p} : poller'[q] = poller[q]
          /\ poller' \in [Pollers -> Process]
          /\ poller'[p].batch = pending
          /\ poller'[p].offset = poller[p].offset
          /\ poller'[p].at = "update"
      BY <1>1, <1>5, <2>1, <3>1 DEF Process
    <3> QED BY <1>5, <2>1, <3>2 DEF CursorAt, InHand
  <2> QED BY <1>6, <1>10, <2>1, FetchedFromClosed
<1>11. CASE /\ poller[p].at \in InHand
            /\ ledger'[Current(p)].status \in Closed /\ Acknowledge(p)
  <2>1. poller[p].batch # {}
    BY <1>5, <1>11 DEF CursorAt
  <2> PICK m \in Updates :
        /\ m = Current(p) /\ m \in poller[p].batch
        /\ \A u \in poller[p].batch : m <= u
    BY <2>1, CurrentInHand
  <2>2. poller' \in [Pollers -> Process]
    BY <1>11, <2>1, AcknowledgeType
  <2>3. /\ \A q \in Pollers \ {p} : poller'[q] = poller[q]
        /\ poller'[p].batch = poller[p].batch \ {m}
        /\ poller'[p].offset = Max({poller[p].offset, m + 1})
        /\ poller'[p].at = IF poller[p].batch = {m} THEN "poll" ELSE "update"
    BY <1>1, <1>5, <1>11 DEF Acknowledge, Process
  <2>4. /\ \A u \in Updates : u < m => IsClosed(u)'
        /\ IsClosed(m)'
    <3>1. \A u \in Updates : u < m => u \notin poller[p].batch
      BY DEF Updates
    <3> QED BY <1>5, <1>11, <3>1 DEF CursorAt, IsClosed
  <2>5. poller'[p].offset \in {poller[p].offset, m + 1}
    <3>1. poller[p].offset \in Nat /\ m + 1 \in Nat
      BY <1>5, TelegramUpdatesAssumption DEF Process, Updates
    <3> QED BY <2>3, <3>1, MaxOfTwo
  <2>6. \A u \in Updates : u < m + 1 => u < m \/ u = m
    BY TelegramUpdatesAssumption DEF Updates
  <2>7. \A u \in Updates : u < poller'[p].offset => IsClosed(u)'
    BY <1>5, <2>4, <2>5, <2>6 DEF CursorAt
  <2>8. \A u \in poller'[p].batch, w \in Updates :
          w < u /\ w \notin poller'[p].batch => IsClosed(w)'
    BY <1>5, <2>3, <2>4 DEF CursorAt
  <2>9. poller'[p].batch # {} <=> poller'[p].at \in InHand
    BY <2>3 DEF InHand, Handling
  <2> QED BY <2>2, <2>3, <2>7, <2>8, <2>9 DEF CursorAt
<1>12. ASSUME NEW tries \in 0..MaxLedgerAttempts, PollAgain(p, tries)
       PROVE  /\ poller' \in [Pollers -> Process]
              /\ \A q \in Pollers \ {p} : poller'[q] = poller[q]
              /\ CursorAt(p)'
  <2>1. /\ \A q \in Pollers \ {p} : poller'[q] = poller[q]
        /\ poller'[p].batch = {} /\ poller'[p].offset = poller[p].offset
        /\ poller'[p].at = "poll"
    BY <1>1, <1>5, <1>12 DEF PollAgain, Process
  <2> QED
    BY <1>5, <1>12, <2>1, PollAgainType, CursorDrops DEF InHand, Handling
<1> QED
  BY <1>6, <1>7, <1>8, <1>9, <1>10, <1>11, <1>12 DEF PollerMove

-----------------------------------------------------------------------------
(* The types, and where the cursors and Telegram stand                     *)

(* Only asking for updates makes Telegram forget any.                      *)
LEMMA ForgottenKept ==
  ASSUME UpdatesTypeOK, CursorInv, ForgottenInv, UpdatesNext,
         \A u \in Updates : IsClosed(u) => IsClosed(u)'
  PROVE  confirmed' \in 0..LastUpdate + 1 /\ ForgottenInv'
<1>1. CASE \E p \in Pollers : GetUpdates(p)
  BY <1>1, FetchedFromClosed DEF ForgottenInv
<1>2. ASSUME UNCHANGED confirmed
      PROVE  confirmed' \in 0..LastUpdate + 1 /\ ForgottenInv'
  BY <1>2 DEF UpdatesTypeOK, ForgottenInv
<1>3. CASE Outside
  BY <1>2, <1>3 DEF Outside, Arrive, LeaseExpires, ClaimGoesStale,
    HandlerStalls, Stale, Heartbeat, Conflict, Crash, Stop, telegramVars
<1>4. ASSUME NEW p \in Pollers, PollerStep(p) \/ Routes(p), ~GetUpdates(p)
      PROVE  UNCHANGED confirmed
  BY <1>4 DEF PollerStep, Routes, Start, Acquire, LeaveLoop, Detach, Malformed,
    ClaimTelegramUpdate, FinishForeign, Route, Presents, Present, Finish, Settle,
    RecordFailure, LedgerUnavailable, telegramVars
<1> QED BY <1>1, <1>2, <1>3, <1>4 DEF UpdatesNext

(* What becomes of the variables that are not the ledger, the processes or *)
(* what Telegram forgot.                                                   *)
OthersOK ==
  /\ arrived \in 0..LastUpdate
  /\ leaseOwner \in Pollers \cup {None, Dead}
  /\ answered \subseteq Updates /\ refused \subseteq Updates
  /\ faults \in 0..MaxFaults

(* What the admin was told stays told.                                     *)
ToldGrows == answered \subseteq answered' /\ refused \subseteq refused'

(* The state no attempt or cursor depends on keeps its shape.                *)
LEMMA OthersKept ==
  ASSUME UpdatesTypeOK, CursorInv, UpdatesNext
  PROVE  OthersOK' /\ ToldGrows
<1> USE DEF OthersOK, ToldGrows
<1>1. OthersOK
  BY DEF UpdatesTypeOK
<1>2. ASSUME Fault PROVE faults' \in 0..MaxFaults
  BY <1>1, <1>2, TelegramUpdatesAssumption DEF Fault
<1>3. ASSUME NEW p \in Pollers, poller[p].at \in InHand
      PROVE  Current(p) \in Updates
  BY <1>3, CurrentInHand DEF CursorInv, CursorAt
<1>4. CASE Outside
  <2>1. ASSUME arrived < LastUpdate, arrived' = arrived + 1
        PROVE  arrived' \in 0..LastUpdate
    BY <1>1, <2>1, TelegramUpdatesAssumption
  <2> QED
    BY <1>1, <1>2, <1>4, <2>1 DEF Outside, Arrive, LeaseExpires, ClaimGoesStale,
      HandlerStalls, Stale, Heartbeat, Conflict, Crash, Stop, Leave,
      telegramVars, historyVars
<1>5. ASSUME NEW p \in Pollers, PollerStep(p) \/ Routes(p)
      PROVE  OthersOK' /\ ToldGrows
  <2>1. CASE Start(p) \/ Acquire(p) \/ LeaveLoop(p) \/ Detach(p)
             \/ GetUpdates(p) \/ Malformed(p)
    BY <1>1, <1>2, <2>1 DEF Start, Acquire, LeaveLoop, Detach, GetUpdates,
      Malformed, Leave, telegramVars, historyVars
  <2>2. CASE ClaimTelegramUpdate(p) \/ FinishForeign(p) \/ Finish(p) \/ Settle(p)
    BY <1>1, <1>2, <2>2 DEF ClaimTelegramUpdate, FinishForeign, Finish, Settle,
      HandlerEnds, Leave, telegramVars, historyVars
  <2>3. CASE Routes(p) \/ Presents(p)
    BY <1>1, <1>2, <1>3, <2>3 DEF Routes, Route, Presents, Present, At, InHand,
      Handling, telegramVars
  <2>4. CASE RecordFailure(p) \/ LedgerUnavailable(p)
    BY <1>1, <1>2, <2>4 DEF RecordFailure, LedgerUnavailable, Leave,
      telegramVars, historyVars
  <2> QED BY <1>5, <2>1, <2>2, <2>3, <2>4 DEF PollerStep
<1> QED BY <1>4, <1>5 DEF UpdatesNext

(* Types, attempts, cursors and Telegram together are inductive.           *)
CursorsInv == UpdatesTypeOK /\ AttemptsInv /\ CursorInv /\ ForgottenInv

(* Every step keeps the conjunction, and closed updates stay as they are.    *)
LEMMA CursorsKept ==
  ASSUME CursorsInv, [UpdatesNext]_updateVars
  PROVE  /\ CursorsInv'
         /\ \A u \in Updates : IsClosed(u) => ledger'[u] = ledger[u]
<1> USE DEF CursorsInv
<1>1. CASE UNCHANGED updateVars
  BY <1>1 DEF updateVars, telegramVars, historyVars, UpdatesTypeOK, AttemptsInv,
    CursorInv, CursorAt, ForgottenInv, IsClosed
<1>2. CASE UpdatesNext
  <2>1. /\ ledger' \in [Updates -> Row] /\ AttemptsInv'
        /\ \A u \in Updates : IsClosed(u) => ledger'[u] = ledger[u]
    BY <1>2, StepIsLedgerMove, LedgerKept
  <2>2. \A u \in Updates : IsClosed(u) => IsClosed(u)'
    BY <2>1 DEF IsClosed
  <2>3. poller' \in [Pollers -> Process] /\ CursorInv'
    <3>1. CASE \E p \in Pollers : PollerMove(p)
      BY <2>2, <3>1, CursorKept
    <3>2. CASE UNCHANGED poller
      BY <2>2, <3>2, CursorStays DEF UpdatesTypeOK, CursorInv, Process
    <3> QED BY <1>2, <3>1, <3>2, StepIsPollerMove
  <2>4. confirmed' \in 0..LastUpdate + 1 /\ ForgottenInv'
    BY <1>2, <2>2, ForgottenKept
  <2>5. OthersOK'
    BY <1>2, OthersKept
  <2>6. UpdatesTypeOK'
    BY <2>1, <2>3, <2>4, <2>5 DEF UpdatesTypeOK, OthersOK
  <2> QED BY <2>1, <2>3, <2>4, <2>6
<1> QED BY <1>1, <1>2

(* The conjunction holds initially.                                          *)
LEMMA CursorsInit == UpdatesInit => CursorsInv
<1> SUFFICES ASSUME UpdatesInit PROVE CursorsInv
  OBVIOUS
<1>1. UpdatesTypeOK
  BY TelegramUpdatesAssumption DEF UpdatesInit, UpdatesTypeOK, Down, Process,
    NoRow, Row
<1>2. AttemptsInv
  BY TelegramUpdatesAssumption DEF UpdatesInit, AttemptsInv, NoRow
<1>3. CursorInv
  BY TelegramUpdatesAssumption DEF UpdatesInit, CursorInv, CursorAt, Down,
    InHand, Handling, Updates
<1>4. ForgottenInv
  BY TelegramUpdatesAssumption DEF UpdatesInit, ForgottenInv, Updates
<1> QED BY <1>1, <1>2, <1>3, <1>4 DEF CursorsInv

(* Every variable keeps its type, attempts stay within their limit, and no *)
(* process moves its cursor past, nor does Telegram forget, an update whose *)
(* row is still open.                                                      *)
THEOREM CursorsCorrect == UpdatesSpec => []CursorsInv
BY CursorsInit, CursorsKept, PTL DEF UpdatesSpec

-----------------------------------------------------------------------------
(* What is closed is accounted for                                         *)

(* A closed row was answered, refused for good or of no interest, or is    *)
(* quarantined, malformed or after all its attempts.                       *)
Accounted(u) ==
  /\ ledger[u].status = "completed" => (IsControl(u) => u \in answered \cup refused)
  /\ ledger[u].status = "quarantined"
       => ledger[u].failures >= MaxAttempts \/ IsMalformed(u)

AccountInv == \A u \in Updates : Accounted(u)

(* A foreign update another process handles, or has closed: a failure of   *)
(* it is only reported.                                                    *)
Unrecorded(u) == ~IsControl(u) /\ ~Recordable(u)

(* What a handler is about to tell the ledger is true of its update.       *)
VerdictAt(p) ==
  /\ At(p, "foreign") => ~IsControl(Current(p))
  /\ At(p, "finish") => Current(p) \in answered
  /\ At(p, "settle") /\ poller[p].verdict = "terminal" => Current(p) \in refused
  /\ At(p, "ledger") /\ poller[p].verdict = "terminal"
       => IsMalformed(Current(p)) \/ Unrecorded(Current(p))

VerdictInv == \A p \in Pollers : VerdictAt(p)

(* Only control updates are routed, answered, finished or settled.         *)
Handled == {"route", "present", "finish", "settle"}
HandledAt(p) == poller[p].at \in Handled => IsControl(Current(p))

HandledInv == \A p \in Pollers : HandledAt(p)

(* A process with nothing to tell.                                         *)
Silent(p) ==
  \/ poller[p].at \in {"down", "acquire", "poll", "update", "route", "present"}
  \/ poller[p].at \in {"settle", "ledger"} /\ poller[p].verdict # "terminal"

(* A process that carries no terminal verdict has nothing to account for.    *)
LEMMA SilentTellsTruth ==
  ASSUME NEW p \in Pollers, Silent(p)
  PROVE  VerdictAt(p)
BY DEF Silent, VerdictAt, At

(* A process whose memory a step leaves alone, or only marks, tells what it *)
(* told: the admin is never untold, nor a foreign update to be recorded.   *)
LEMMA VerdictStays ==
  ASSUME NEW p \in Pollers, VerdictAt(p), ToldGrows,
         At(p, "ledger") => Current(p) \in Updates,
         \A u \in Updates : Unrecorded(u) => Unrecorded(u)',
         poller'[p].at = poller[p].at, poller'[p].batch = poller[p].batch,
         poller'[p].verdict = poller[p].verdict
  PROVE  VerdictAt(p)'
BY DEF VerdictAt, At, Current, ToldGrows, IsMalformed

(* After these changes a process has nothing to tell.                      *)
LEMMA MovesAreSilent ==
  ASSUME UpdatesTypeOK, NEW p \in Pollers,
         \/ Leave(p) \/ Acknowledge(p) \/ GoWith(p, "settle", "retry")
         \/ GoWith(p, "ledger", "retry")
         \/ \E tries \in 0..MaxLedgerAttempts : PollAgain(p, tries)
         \/ \E point \in {"acquire", "poll", "route", "present"} : Go(p, point)
         \/ poller' = [poller EXCEPT ![p] = Down]
  PROVE  Silent(p)' /\ \A q \in Pollers \ {p} : poller'[q] = poller[q]
<1>1. poller \in [Pollers -> Process] /\ poller[p] \in Process
  BY DEF UpdatesTypeOK
<1>2. CASE Leave(p) \/ poller' = [poller EXCEPT ![p] = Down]
  BY <1>1, <1>2 DEF Leave, Down, Silent
<1>3. CASE Acknowledge(p)
  BY <1>1, <1>3 DEF Acknowledge, Silent, Process
<1>4. CASE GoWith(p, "settle", "retry") \/ GoWith(p, "ledger", "retry")
  BY <1>1, <1>4 DEF GoWith, Silent, Process
<1>5. CASE \E tries \in 0..MaxLedgerAttempts : PollAgain(p, tries)
  BY <1>1, <1>5 DEF PollAgain, Silent, Process
<1>6. CASE \E point \in {"acquire", "poll", "route", "present"} : Go(p, point)
  BY <1>1, <1>6 DEF Go, Silent, Process
<1> QED BY <1>2, <1>3, <1>4, <1>5, <1>6

(* A handler ends with nothing to tell.                                    *)
LEMMA EndsSilent ==
  ASSUME UpdatesTypeOK, NEW p \in Pollers, NEW acknowledged \in BOOLEAN,
         HandlerEnds(p, acknowledged)
  PROVE  Silent(p)' /\ \A q \in Pollers \ {p} : poller'[q] = poller[q]
BY MovesAreSilent DEF HandlerEnds

(* The memory of a process that is not, or goes on, handling an update.    *)
LEMMA MovesAreHandled ==
  ASSUME UpdatesTypeOK, NEW p \in Pollers, HandledAt(p),
         \/ poller' = poller
         \/ poller' = [poller EXCEPT ![p].lost = TRUE]
         \/ poller' = [poller EXCEPT ![p].stopping = TRUE]
         \/ poller' = [poller EXCEPT ![p].detached = TRUE]
         \/ Leave(p) \/ Acknowledge(p) \/ GetUpdates(p)
         \/ poller' = [poller EXCEPT ![p] = Down]
         \/ \E tries \in 0..MaxLedgerAttempts : PollAgain(p, tries)
         \/ \E point \in {"acquire", "poll", "foreign"} : Go(p, point)
         \/ \E v \in Verdicts : GoWith(p, "ledger", v)
         \/ /\ poller[p].at \in Handled \/ IsControl(Current(p))
            /\ \E point \in Handled :
                 \/ Go(p, point)
                 \/ \E v \in Verdicts : GoWith(p, point, v)
  PROVE  HandledAt(p)' /\ \A q \in Pollers \ {p} : poller'[q] = poller[q]
<1>1. poller \in [Pollers -> Process] /\ poller[p] \in Process
  BY DEF UpdatesTypeOK
<1> USE DEF HandledAt, Handled, Current, IsControl
<1>2. CASE poller' = poller
  BY <1>2
<1>3. CASE \/ poller' = [poller EXCEPT ![p].lost = TRUE]
           \/ poller' = [poller EXCEPT ![p].stopping = TRUE]
           \/ poller' = [poller EXCEPT ![p].detached = TRUE]
  BY <1>1, <1>3 DEF Process
<1>4. CASE Leave(p) \/ poller' = [poller EXCEPT ![p] = Down]
  BY <1>1, <1>4 DEF Leave, Down
<1>5. CASE Acknowledge(p)
  BY <1>1, <1>5 DEF Acknowledge, Process
<1>6. CASE GetUpdates(p)
  <2>1. CASE UNCHANGED poller
    BY <1>2, <2>1
  <2>2. CASE ~ UNCHANGED poller
    <3>1. PICK pending : poller' = [poller EXCEPT ![p].at = "update",
                                                  ![p].batch = pending]
      BY <1>6, <2>2 DEF GetUpdates
    <3> QED BY <1>1, <3>1 DEF Process
  <2> QED BY <2>1, <2>2
<1>7. CASE \E tries \in 0..MaxLedgerAttempts : PollAgain(p, tries)
  <2>1. PICK tries \in 0..MaxLedgerAttempts : PollAgain(p, tries)
    BY <1>7
  <2>2. /\ \A q \in Pollers \ {p} : poller'[q] = poller[q]
        /\ poller'[p].at = "poll"
    BY <1>1, <2>1 DEF PollAgain, Process
  <2> QED BY <2>2
<1>8. CASE \/ \E point \in {"acquire", "poll", "foreign"} : Go(p, point)
           \/ \E v \in Verdicts : GoWith(p, "ledger", v)
  BY <1>1, <1>8 DEF Go, GoWith, Process
<1>9. CASE /\ poller[p].at \in Handled \/ IsControl(Current(p))
           /\ \E point \in Handled :
                \/ Go(p, point)
                \/ \E v \in Verdicts : GoWith(p, point, v)
  BY <1>1, <1>9 DEF Go, GoWith, Process
<1> QED BY <1>2, <1>3, <1>4, <1>5, <1>6, <1>7, <1>8, <1>9

(* Only a control update comes to be routed.                               *)
LEMMA HandledKept ==
  ASSUME CursorsInv, HandledInv, UpdatesNext
  PROVE  HandledInv'
<1> USE DEF CursorsInv
<1>1. poller \in [Pollers -> Process]
  BY DEF UpdatesTypeOK
<1>2. ASSUME NEW p \in Pollers, HandledAt(p)',
             \A q \in Pollers \ {p} : poller'[q] = poller[q]
      PROVE  HandledInv'
  BY <1>2 DEF HandledInv, HandledAt, Current, IsControl
<1>3. ASSUME UNCHANGED poller PROVE HandledInv'
  BY <1>3 DEF HandledInv, HandledAt, Current, IsControl
<1>4. CASE Outside
  <2>1. ASSUME NEW p \in Pollers, Heartbeat(p) \/ Conflict(p) \/ Crash(p) \/ Stop(p)
        PROVE  HandledInv'
    BY <1>2, <2>1, MovesAreHandled DEF Heartbeat, Conflict, Crash, Stop,
       HandledInv
  <2> QED BY <1>3, <1>4, <2>1 DEF Outside, Arrive, LeaseExpires,
        ClaimGoesStale, HandlerStalls, Stale
<1>5. ASSUME NEW p \in Pollers, PollerStep(p) \/ Routes(p)
      PROVE  HandledInv'
  <2>1. HandledAt(p) /\ poller[p].tries \in 0..MaxLedgerAttempts
    BY <1>1 DEF HandledInv, Process
  <2>2. CASE Start(p) \/ Acquire(p) \/ LeaveLoop(p) \/ Detach(p) \/ GetUpdates(p)
    BY <1>2, <2>1, <2>2, MovesAreHandled DEF Start, Acquire, LeaveLoop, Detach
  <2>3. CASE Malformed(p)
    BY <1>2, <2>1, <2>3, MovesAreHandled DEF Malformed, Verdicts
  <2>4. CASE ClaimTelegramUpdate(p)
    <3>1. \/ Go(p, "foreign") \/ Acknowledge(p)
          \/ PollAgain(p, poller[p].tries)
          \/ \E v \in Verdicts : GoWith(p, "ledger", v)
          \/ IsControl(Current(p)) /\ Go(p, "route")
      BY <2>4 DEF ClaimTelegramUpdate, Verdicts
    <3> QED BY <1>2, <2>1, <3>1, MovesAreHandled DEF Handled
  <2>5. ASSUME NEW acknowledged \in BOOLEAN, HandlerEnds(p, acknowledged)
        PROVE  HandledInv'
    BY <1>2, <2>1, <2>5, MovesAreHandled DEF HandlerEnds, Verdicts
  <2>6. CASE FinishForeign(p)
    <3>1. Holds(p, Current(p)) \in BOOLEAN
      BY DEF Holds
    <3>2. \/ HandlerEnds(p, Holds(p, Current(p))) \/ HandlerEnds(p, FALSE)
          \/ PollAgain(p, poller[p].tries)
      BY <2>6 DEF FinishForeign
    <3> QED BY <1>2, <2>1, <2>5, <3>1, <3>2, MovesAreHandled
  <2>7. CASE Routes(p) \/ Presents(p)
    <3>1. /\ poller[p].at \in Handled
          /\ \E point \in Handled :
               \/ Go(p, point)
               \/ \E v \in Verdicts : GoWith(p, point, v)
      BY <2>7 DEF Routes, Route, Presents, Present, At, Handled, Verdicts
    <3> QED BY <1>2, <2>1, <3>1, MovesAreHandled
  <2>8. CASE Finish(p)
    <3>1. At(p, "finish") /\ (HandlerEnds(p, TRUE) \/ GoWith(p, "settle", "retry"))
      BY <2>8 DEF Finish
    <3> QED BY <1>2, <2>1, <2>5, <3>1, MovesAreHandled DEF At, Handled, Verdicts
  <2>9. CASE Settle(p)
    <3>1. (SettleAs(p) = "completed" /\ Holds(p, Current(p))) \in BOOLEAN
      OBVIOUS
    <3>2. \E acknowledged \in BOOLEAN : HandlerEnds(p, acknowledged)
      BY <2>9, <3>1 DEF Settle
    <3> QED BY <2>5, <3>2
  <2>10. CASE RecordFailure(p) \/ LedgerUnavailable(p)
    <3>1. \/ Leave(p) \/ Acknowledge(p)
          \/ PollAgain(p, 0) \/ /\ poller[p].tries + 1 < MaxLedgerAttempts
                                /\ PollAgain(p, poller[p].tries + 1)
      BY <1>1, <2>10, TelegramUpdatesAssumption
         DEF RecordFailure, LedgerUnavailable, Process
    <3>2. /\ 0 \in 0..MaxLedgerAttempts
          /\ poller[p].tries + 1 < MaxLedgerAttempts
               => poller[p].tries + 1 \in 0..MaxLedgerAttempts
      BY <1>1, TelegramUpdatesAssumption DEF Process
    <3> QED BY <1>2, <2>1, <3>1, <3>2, MovesAreHandled
  <2> QED
    BY <1>5, <2>2, <2>3, <2>4, <2>6, <2>7, <2>8, <2>9, <2>10 DEF PollerStep
<1> QED BY <1>4, <1>5 DEF UpdatesNext

(* A foreign update that is handled or closed is never set down as failed. *)
LEMMA UnrecordedStays ==
  ASSUME CursorsInv, HandledInv, UpdatesNext
  PROVE  \A u \in Updates : Unrecorded(u) => Unrecorded(u)'
<1> USE DEF CursorsInv, Unrecorded, Recordable, IsControl
<1>1. ASSUME UNCHANGED ledger
      PROVE  \A u \in Updates : Unrecorded(u) => Unrecorded(u)'
  BY <1>1
<1>2. ASSUME NEW w \in Updates, NEW c \in Pollers \cup {None},
             NEW s \in {"processing", "failed", "completed"}, Write(w, s, c),
             s = "failed" => IsControl(w)
      PROVE  \A u \in Updates : Unrecorded(u) => Unrecorded(u)'
  BY <1>2, WriteRow
<1>3. ASSUME NEW w \in Updates, NEW p \in Pollers,
             NEW s \in {"failed", "completed"}, FinishTelegramUpdate(p, w, s),
             s = "failed" => IsControl(w)
      PROVE  \A u \in Updates : Unrecorded(u) => Unrecorded(u)'
  BY <1>1, <1>2, <1>3 DEF FinishTelegramUpdate
<1>4. ASSUME NEW w \in Updates, NEW v, RecordTelegramUpdateFailure(w, v)
      PROVE  \A u \in Updates : Unrecorded(u) => Unrecorded(u)'
  <2>1. CASE Recordable(w)
    BY <1>4, <2>1, RecordRow
  <2> QED BY <1>1, <1>4, <2>1 DEF RecordTelegramUpdateFailure
<1>5. ASSUME NEW w \in Updates, Stale(w)
      PROVE  \A u \in Updates : Unrecorded(u) => Unrecorded(u)'
  <2>1. \A u \in Updates : ledger'[u].status = ledger[u].status
    BY <1>5 DEF Stale, UpdatesTypeOK, Row
  <2> QED BY <2>1
<1>6. CASE Outside
  BY <1>1, <1>5, <1>6 DEF Outside, Arrive, LeaseExpires, ClaimGoesStale,
    HandlerStalls, Heartbeat, Conflict, Crash, Stop
<1>7. ASSUME NEW p \in Pollers, PollerStep(p) \/ Routes(p)
      PROVE  \A u \in Updates : Unrecorded(u) => Unrecorded(u)'
  <2>1. poller[p].at \in InHand => Current(p) \in Updates
    BY CurrentInHand DEF CursorInv, CursorAt
  <2>2. CASE \/ Start(p) \/ Acquire(p) \/ LeaveLoop(p) \/ Detach(p)
             \/ GetUpdates(p) \/ Malformed(p) \/ Routes(p) \/ Presents(p)
    BY <1>1, <2>2 DEF Start, Acquire, LeaveLoop, Detach, GetUpdates, Malformed,
      Routes, Route, Presents, Present
  <2>3. CASE ClaimTelegramUpdate(p)
    <3>1. Current(p) \in Updates
      BY <2>1, <2>3 DEF ClaimTelegramUpdate, At, InHand
    <3>2. UNCHANGED ledger \/ Write(Current(p), "processing", p)
      BY <2>3 DEF ClaimTelegramUpdate
    <3> QED BY <1>1, <1>2, <3>1, <3>2
  <2>4. CASE FinishForeign(p) \/ Finish(p)
    <3>1. Current(p) \in Updates
      BY <2>1, <2>4 DEF FinishForeign, Finish, At, InHand, Handling
    <3>2. UNCHANGED ledger \/ FinishTelegramUpdate(p, Current(p), "completed")
      BY <2>4 DEF FinishForeign, Finish
    <3> QED BY <1>1, <1>3, <3>1, <3>2
  <2>5. CASE Settle(p)
    <3>1. Current(p) \in Updates /\ IsControl(Current(p))
      BY <2>1, <2>5 DEF Settle, At, InHand, Handling, HandledInv, HandledAt,
        Handled
    <3>2. SettleAs(p) \in {"failed", "completed"}
      BY DEF SettleAs
    <3>3. UNCHANGED ledger \/ FinishTelegramUpdate(p, Current(p), SettleAs(p))
      BY <2>5 DEF Settle
    <3> QED BY <1>1, <1>3, <3>1, <3>2, <3>3
  <2>6. CASE RecordFailure(p) \/ LedgerUnavailable(p)
    <3>1. Current(p) \in Updates
      BY <2>1, <2>6 DEF RecordFailure, LedgerUnavailable, At, InHand
    <3> QED BY <1>1, <1>4, <2>6, <3>1 DEF RecordFailure, LedgerUnavailable
  <2> QED BY <1>7, <2>2, <2>3, <2>4, <2>5, <2>6 DEF PollerStep
<1> QED BY <1>6, <1>7 DEF UpdatesNext

(* Whatever a process comes to tell is true when it does.                  *)
LEMMA VerdictKept ==
  ASSUME CursorsInv, VerdictInv, HandledInv, UpdatesNext
  PROVE  VerdictInv'
<1> USE DEF CursorsInv
<1>0. /\ \A u \in Updates : Unrecorded(u) => Unrecorded(u)'
      /\ \A q \in Pollers : At(q, "ledger") => Current(q) \in Updates
  BY UnrecordedStays, CurrentInHand DEF CursorInv, CursorAt, At, InHand
<1>1. ToldGrows
  BY OthersKept
<1>2. poller \in [Pollers -> Process]
  BY DEF UpdatesTypeOK
<1>3. ASSUME NEW q \in Pollers, poller'[q] = poller[q] PROVE VerdictAt(q)'
  BY <1>0, <1>1, <1>3, VerdictStays DEF VerdictInv
<1>4. ASSUME UNCHANGED poller PROVE VerdictInv'
  BY <1>3, <1>4 DEF VerdictInv
<1>5. ASSUME NEW p \in Pollers, \A q \in Pollers \ {p} : poller'[q] = poller[q],
             Silent(p)' \/ VerdictAt(p)'
      PROVE  VerdictInv'
  <2>1. VerdictAt(p)'
    BY <1>5, SilentTellsTruth DEF Silent, VerdictAt, At, Current
  <2> QED BY <1>3, <1>5, <2>1 DEF VerdictInv
<1>6. ASSUME NEW p \in Pollers,
             \/ poller' = [poller EXCEPT ![p].lost = TRUE]
             \/ poller' = [poller EXCEPT ![p].stopping = TRUE]
             \/ poller' = [poller EXCEPT ![p].detached = TRUE]
      PROVE  VerdictInv'
  <2>1. /\ \A q \in Pollers \ {p} : poller'[q] = poller[q]
        /\ poller'[p].at = poller[p].at /\ poller'[p].batch = poller[p].batch
        /\ poller'[p].verdict = poller[p].verdict
    BY <1>2, <1>6 DEF Process
  <2> QED BY <1>0, <1>1, <1>5, <2>1, VerdictStays DEF VerdictInv
<1>7. CASE Outside
  <2>1. ASSUME NEW p \in Pollers, Heartbeat(p) \/ Conflict(p) \/ Crash(p) \/ Stop(p)
        PROVE  VerdictInv'
    BY <1>5, <1>6, <2>1, MovesAreSilent DEF Heartbeat, Conflict, Crash, Stop
  <2> QED BY <1>4, <1>7, <2>1 DEF Outside, Arrive, LeaseExpires,
        ClaimGoesStale, HandlerStalls, Stale
<1>8. ASSUME NEW p \in Pollers, PollerStep(p) \/ Routes(p)
      PROVE  VerdictInv'
  <2>1. CASE Start(p) \/ Acquire(p) \/ LeaveLoop(p)
    BY <1>5, <2>1, MovesAreSilent DEF Start, Acquire, LeaveLoop
  <2>2. CASE Detach(p)
    BY <1>6, <2>2 DEF Detach
  <2>3. CASE GetUpdates(p)
    <3>1. ASSUME NEW pending,
                 poller' = [poller EXCEPT ![p].at = "update", ![p].batch = pending]
          PROVE  VerdictInv'
      <4>1. /\ \A q \in Pollers \ {p} : poller'[q] = poller[q]
            /\ Silent(p)'
        BY <1>2, <3>1 DEF Silent, Process
      <4> QED BY <1>5, <4>1
    <3> QED BY <1>4, <2>3, <3>1 DEF GetUpdates
  <2>4. CASE Malformed(p)
    <3>1. /\ \A q \in Pollers \ {p} : poller'[q] = poller[q]
          /\ poller'[p].at = "ledger" /\ poller'[p].batch = poller[p].batch
          /\ IsMalformed(Current(p))
      BY <1>2, <2>4 DEF Malformed, GoWith, Process
    <3> QED BY <1>5, <3>1 DEF VerdictAt, At, Current
  <2>5. CASE ClaimTelegramUpdate(p)
    <3>1. CASE Go(p, IF IsControl(Current(p)) THEN "route" ELSE "foreign")
      <4>1. CASE IsControl(Current(p))
        BY <1>5, <3>1, <4>1, MovesAreSilent
      <4>2. CASE ~IsControl(Current(p))
        <5>1. /\ \A q \in Pollers \ {p} : poller'[q] = poller[q]
              /\ poller'[p].at = "foreign"
              /\ poller'[p].batch = poller[p].batch
          BY <1>2, <3>1, <4>2 DEF Go, Process
        <5> QED BY <1>5, <4>2, <5>1 DEF VerdictAt, At, Current
      <4> QED BY <4>1, <4>2
    <3>2. poller[p].tries \in 0..MaxLedgerAttempts
      BY <1>2 DEF Process
    <3>3. ASSUME ledger[Current(p)].status = "processing", UNCHANGED ledger,
                 ~IsControl(Current(p)), GoWith(p, "ledger", "terminal")
          PROVE  VerdictInv'
      <4>1. /\ \A q \in Pollers \ {p} : poller'[q] = poller[q]
            /\ poller'[p].at = "ledger" /\ poller'[p].batch = poller[p].batch
            /\ Unrecorded(Current(p))'
        BY <1>2, <3>3 DEF GoWith, Process, Unrecorded, Recordable, IsControl,
          Current
      <4> QED BY <1>5, <4>1 DEF VerdictAt, At, Current
    <3>4. \/ Go(p, IF IsControl(Current(p)) THEN "route" ELSE "foreign")
          \/ Acknowledge(p) \/ PollAgain(p, poller[p].tries)
          \/ GoWith(p, "ledger", "retry")
          \/ /\ ledger[Current(p)].status = "processing" /\ UNCHANGED ledger
             /\ ~IsControl(Current(p)) /\ GoWith(p, "ledger", "terminal")
      BY <2>5 DEF ClaimTelegramUpdate
    <3> QED BY <1>5, <3>1, <3>2, <3>3, <3>4, MovesAreSilent
  <2>6. CASE FinishForeign(p)
    <3>1. poller[p].tries \in 0..MaxLedgerAttempts
      BY <1>2 DEF Process
    <3>2. \/ HandlerEnds(p, Holds(p, Current(p))) \/ HandlerEnds(p, FALSE)
          \/ PollAgain(p, poller[p].tries)
      BY <2>6 DEF FinishForeign
    <3>3. Holds(p, Current(p)) \in BOOLEAN
      BY DEF Holds
    <3> QED BY <1>5, <3>1, <3>2, <3>3, MovesAreSilent, EndsSilent
  <2>7. ASSUME NEW r \in {"ok", "terminal", "retry"}, Route(p, r)
        PROVE  VerdictInv'
    <3> DEFINE result == IF Aborted(p) THEN "retry" ELSE r
    <3>1. CASE result = "ok"
      BY <1>5, <2>7, <3>1, MovesAreSilent DEF Route
    <3>2. CASE result = "retry"
      BY <1>5, <2>7, <3>2, MovesAreSilent DEF Route
    <3>3. CASE result = "terminal"
      <4>1. /\ \A q \in Pollers \ {p} : poller'[q] = poller[q]
            /\ poller'[p].at = "settle" /\ poller'[p].batch = poller[p].batch
            /\ Current(p) \in refused'
        BY <1>2, <2>7, <3>3 DEF Route, GoWith, Process
      <4> QED BY <1>5, <4>1 DEF VerdictAt, At, Current
    <3> QED BY <3>1, <3>2, <3>3
  <2>8. ASSUME NEW must \in BOOLEAN, NEW got \in BOOLEAN, Present(p, must, got)
        PROVE  VerdictInv'
    <3>1. CASE GoWith(p, "settle", "retry")
      BY <1>5, <3>1, MovesAreSilent
    <3>2. CASE (got \/ ~must) /\ Go(p, "finish")
      <4>1. /\ \A q \in Pollers \ {p} : poller'[q] = poller[q]
            /\ poller'[p].at = "finish" /\ poller'[p].batch = poller[p].batch
            /\ Current(p) \in answered'
        BY <1>2, <2>8, <3>2 DEF Present, Go, Process
      <4> QED BY <1>5, <4>1 DEF VerdictAt, At, Current
    <3> QED BY <2>8, <3>1, <3>2 DEF Present
  <2>9. CASE Finish(p)
    BY <1>5, <2>9, MovesAreSilent, EndsSilent DEF Finish
  <2>10. CASE Settle(p)
    <3>1. (SettleAs(p) = "completed" /\ Holds(p, Current(p))) \in BOOLEAN
      OBVIOUS
    <3>2. \E acknowledged \in BOOLEAN : HandlerEnds(p, acknowledged)
      BY <2>10, <3>1 DEF Settle
    <3> QED BY <1>5, <3>2, EndsSilent
  <2>11. CASE RecordFailure(p) \/ LedgerUnavailable(p)
    <3>1. \/ Leave(p) \/ Acknowledge(p)
          \/ PollAgain(p, 0) \/ /\ poller[p].tries + 1 < MaxLedgerAttempts
                                /\ PollAgain(p, poller[p].tries + 1)
      BY <1>2, <2>11, TelegramUpdatesAssumption
         DEF RecordFailure, LedgerUnavailable, Process
    <3>2. /\ 0 \in 0..MaxLedgerAttempts
          /\ poller[p].tries + 1 < MaxLedgerAttempts
               => poller[p].tries + 1 \in 0..MaxLedgerAttempts
      BY <1>2, TelegramUpdatesAssumption DEF Process
    <3> QED BY <1>5, <3>1, <3>2, MovesAreSilent
  <2> QED
    BY <1>8, <2>1, <2>2, <2>3, <2>4, <2>5, <2>6, <2>7, <2>8, <2>9, <2>10, <2>11
       DEF PollerStep, Routes, Presents
<1> QED BY <1>7, <1>8 DEF UpdatesNext

(* The statements that may close a row: of a handler that ends, or of a    *)
(* recorded failure.  No other row changes.                                *)
LEMMA FinishAccounts ==
  ASSUME CursorsInv, AccountInv, ToldGrows, NEW p \in Pollers, NEW u \in Updates,
         NEW s \in {"failed", "completed"}, FinishTelegramUpdate(p, u, s),
         s = "completed" => (IsControl(u) => u \in answered' \cup refused')
  PROVE  AccountInv'
<1> USE DEF CursorsInv, AccountInv, Accounted, ToldGrows, IsControl, IsMalformed
<1>1. CASE UNCHANGED ledger
  BY <1>1
<1>2. CASE Write(u, s, None)
  <2>1. /\ \A w \in Updates \ {u} : ledger'[w] = ledger[w]
        /\ ledger'[u].status = s
    BY <1>2, WriteRow
  <2> QED BY <2>1
<1> QED BY <1>1, <1>2 DEF FinishTelegramUpdate

(* A recorded failure leaves every closed update accounted for.              *)
LEMMA RecordAccounts ==
  ASSUME CursorsInv, AccountInv, ToldGrows, NEW u \in Updates, NEW v,
         RecordTelegramUpdateFailure(u, v),
         v = "terminal" => IsMalformed(u) \/ Unrecorded(u)
  PROVE  AccountInv'
<1> USE DEF CursorsInv, AccountInv, Accounted, ToldGrows, IsControl, IsMalformed
<1>1. CASE ~Recordable(u)
  BY <1>1 DEF RecordTelegramUpdateFailure
<1>2. CASE Recordable(u)
  <2>1. /\ \A w \in Updates \ {u} : ledger'[w] = ledger[w]
        /\ ledger'[u].failures = ledger[u].failures + 1
        /\ ledger'[u].status = IF Quarantines(u, v) THEN "quarantined"
                                                    ELSE "failed"
    BY <1>2, RecordRow
  <2> QED BY <1>2, <2>1 DEF Quarantines, Unrecorded
<1> QED BY <1>1, <1>2

(* A statement that leaves every row as closed as it was, or opens none.   *)
LEMMA OpenAccounts ==
  ASSUME CursorsInv, AccountInv, ToldGrows,
         \/ UNCHANGED ledger
         \/ \E u \in Updates, p \in Pollers : Write(u, "processing", p)
         \/ \E u \in Updates : Stale(u)
  PROVE  AccountInv'
<1> USE DEF CursorsInv, AccountInv, Accounted, ToldGrows, IsControl, IsMalformed
<1>1. CASE UNCHANGED ledger
  BY <1>1
<1>2. ASSUME NEW u \in Updates, NEW p \in Pollers, Write(u, "processing", p)
      PROVE  AccountInv'
  <2>1. /\ \A w \in Updates \ {u} : ledger'[w] = ledger[w]
        /\ ledger'[u].status = "processing"
    BY <1>2, WriteRow
  <2> QED BY <2>1
<1>3. ASSUME NEW u \in Updates, Stale(u) PROVE AccountInv'
  <2>1. \A w \in Updates : /\ ledger'[w].status = ledger[w].status
                           /\ ledger'[w].failures = ledger[w].failures
    BY <1>3 DEF Stale, UpdatesTypeOK, Row
  <2> QED BY <2>1
<1> QED BY <1>1, <1>2, <1>3

(* Every step leaves what is closed accounted for.                         *)
LEMMA AccountKept ==
  ASSUME CursorsInv, VerdictInv, AccountInv, UpdatesNext
  PROVE  AccountInv'
<1>1. ToldGrows
  BY OthersKept DEF CursorsInv
<1>2. ASSUME NEW p \in Pollers, poller[p].at \in InHand
      PROVE  Current(p) \in Updates /\ VerdictAt(p)
  BY <1>2, CurrentInHand DEF CursorsInv, CursorInv, CursorAt, VerdictInv
<1>3. CASE Outside
  BY <1>1, <1>3, OpenAccounts DEF Outside, Arrive, LeaseExpires, ClaimGoesStale,
    HandlerStalls, Heartbeat, Conflict, Crash, Stop
<1>4. ASSUME NEW p \in Pollers, PollerStep(p) \/ Routes(p)
      PROVE  AccountInv'
  <2> USE DEF At, InHand, Handling
  <2>1. CASE \/ Start(p) \/ Acquire(p) \/ LeaveLoop(p) \/ Detach(p)
             \/ GetUpdates(p) \/ Malformed(p) \/ Routes(p)
             \/ Presents(p)
    BY <1>1, <2>1, OpenAccounts DEF Start, Acquire, LeaveLoop, Detach,
      GetUpdates, Malformed, Routes, Route, Presents, Present
  <2>2. CASE ClaimTelegramUpdate(p)
    BY <1>1, <1>2, <2>2, OpenAccounts DEF ClaimTelegramUpdate
  <2>3. CASE FinishForeign(p)
    BY <1>1, <1>2, <2>3, FinishAccounts, OpenAccounts DEF FinishForeign, VerdictAt
  <2>4. CASE Finish(p)
    <3>1. Current(p) \in answered'
      BY <1>1, <1>2, <2>4 DEF Finish, VerdictAt, ToldGrows
    <3> QED BY <1>1, <1>2, <2>4, <3>1, FinishAccounts, OpenAccounts DEF Finish
  <2>5. CASE Settle(p)
    <3>1. /\ SettleAs(p) \in {"failed", "completed"}
          /\ SettleAs(p) = "completed" => Current(p) \in refused'
      BY <1>1, <1>2, <2>5 DEF Settle, SettleAs, VerdictAt, ToldGrows
    <3>2. \/ FinishTelegramUpdate(p, Current(p), SettleAs(p))
          \/ UNCHANGED ledger
      BY <2>5 DEF Settle
    <3>3. Current(p) \in Updates
      BY <1>2, <2>5 DEF Settle
    <3> QED BY <1>1, <3>1, <3>2, <3>3, FinishAccounts, OpenAccounts
  <2>6. CASE RecordFailure(p) \/ LedgerUnavailable(p)
    BY <1>1, <1>2, <2>6, RecordAccounts, OpenAccounts
       DEF RecordFailure, LedgerUnavailable, VerdictAt
  <2> QED BY <1>4, <2>1, <2>2, <2>3, <2>4, <2>5, <2>6 DEF PollerStep
<1> QED BY <1>3, <1>4 DEF UpdatesNext

-----------------------------------------------------------------------------
(* What the poller promises                                                *)

LedgerInv == CursorsInv /\ VerdictInv /\ HandledInv /\ AccountInv

(* Cursors, verdicts and accounts together are inductive.                    *)
LEMMA LedgerInductive ==
  /\ UpdatesInit => LedgerInv
  /\ LedgerInv /\ [UpdatesNext]_updateVars => LedgerInv'
<1>1. ASSUME UpdatesInit PROVE LedgerInv
  <2>1. CursorsInv
    BY <1>1, CursorsInit
  <2>2. VerdictInv
    BY <1>1 DEF UpdatesInit, Down, VerdictInv, VerdictAt, At
  <2>3. AccountInv
    BY <1>1 DEF UpdatesInit, NoRow, AccountInv, Accounted
  <2>4. HandledInv
    BY <1>1 DEF UpdatesInit, Down, HandledInv, HandledAt, Handled
  <2> QED BY <2>1, <2>2, <2>3, <2>4 DEF LedgerInv
<1>2. ASSUME LedgerInv, [UpdatesNext]_updateVars PROVE LedgerInv'
  <2>1. CursorsInv'
    BY <1>2, CursorsKept DEF LedgerInv
  <2>2. CASE UpdatesNext
    BY <1>2, <2>1, <2>2, VerdictKept, HandledKept, AccountKept DEF LedgerInv
  <2>3. CASE UNCHANGED updateVars
    <3>1. VerdictInv'
      BY <1>2, <2>3 DEF LedgerInv, VerdictInv, VerdictAt, At, Current,
        Unrecorded, Recordable, IsMalformed, updateVars, historyVars
    <3>2. AccountInv'
      BY <1>2, <2>3 DEF LedgerInv, AccountInv, Accounted, updateVars, historyVars
    <3>3. HandledInv'
      BY <1>2, <2>3 DEF LedgerInv, HandledInv, HandledAt, Current, IsControl,
        updateVars
    <3> QED BY <2>1, <3>1, <3>2, <3>3 DEF LedgerInv
  <2> QED BY <1>2, <2>2, <2>3
<1> QED BY <1>1, <1>2

(* No update is swallowed: whatever crashes, stalls or overlaps, of what   *)
(* Telegram has forgotten the use case had an outcome and the message the  *)
(* outcome requires, if any, arrived, or it was refused for good, is of no *)
(* interest or quarantined; and a closed row is never reopened.            *)
THEOREM UpdatesPromiseHolds == UpdatesSpec => UpdatesPromise
<1>1. LedgerInv => ForgottenIsAccountedFor
  <2> SUFFICES ASSUME LedgerInv PROVE ForgottenIsAccountedFor
    OBVIOUS
  <2>1. ASSUME NEW u \in Updates, u < confirmed
        PROVE  Accounted(u) /\ IsClosed(u)
    BY <2>1 DEF LedgerInv, CursorsInv, ForgottenInv, AccountInv
  <2> QED BY <2>1 DEF ForgottenIsAccountedFor, Accounted, IsClosed, Closed
<1>2. LedgerInv /\ [UpdatesNext]_updateVars
        => [\A u \in Updates :
              ledger[u].status \in Closed => ledger'[u] = ledger[u]]_updateVars
  BY CursorsKept DEF LedgerInv, IsClosed
<1> QED
  BY LedgerInductive, <1>1, <1>2, PTL DEF UpdatesSpec, UpdatesPromise,
     ClosedForGood

-----------------------------------------------------------------------------
(* What holds of a review at every moment                                  *)

(* A preview in hand was sent; one whose buttons are put back or activated *)
(* is one the session was bound to.                                        *)
DeliveryAt(d) ==
  /\ deliverer[d].at \in {"create", "rebind", "recover", "activate"}
       => deliverer[d].new \in 1..sent
  /\ deliverer[d].at \in {"restore", "renew"} => deliverer[d].message \in bound
  /\ deliverer[d].at = "activate" => deliverer[d].new \in bound

(* The session is bound to a preview it was bound to, and is not decided   *)
(* before it exists.                                                       *)
SessionInv ==
  /\ Exists => session.message \in bound
  /\ session.decision # "none" => Exists

(* Somebody sends only a draft that is being published, alone; who is past *)
(* the decision works on a decided one, and who has an answer knows it.    *)
Outcomes == {"rejected", "published", "blocked"}

HandlerAt(h) ==
  /\ handler[h].at = "send" => draft = "publishing"
  /\ handler[h].at = "disable" => session.decision # "none"
  /\ handler[h].at = "done" => handler[h].result # "none"
  /\ handler[h].result \in Outcomes => handler[h].result = draft

OneSender ==
  \A h, g \in Handlers : handler[h].at = "send" /\ handler[g].at = "send" => h = g

ReviewInv ==
  /\ ReviewTypeOK /\ SessionInv
  /\ \A d \in Deliverers : DeliveryAt(d)
  /\ \A h \in Handlers : HandlerAt(h)
  /\ OneSender /\ InertUntilBound /\ DraftFollowsDecision

(* What a delivery, the admin's chat and time do: the draft and the        *)
(* handlers stay, the bound previews grow and a decision stands.           *)
DeliveryStep ==
  /\ UNCHANGED <<draft, handler>>
  /\ session'.decision = session.decision
  /\ session.decision # "none" => session' = session
  /\ bound \subseteq bound' /\ 1..sent \subseteq 1..sent'

-----------------------------------------------------------------------------
(* Deliveries                                                              *)

(* The memory of a delivery that goes on, or ends.                         *)
LEMMA ContinueType ==
  ASSUME ReviewTypeOK, NEW d \in Deliverers
  PROVE  /\ \A point \in {"idle", "restore", "renew", "disable", "send",
                          "create", "rebind", "recover", "activate"} :
              Continue(d, point)
                => /\ deliverer' \in [Deliverers -> Delivery]
                   /\ \A e \in Deliverers \ {d} : deliverer'[e] = deliverer[e]
                   /\ deliverer'[d].at = point
                   /\ deliverer'[d].new = deliverer[d].new
                   /\ deliverer'[d].message = deliverer[d].message
         /\ \A what \in {"none", "failed", "ready", "unavailable"} :
              Says(d, what)
                => /\ deliverer' \in [Deliverers -> Delivery]
                   /\ \A e \in Deliverers \ {d} : deliverer'[e] = deliverer[e]
                   /\ deliverer'[d].at = "idle"
<1>1. deliverer \in [Deliverers -> Delivery] /\ deliverer[d] \in Delivery
  BY DEF ReviewTypeOK
<1>2. NoDelivery \in Delivery
  BY ReviewSessionsAssumption DEF NoDelivery, Delivery
<1>3. ASSUME NEW point \in {"idle", "restore", "renew", "disable", "send",
                            "create", "rebind", "recover", "activate"},
             Continue(d, point)
      PROVE  /\ deliverer' \in [Deliverers -> Delivery]
             /\ \A e \in Deliverers \ {d} : deliverer'[e] = deliverer[e]
             /\ deliverer'[d].at = point
             /\ deliverer'[d].new = deliverer[d].new
             /\ deliverer'[d].message = deliverer[d].message
  <2>1. [deliverer[d] EXCEPT !.at = point] \in Delivery
    BY <1>1 DEF Delivery
  <2> QED BY <1>1, <1>3, <2>1 DEF Continue, Delivery
<1>4. ASSUME NEW what \in {"none", "failed", "ready", "unavailable"},
             Says(d, what)
      PROVE  /\ deliverer' \in [Deliverers -> Delivery]
             /\ \A e \in Deliverers \ {d} : deliverer'[e] = deliverer[e]
             /\ deliverer'[d].at = "idle"
  <2>1. [NoDelivery EXCEPT !.said = what] \in Delivery
    BY <1>2 DEF Delivery
  <2> QED BY <1>1, <1>4, <2>1 DEF Says, NoDelivery
<1> QED BY <1>3, <1>4

(* A delivery step keeps the invariant, when it keeps the types and leaves  *)
(* the row, the chat and the delivery that made it as they must be.        *)
LEMMA DeliveryKeeps ==
  ASSUME ReviewInv, DeliveryStep, ReviewTypeOK', NEW d \in Deliverers,
         SessionInv', shown' \subseteq bound', DeliveryAt(d)',
         \A e \in Deliverers \ {d} : deliverer'[e] = deliverer[e]
  PROVE  ReviewInv'
<1>1. ASSUME NEW e \in Deliverers PROVE DeliveryAt(e)'
  BY DEF ReviewInv, DeliveryStep, DeliveryAt
<1>2. ASSUME NEW h \in Handlers PROVE HandlerAt(h)'
  BY DEF ReviewInv, DeliveryStep, HandlerAt
<1>3. OneSender' /\ DraftFollowsDecision'
  BY DEF ReviewInv, DeliveryStep, OneSender, DraftFollowsDecision
<1> QED BY <1>1, <1>2, <1>3 DEF ReviewInv, InertUntilBound

(* A step of the delivery that moves only its own memory and the chat.     *)
LEMMA ChatStep ==
  ASSUME ReviewInv, NEW d \in Deliverers,
         UNCHANGED <<draft, session, bound, handler>>,
         deliverer' \in [Deliverers -> Delivery],
         \A e \in Deliverers \ {d} : deliverer'[e] = deliverer[e],
         sent' \in 0..MaxPreviews, sent' >= sent,
         gone' = gone, shown' \subseteq bound, mishaps' \in 0..MaxMishaps,
         DeliveryAt(d)'
  PROVE  ReviewInv' /\ DeliveryStep
<1>1. /\ sent \in 0..MaxPreviews /\ bound \subseteq 1..sent /\ gone \subseteq 1..sent
      /\ MaxPreviews \in Nat
  BY ReviewSessionsAssumption DEF ReviewInv, ReviewTypeOK
<1>2. 1..sent \subseteq 1..sent'
  BY <1>1
<1>3. ReviewTypeOK'
  BY <1>1, <1>2 DEF ReviewInv, ReviewTypeOK
<1>4. SessionInv'
  BY DEF ReviewInv, SessionInv, Exists
<1>5. DeliveryStep
  BY <1>2 DEF DeliveryStep
<1> QED BY <1>3, <1>4, <1>5, DeliveryKeeps

(* The mishap budget stays within its bound.                                 *)
LEMMA MishapType ==
  ASSUME ReviewTypeOK, Mishap \/ UNCHANGED mishaps
  PROVE  mishaps' \in 0..MaxMishaps
BY ReviewSessionsAssumption DEF ReviewTypeOK, Mishap

(* Finding the session, restoring, disabling or activating buttons, sending *)
(* a preview, asking whether the rebind was made, failing.                 *)
LEMMA ChatKept ==
  ASSUME ReviewInv, NEW d \in Deliverers,
         \/ FindSession(d) \/ RestoreControls(d) \/ DisablePreview(d)
         \/ SendReview(d) \/ RecoverRebind(d) \/ ActivateControls(d)
         \/ DeliveryFails(d)
  PROVE  ReviewInv' /\ DeliveryStep
<1>1. /\ ReviewTypeOK /\ SessionInv /\ DeliveryAt(d) /\ shown \subseteq bound
      /\ deliverer \in [Deliverers -> Delivery] /\ deliverer[d] \in Delivery
      /\ sent \in 0..MaxPreviews /\ MaxPreviews \in Nat
  BY ReviewSessionsAssumption DEF ReviewInv, ReviewTypeOK, InertUntilBound
<1>2. ASSUME UNCHANGED <<draft, session, bound, handler, sent, gone>>,
             Mishap \/ UNCHANGED mishaps, shown' \subseteq bound,
             deliverer' \in [Deliverers -> Delivery],
             \A e \in Deliverers \ {d} : deliverer'[e] = deliverer[e],
             DeliveryAt(d)'
      PROVE  ReviewInv' /\ DeliveryStep
  BY <1>1, <1>2, ChatStep, MishapType
<1>3. ASSUME UNCHANGED <<draft, session, bound, handler, sent, gone>>,
             Mishap \/ UNCHANGED mishaps, shown' \subseteq bound,
             \/ \E what \in {"failed", "ready", "unavailable"} : Says(d, what)
             \/ Continue(d, "send") \/ Continue(d, "disable")
      PROVE  ReviewInv' /\ DeliveryStep
  <2>1. CASE \E what \in {"failed", "ready", "unavailable"} : Says(d, what)
    BY <1>1, <1>2, <1>3, <2>1, ContinueType DEF DeliveryAt
  <2>2. CASE Continue(d, "send") \/ Continue(d, "disable")
    BY <1>1, <1>2, <1>3, <2>2, ContinueType DEF DeliveryAt
  <2> QED BY <1>3, <2>1, <2>2
<1>4. CASE FindSession(d)
  <2> DEFINE memory == [NoDelivery EXCEPT !.at = "restore",
                          !.message = session.message, !.old = session.expired]
  <2>1. CASE Undecided /\ deliverer' = [deliverer EXCEPT ![d] = memory]
    <3>1. memory \in Delivery /\ memory.at = "restore"
          /\ memory.message = session.message
      <4>1. /\ session.message \in 0..MaxPreviews /\ session.expired \in BOOLEAN
            /\ 0 \in 0..MaxPreviews
        BY <1>1 DEF ReviewTypeOK
      <4>2. NoDelivery \in Delivery
        BY <4>1 DEF NoDelivery, Delivery
      <4> QED BY <4>1, <4>2 DEF Delivery
    <3> HIDE DEF memory
    <3>2. /\ deliverer' \in [Deliverers -> Delivery]
          /\ \A e \in Deliverers \ {d} : deliverer'[e] = deliverer[e]
          /\ deliverer'[d].at = "restore" /\ deliverer'[d].message = session.message
      BY <1>1, <2>1, <3>1
    <3>3. session.message \in bound
      BY <1>1, <2>1 DEF Undecided, SessionInv
    <3> QED
      BY <1>1, <1>2, <1>4, <3>2, <3>3 DEF FindSession, chatVars, DeliveryAt
  <2> QED BY <1>1, <1>3, <1>4, <2>1 DEF FindSession, chatVars
<1>5. CASE RestoreControls(d)
  <2>1. deliverer[d].message \in bound
    BY <1>1, <1>5 DEF RestoreControls, DeliveryAt
  <2>2. CASE Continue(d, "renew")
    BY <1>1, <1>2, <1>5, <2>1, <2>2, ContinueType DEF RestoreControls, DeliveryAt
  <2> QED BY <1>1, <1>3, <1>5, <2>1, <2>2 DEF RestoreControls
<1>6. CASE DisablePreview(d)
  BY <1>1, <1>3, <1>6 DEF DisablePreview
<1>7. CASE SendReview(d)
  <2>1. CASE Says(d, "failed")
    BY <1>1, <1>7, <2>1, ChatStep, MishapType, ContinueType
       DEF SendReview, DeliveryAt
  <2>2. ASSUME deliverer' = [deliverer EXCEPT ![d].new = sent + 1, ![d].at =
                 IF deliverer[d].message = 0 THEN "create" ELSE "rebind"]
        PROVE  ReviewInv' /\ DeliveryStep
    <3> DEFINE point == IF deliverer[d].message = 0 THEN "create" ELSE "rebind"
    <3>1. sent + 1 \in 0..MaxPreviews /\ sent' = sent + 1
      BY <1>1, <1>7 DEF SendReview
    <3>2. [deliverer[d] EXCEPT !.new = sent + 1, !.at = point] \in Delivery
      BY <1>1, <3>1 DEF Delivery
    <3>3. /\ deliverer' \in [Deliverers -> Delivery]
          /\ \A e \in Deliverers \ {d} : deliverer'[e] = deliverer[e]
          /\ deliverer'[d].at = point /\ deliverer'[d].new = sent + 1
      BY <1>1, <2>2, <3>2 DEF Delivery
    <3>4. DeliveryAt(d)'
      BY <1>1, <3>1, <3>3 DEF DeliveryAt
    <3> QED BY <1>1, <1>7, <3>1, <3>3, <3>4, ChatStep, MishapType DEF SendReview
  <2> QED BY <1>7, <2>1, <2>2 DEF SendReview
<1>8. CASE RecoverRebind(d)
  <2>1. CASE Undecided /\ session.message = deliverer[d].new
             /\ Continue(d, "activate")
    <3>1. deliverer[d].new \in bound /\ deliverer[d].new \in 1..sent
      BY <1>1, <1>8, <2>1 DEF RecoverRebind, DeliveryAt, SessionInv, Undecided
    <3> QED
      BY <1>1, <1>2, <1>8, <2>1, <3>1, ContinueType
         DEF RecoverRebind, DeliveryAt, chatVars
  <2> QED BY <1>1, <1>3, <1>8, <2>1 DEF RecoverRebind, chatVars
<1>9. CASE ActivateControls(d)
  <2>1. deliverer[d].new \in bound
    BY <1>1, <1>9 DEF ActivateControls, DeliveryAt
  <2> QED BY <1>1, <1>3, <1>9, <2>1 DEF ActivateControls
<1>10. CASE DeliveryFails(d)
  BY <1>1, <1>3, <1>10 DEF DeliveryFails, chatVars
<1> QED
  BY <1>4, <1>5, <1>6, <1>7, <1>8, <1>9, <1>10

(* The statements on the row: a renewed review is an expired one, a        *)
(* session is created where there is none, and it is bound again only from *)
(* the preview that was read, undecided.                                   *)
LEMMA RowKept ==
  ASSUME ReviewInv, NEW d \in Deliverers,
         RenewSession(d) \/ CreateSession(d) \/ RebindSession(d)
  PROVE  ReviewInv' /\ DeliveryStep
<1> DEFINE Rows == [message : 0..MaxPreviews, decision : Actions \cup {"none"},
                    expired : BOOLEAN]
<1>1. /\ ReviewTypeOK /\ SessionInv /\ DeliveryAt(d) /\ shown \subseteq bound
      /\ deliverer \in [Deliverers -> Delivery] /\ deliverer[d] \in Delivery
      /\ sent \in 0..MaxPreviews /\ MaxPreviews \in Nat
      /\ session \in Rows /\ bound \subseteq 1..sent
  BY ReviewSessionsAssumption DEF ReviewInv, ReviewTypeOK, InertUntilBound
<1>2. ASSUME UNCHANGED <<draft, chatVars, handler>>, Mishap \/ UNCHANGED mishaps,
             session' \in Rows, session'.decision = session.decision,
             session.decision # "none" => session' = session,
             SessionInv', bound \subseteq bound', bound' \subseteq 1..sent,
             deliverer' \in [Deliverers -> Delivery], DeliveryAt(d)',
             \A e \in Deliverers \ {d} : deliverer'[e] = deliverer[e]
      PROVE  ReviewInv' /\ DeliveryStep
  <2>1. ReviewTypeOK'
    BY <1>1, <1>2, MishapType DEF ReviewTypeOK, chatVars
  <2>2. DeliveryStep /\ shown' \subseteq bound'
    BY <1>1, <1>2 DEF DeliveryStep, chatVars
  <2> QED BY <1>2, <2>1, <2>2, DeliveryKeeps
<1>3. ASSUME UNCHANGED <<draft, chatVars, handler>>, Mishap \/ UNCHANGED mishaps,
             UNCHANGED <<session, bound>>,
             deliverer' \in [Deliverers -> Delivery], DeliveryAt(d)',
             \A e \in Deliverers \ {d} : deliverer'[e] = deliverer[e]
      PROVE  ReviewInv' /\ DeliveryStep
  BY <1>1, <1>2, <1>3 DEF SessionInv, Exists
<1>4. ASSUME NEW m, m = deliverer[d].new, m \in 1..sent, Bind(m),
             session.decision = "none",
             UNCHANGED <<draft, chatVars, handler>>, Mishap \/ UNCHANGED mishaps,
             deliverer' \in [Deliverers -> Delivery], DeliveryAt(d)',
             \A e \in Deliverers \ {d} : deliverer'[e] = deliverer[e]
      PROVE  ReviewInv' /\ DeliveryStep
  <2>1. m \in 0..MaxPreviews
    BY <1>1, <1>4
  <2>2. /\ session' = [session EXCEPT !.message = m, !.expired = FALSE]
        /\ bound' = bound \cup {m}
    BY <1>4 DEF Bind
  <2>3. /\ session' \in Rows /\ session'.message = m
        /\ session'.decision = session.decision
    BY <1>1, <2>1, <2>2
  <2> HIDE DEF Rows
  <2> QED BY <1>1, <1>2, <1>4, <2>2, <2>3 DEF SessionInv, Exists
<1>5. CASE RenewSession(d)
  <2>1. CASE Continue(d, "disable")
    BY <1>1, <1>3, <1>5, <2>1, ContinueType DEF RenewSession, DeliveryAt
  <2>2. CASE /\ Undecided /\ session' = [session EXCEPT !.expired = FALSE]
             /\ Says(d, "ready")
    <3>1. session' \in Rows /\ session'.message = session.message
          /\ session'.decision = session.decision
      BY <1>1, <2>2
    <3>2. SessionInv' /\ session.decision = "none"
      BY <1>1, <1>5, <2>2, <3>1 DEF RenewSession, SessionInv, Exists, Undecided
    <3> QED
      BY <1>1, <1>2, <1>5, <2>2, <3>1, <3>2, ContinueType
         DEF RenewSession, DeliveryAt
  <2> QED BY <1>5, <2>1, <2>2 DEF RenewSession
<1>6. CASE CreateSession(d)
  <2>1. deliverer[d].new \in 1..sent
    BY <1>1, <1>6 DEF CreateSession, DeliveryAt
  <2>2. CASE Says(d, "failed") /\ UNCHANGED <<session, bound>>
    BY <1>1, <1>3, <1>6, <2>2, ContinueType DEF CreateSession, DeliveryAt
  <2>3. CASE ~Exists /\ Bind(deliverer[d].new)
    <3>1. session.decision = "none"
      BY <1>1, <2>3 DEF SessionInv
    <3>2. CASE Says(d, "failed")
      BY <1>1, <1>4, <1>6, <2>1, <2>3, <3>1, <3>2, ContinueType
         DEF CreateSession, DeliveryAt
    <3>3. CASE Continue(d, "activate")
      <4>1. DeliveryAt(d)'
        BY <1>1, <1>6, <2>1, <2>3, <3>3, ContinueType
           DEF CreateSession, DeliveryAt, Bind, chatVars
      <4> QED
        BY <1>1, <1>4, <1>6, <2>1, <2>3, <3>1, <3>3, <4>1, ContinueType
           DEF CreateSession
    <3> QED BY <1>6, <2>3, <3>2, <3>3 DEF CreateSession
  <2> QED BY <1>6, <2>2, <2>3 DEF CreateSession
<1>7. CASE RebindSession(d)
  <2>1. deliverer[d].new \in 1..sent
    BY <1>1, <1>7 DEF RebindSession, DeliveryAt
  <2>2. CASE UNCHANGED <<session, bound>> /\ Continue(d, "disable")
    BY <1>1, <1>3, <1>7, <2>2, ContinueType DEF RebindSession, DeliveryAt
  <2>3. CASE UNCHANGED <<session, bound>> /\ Continue(d, "recover")
    <3>1. DeliveryAt(d)'
      BY <1>1, <1>7, <2>1, <2>3, ContinueType
         DEF RebindSession, DeliveryAt, chatVars
    <3> QED
      BY <1>1, <1>3, <1>7, <2>3, <3>1, ContinueType DEF RebindSession
  <2>4. CASE Rebindable(d) /\ Bind(deliverer[d].new)
             /\ (Continue(d, "activate") \/ Continue(d, "recover"))
    <3>1. session.decision = "none"
      BY <2>4 DEF Rebindable, Undecided
    <3>2. DeliveryAt(d)'
      BY <1>1, <1>7, <2>1, <2>4, ContinueType
         DEF RebindSession, DeliveryAt, Bind, chatVars
    <3> QED
      BY <1>1, <1>4, <1>7, <2>1, <2>4, <3>1, <3>2, ContinueType
         DEF RebindSession
  <2> QED BY <1>7, <2>2, <2>3, <2>4 DEF RebindSession
<1> QED BY <1>5, <1>6, <1>7

-----------------------------------------------------------------------------
(* Presses                                                                 *)

(* What the handling of one press leaves alone.                            *)
PressStep(h) ==
  /\ UNCHANGED <<sent, gone, bound, deliverer>> /\ shown' \subseteq shown
  /\ mishaps' \in 0..MaxMishaps
  /\ handler' \in [Handlers -> Press]
  /\ \A g \in Handlers \ {h} : handler'[g] = handler[g]

(* The draft moves only before its fate is settled, with nobody else        *)
(* sending it.                                                             *)
DraftMoves(h) ==
  /\ draft \notin Outcomes
  /\ \A g \in Handlers \ {h} : handler[g].at # "send"

(* A press keeps the invariant when it keeps what concerns its own handler  *)
(* and moves the draft only when it may.                                   *)
LEMMA PressKeeps ==
  ASSUME ReviewInv, NEW h \in Handlers, PressStep(h),
         draft' \in {"review", "approved", "publishing", "published",
                     "rejected", "blocked"},
         draft' = draft \/ DraftMoves(h),
         \/ session' = session
         \/ \E a \in Actions : session' = [session EXCEPT !.decision = a] /\ Exists,
         HandlerAt(h)', DraftFollowsDecision',
         handler'[h].at = "send" => DraftMoves(h) \/ handler[h].at = "send"
  PROVE  ReviewInv'
<1>1. /\ session'.decision \in Actions \/ session' = session
      /\ session'.message = session.message
      /\ session' \in [message : 0..MaxPreviews, decision : Actions \cup {"none"},
                       expired : BOOLEAN]
  BY DEF ReviewInv, ReviewTypeOK
<1>2. ReviewTypeOK'
  BY <1>1 DEF ReviewInv, ReviewTypeOK, PressStep
<1>3. SessionInv' /\ InertUntilBound'
  BY <1>1 DEF ReviewInv, SessionInv, Exists, PressStep, InertUntilBound
<1>4. ASSUME NEW d \in Deliverers PROVE DeliveryAt(d)'
  BY DEF ReviewInv, DeliveryAt, PressStep
<1>5. ASSUME NEW g \in Handlers \ {h} PROVE HandlerAt(g)'
  <2>1. HandlerAt(g) /\ handler'[g] = handler[g]
    BY DEF ReviewInv, PressStep
  <2>2. session.decision # "none" => session'.decision # "none"
    BY <1>1 DEF Actions
  <2> QED BY <2>1, <2>2 DEF HandlerAt, DraftMoves
<1>6. OneSender'
  <2>1. OneSender
    BY DEF ReviewInv
  <2> QED BY <2>1 DEF OneSender, PressStep, DraftMoves
<1> QED BY <1>2, <1>3, <1>4, <1>5, <1>6 DEF ReviewInv

(* The memory of a press that goes on, or ends.                            *)
LEMMA PressType ==
  ASSUME ReviewTypeOK, NEW h \in Handlers
  PROVE  /\ \A point \in {"decide", "disable", "publish", "send", "done"} :
              Proceed(h, point)
                => /\ handler' \in [Handlers -> Press]
                   /\ \A g \in Handlers \ {h} : handler'[g] = handler[g]
                   /\ handler'[h].at = point
                   /\ handler'[h].result = handler[h].result
         /\ \A result \in {"rejected", "published", "blocked", "terminal", "retry"} :
              Ends(h, result)
                => /\ handler' \in [Handlers -> Press]
                   /\ \A g \in Handlers \ {h} : handler'[g] = handler[g]
                   /\ handler'[h].at = "done" /\ handler'[h].result = result
         /\ \A a \in Actions, m \in 0..MaxPreviews :
              PressButton(h, a, m)
                => /\ handler' \in [Handlers -> Press]
                   /\ \A g \in Handlers \ {h} : handler'[g] = handler[g]
                   /\ handler'[h].at = "decide" /\ handler'[h].result = "none"
<1>1. handler \in [Handlers -> Press] /\ handler[h] \in Press
  BY DEF ReviewTypeOK
<1>2. NoPress \in Press
  BY ReviewSessionsAssumption DEF NoPress, Press, Actions
<1>3. ASSUME NEW point \in {"decide", "disable", "publish", "send", "done"},
             Proceed(h, point)
      PROVE  /\ handler' \in [Handlers -> Press]
             /\ \A g \in Handlers \ {h} : handler'[g] = handler[g]
             /\ handler'[h].at = point /\ handler'[h].result = handler[h].result
  <2>1. [handler[h] EXCEPT !.at = point] \in Press
    BY <1>1 DEF Press
  <2> QED BY <1>1, <1>3, <2>1 DEF Proceed, Press
<1>4. ASSUME NEW result \in {"rejected", "published", "blocked", "terminal", "retry"},
             Ends(h, result)
      PROVE  /\ handler' \in [Handlers -> Press]
             /\ \A g \in Handlers \ {h} : handler'[g] = handler[g]
             /\ handler'[h].at = "done" /\ handler'[h].result = result
  <2>1. [NoPress EXCEPT !.at = "done", !.result = result] \in Press
    BY <1>2 DEF Press
  <2> QED BY <1>1, <1>4, <2>1 DEF Ends, NoPress
<1>5. ASSUME NEW a \in Actions, NEW m \in 0..MaxPreviews, PressButton(h, a, m)
      PROVE  /\ handler' \in [Handlers -> Press]
             /\ \A g \in Handlers \ {h} : handler'[g] = handler[g]
             /\ handler'[h].at = "decide" /\ handler'[h].result = "none"
  <2>1. [NoPress EXCEPT !.at = "decide", !.action = a, !.message = m] \in Press
    BY <1>2 DEF Press
  <2> QED BY <1>1, <1>5, <2>1 DEF PressButton, NoPress
<1> QED BY <1>3, <1>4, <1>5

(* A new press is handled from its start.                                  *)
LEMMA PressedKept ==
  ASSUME ReviewInv, NEW h \in Handlers, NEW a \in Actions,
         NEW m \in 0..MaxPreviews, PressButton(h, a, m),
         UNCHANGED <<draft, session, chatVars, bound, deliverer, mishaps>>
  PROVE  ReviewInv'
<1>1. PressStep(h) /\ handler'[h].at = "decide" /\ handler'[h].result = "none"
  BY PressType DEF PressStep, ReviewInv, ReviewTypeOK, chatVars
<1>2. HandlerAt(h)' /\ DraftFollowsDecision'
  BY <1>1 DEF HandlerAt, Outcomes, ReviewInv, DraftFollowsDecision
<1> QED
  BY <1>1, <1>2, PressKeeps DEF ReviewInv, ReviewTypeOK

(* So is one that ends without an outcome.                                 *)
LEMMA EndedKept ==
  ASSUME ReviewInv, NEW h \in Handlers,
         Ends(h, "retry") \/ Ends(h, "terminal"),
         UNCHANGED <<draft, session, chatVars, bound, deliverer>>,
         Mishap \/ UNCHANGED mishaps
  PROVE  ReviewInv'
<1>1. PressStep(h) /\ handler'[h].at = "done"
      /\ handler'[h].result \in {"retry", "terminal"}
  BY PressType, MishapType DEF PressStep, ReviewInv, chatVars
<1>2. HandlerAt(h)' /\ DraftFollowsDecision'
  BY <1>1 DEF HandlerAt, Outcomes, ReviewInv, DraftFollowsDecision
<1> QED
  BY <1>1, <1>2, PressKeeps DEF ReviewInv, ReviewTypeOK

(* The decision, what follows it, the publication and its end keep the     *)
(* invariant, and none of them touches a decided session.                  *)
LEMMA HandleKept ==
  ASSUME ReviewInv, NEW h \in Handlers, Handle(h)
  PROVE  ReviewInv' /\ (session.decision # "none" => session' = session)
<1>1. /\ ReviewTypeOK /\ SessionInv /\ HandlerAt(h) /\ DraftFollowsDecision
      /\ handler[h] \in Press /\ session.decision \in Actions \cup {"none"}
      /\ draft \in {"review", "approved", "publishing", "published", "rejected",
                    "blocked"}
      /\ \A g \in Handlers : handler[g].at = "send" => draft = "publishing"
  BY DEF ReviewInv, ReviewTypeOK, HandlerAt
<1>2. CASE DecideSession(h)
  <2>1. /\ UNCHANGED <<sent, gone, shown, bound, deliverer, mishaps>>
        /\ handler[h].at = "decide"
    BY <1>2 DEF DecideSession, chatVars
  <2>2. CASE /\ Exists /\ Decidable /\ Proceed(h, "disable")
             /\ session' = [session EXCEPT !.decision = handler[h].action]
             /\ draft' = IF handler[h].action = "publish" THEN "approved"
                                                          ELSE "rejected"
    <3>1. /\ handler[h].action \in Actions /\ draft = "review"
          /\ session'.decision = handler[h].action /\ session.decision = "none"
      BY <1>1, <2>2 DEF Press, Decidable, ReviewTypeOK
    <3>2. PressStep(h) /\ DraftMoves(h)
      BY <1>1, <2>1, <2>2, <3>1, PressType
         DEF PressStep, DraftMoves, Outcomes, ReviewTypeOK
    <3>3. handler'[h].at = "disable" /\ handler'[h].result = handler[h].result
      BY <1>1, <2>2, PressType
    <3>4. handler[h].result \notin Outcomes
      BY <1>1, <3>1 DEF HandlerAt, Outcomes
    <3>5. HandlerAt(h)' /\ DraftFollowsDecision'
      BY <2>2, <3>1, <3>3, <3>4 DEF HandlerAt, DraftFollowsDecision, Actions
    <3> QED BY <2>2, <3>1, <3>2, <3>3, <3>5, PressKeeps
  <2>3. CASE UNCHANGED <<draft, session>> /\ Resume(h)
    <3>1. PressStep(h) /\ handler'[h].at = "publish"
          /\ handler'[h].result = handler[h].result
      BY <1>1, <2>1, <2>3, PressType DEF PressStep, Resume, ReviewTypeOK
    <3>2. HandlerAt(h)' /\ DraftFollowsDecision'
      BY <1>1, <2>3, <3>1 DEF HandlerAt, DraftFollowsDecision
    <3> QED BY <1>1, <2>3, <3>1, <3>2, PressKeeps
  <2>4. CASE /\ UNCHANGED <<draft, session>> /\ session.decision = "reject"
             /\ Ends(h, "rejected")
    <3>1. PressStep(h) /\ handler'[h].at = "done"
          /\ handler'[h].result = "rejected"
      BY <1>1, <2>1, <2>4, PressType DEF PressStep, ReviewTypeOK
    <3>2. HandlerAt(h)' /\ DraftFollowsDecision'
      BY <1>1, <2>4, <3>1 DEF HandlerAt, DraftFollowsDecision
    <3> QED BY <1>1, <2>4, <3>1, <3>2, PressKeeps
  <2>5. CASE UNCHANGED <<draft, session>> /\ Ends(h, "terminal")
    BY <2>1, <2>5, EndedKept DEF chatVars
  <2> QED BY <1>2, <2>2, <2>3, <2>4, <2>5 DEF DecideSession
<1>3. CASE DisableControls(h)
  <2>1. /\ UNCHANGED <<draft, session, sent, gone, bound, deliverer>>
        /\ shown' \subseteq shown /\ (Mishap \/ UNCHANGED mishaps)
        /\ handler[h].at = "disable" /\ session.decision # "none"
    BY <1>1, <1>3 DEF DisableControls, HandlerAt
  <2>2. CASE Proceed(h, "publish")
    <3>1. PressStep(h) /\ handler'[h].at = "publish"
          /\ handler'[h].result = handler[h].result
      BY <1>1, <2>1, <2>2, PressType, MishapType DEF PressStep
    <3>2. HandlerAt(h)' /\ DraftFollowsDecision'
      BY <1>1, <2>1, <3>1 DEF HandlerAt, DraftFollowsDecision
    <3> QED BY <1>1, <2>1, <3>1, <3>2, PressKeeps
  <2>3. CASE session.decision # "publish" /\ Ends(h, "rejected")
    <3>1. PressStep(h) /\ handler'[h].at = "done"
          /\ handler'[h].result = "rejected"
      BY <1>1, <2>1, <2>3, PressType, MishapType DEF PressStep
    <3>2. draft = "rejected"
      BY <1>1, <2>1, <2>3 DEF DraftFollowsDecision, Actions
    <3>3. HandlerAt(h)' /\ DraftFollowsDecision'
      BY <1>1, <2>1, <3>1, <3>2 DEF HandlerAt, DraftFollowsDecision
    <3> QED BY <1>1, <2>1, <3>1, <3>3, PressKeeps
  <2> QED BY <1>3, <2>2, <2>3 DEF DisableControls
<1>4. CASE PublishApprovedDraft(h)
  <2>1. /\ UNCHANGED <<session, sent, gone, shown, bound, deliverer, mishaps>>
        /\ handler[h].at = "publish"
    BY <1>4 DEF PublishApprovedDraft, chatVars
  <2>2. ASSUME NEW outcome \in {"published", "blocked"}, Ends(h, outcome),
               draft' = outcome, draft = outcome \/ draft = "approved"
        PROVE  ReviewInv'
    <3>1. PressStep(h) /\ handler'[h].at = "done" /\ handler'[h].result = outcome
      BY <1>1, <2>1, <2>2, PressType DEF PressStep, ReviewTypeOK
    <3>2. HandlerAt(h)' /\ DraftFollowsDecision'
      BY <1>1, <2>1, <2>2, <3>1 DEF HandlerAt, DraftFollowsDecision
    <3>3. draft' = draft \/ DraftMoves(h)
      BY <1>1, <2>2 DEF DraftMoves, Outcomes
    <3> QED BY <1>1, <2>1, <2>2, <3>1, <3>2, <3>3, PressKeeps
  <2>3. CASE draft = "approved" /\ draft' = "publishing" /\ Proceed(h, "send")
    <3>1. PressStep(h) /\ handler'[h].at = "send"
          /\ handler'[h].result = handler[h].result
      BY <1>1, <2>1, <2>3, PressType DEF PressStep, ReviewTypeOK
    <3>2. DraftMoves(h)
      BY <1>1, <2>3 DEF DraftMoves, Outcomes
    <3>3. HandlerAt(h)' /\ DraftFollowsDecision'
      BY <1>1, <2>1, <2>3, <3>1 DEF HandlerAt, DraftFollowsDecision, Outcomes
    <3> QED BY <1>1, <2>1, <2>3, <3>1, <3>2, <3>3, PressKeeps
  <2>4. CASE Ends(h, "retry") /\ UNCHANGED draft
    BY <2>1, <2>4, EndedKept DEF chatVars
  <2> QED BY <1>4, <2>1, <2>2, <2>3, <2>4 DEF PublishApprovedDraft
<1>5. CASE SendPublication(h)
  <2>1. /\ UNCHANGED <<session, sent, gone, shown, bound, deliverer>>
        /\ Mishap \/ UNCHANGED mishaps
        /\ handler[h].at = "send" /\ draft = "publishing"
    BY <1>1, <1>5 DEF SendPublication, chatVars
  <2>2. DraftMoves(h)
    BY <2>1 DEF DraftMoves, Outcomes, ReviewInv, OneSender
  <2>3. ASSUME NEW result \in {"published", "retry"}, Ends(h, result),
               draft' = IF result = "published" THEN "published" ELSE "approved"
        PROVE  ReviewInv'
    <3>1. PressStep(h) /\ handler'[h].at = "done" /\ handler'[h].result = result
      BY <1>1, <2>1, <2>3, PressType, MishapType DEF PressStep
    <3>2. HandlerAt(h)' /\ DraftFollowsDecision'
      BY <1>1, <2>1, <2>3, <3>1 DEF HandlerAt, DraftFollowsDecision, Outcomes
    <3> QED BY <1>1, <2>1, <2>2, <2>3, <3>1, <3>2, PressKeeps
  <2>4. CASE UNCHANGED draft /\ Ends(h, "terminal")
    BY <2>1, <2>4, EndedKept DEF chatVars
  <2> QED BY <1>5, <2>1, <2>3, <2>4 DEF SendPublication
<1> QED BY <1>2, <1>3, <1>4, <1>5 DEF Handle

(* A call that throws, and the press it leaves to be tried again.          *)
LEMMA FailureKept ==
  ASSUME ReviewInv, NEW h \in Handlers, HandlerFails(h)
  PROVE  ReviewInv'
BY EndedKept DEF HandlerFails, chatVars

-----------------------------------------------------------------------------
(* The chat, the operator and time                                         *)

(* No step of the world undoes a decision or the invariant.                  *)
LEMMA WorldKept ==
  ASSUME ReviewInv, ReviewWorld
  PROVE  ReviewInv' /\ (session.decision # "none" => session' = session)
<1>1. CASE SessionExpires
  <2>1. /\ session'.decision = session.decision /\ session.decision = "none"
        /\ session'.message = session.message
        /\ ReviewTypeOK'
    BY <1>1 DEF SessionExpires, ReviewInv, ReviewTypeOK, Undecided, chatVars
  <2> QED
    BY <1>1, <2>1 DEF SessionExpires, ReviewInv, SessionInv, Exists, DeliveryAt,
      HandlerAt, OneSender, InertUntilBound, DraftFollowsDecision, chatVars
<1>2. CASE DeletePreview
  <2>1. ReviewTypeOK' /\ shown' \subseteq shown
    BY <1>2 DEF DeletePreview, ReviewInv, ReviewTypeOK
  <2> QED
    BY <1>2, <2>1 DEF DeletePreview, ReviewInv, SessionInv, Exists, DeliveryAt,
      HandlerAt, OneSender, InertUntilBound, DraftFollowsDecision
<1>3. CASE ReconcilePublication
  BY <1>3 DEF ReconcilePublication, ReviewInv, ReviewTypeOK, SessionInv, Exists,
    DeliveryAt, HandlerAt, Outcomes, OneSender, InertUntilBound,
    DraftFollowsDecision, chatVars
<1> QED BY <1>1, <1>2, <1>3 DEF ReviewWorld

-----------------------------------------------------------------------------
(* What a review promises                                                  *)

(* The invariant is inductive and a decision, once made, is final.           *)
LEMMA ReviewInductive ==
  /\ ReviewInit => ReviewInv
  /\ ReviewInv /\ [ReviewNext]_reviewVars
       => ReviewInv' /\ (session.decision # "none" => session' = session)
<1>1. ASSUME ReviewInit PROVE ReviewInv
  BY <1>1, ReviewSessionsAssumption DEF ReviewInit, ReviewInv, ReviewTypeOK,
    NoSession, NoDelivery, NoPress, Delivery, Press, Actions, SessionInv, Exists,
    DeliveryAt, HandlerAt, Outcomes, OneSender, InertUntilBound,
    DraftFollowsDecision
<1>2. ASSUME ReviewInv, ReviewNext
      PROVE  ReviewInv' /\ (session.decision # "none" => session' = session)
  <2>1. ASSUME NEW d \in Deliverers, Deliver(d) \/ DeliveryFails(d)
        PROVE  ReviewInv' /\ (session.decision # "none" => session' = session)
    BY <1>2, <2>1, ChatKept, RowKept DEF Deliver, DeliveryStep
  <2>2. ASSUME NEW h \in Handlers, Handle(h) \/ HandlerFails(h)
        PROVE  ReviewInv' /\ (session.decision # "none" => session' = session)
    BY <1>2, <2>2, HandleKept, FailureKept DEF HandlerFails
  <2>3. ASSUME NEW h \in Handlers, NEW a \in Actions, NEW m \in bound,
               PressButton(h, a, m),
               UNCHANGED <<draft, session, chatVars, bound, deliverer, mishaps>>
        PROVE  ReviewInv' /\ session' = session
    <3>1. m \in 0..MaxPreviews
      BY <1>2, ReviewSessionsAssumption DEF ReviewInv, ReviewTypeOK
    <3> QED BY <1>2, <2>3, <3>1, PressedKept
  <2> QED BY <1>2, <2>1, <2>2, <2>3, WorldKept DEF ReviewNext
<1>3. ASSUME ReviewInv, UNCHANGED reviewVars PROVE ReviewInv' /\ session' = session
  BY <1>3 DEF reviewVars, chatVars, ReviewInv, ReviewTypeOK, SessionInv, Exists,
    DeliveryAt, HandlerAt, OneSender, InertUntilBound, DraftFollowsDecision
<1> QED BY <1>1, <1>2, <1>3

(* However deliveries, presses, expiries and an operator race: buttons are *)
(* shown only on a preview the session was bound to, a decision is final,  *)
(* and the draft goes the way of that one decision.                        *)
THEOREM ReviewPromiseHolds == ReviewSpec => ReviewPromise
<1>1. ReviewInv => InertUntilBound /\ DraftFollowsDecision
  BY DEF ReviewInv
<1> QED
  BY ReviewInductive, <1>1, PTL DEF ReviewSpec, ReviewPromise, DecisionIsFinal

-----------------------------------------------------------------------------
(* The settings                                                            *)

SettingsRow ==
  [version : Nat, topics : SUBSET Presets, custom : SUBSET Customs,
   excluded : SUBSET Presets, schedule : BOOLEAN, run : {"ok", "publication_unresolved"}]
PressDoing == [at : {"draft", "save"}, press : Presses, version : Nat, seen : SettingsRow]
PanelDoing ==
  {NoPanel} \cup PressDoing \cup [at : {"bind"}, prompt : Nat]
    \cup [at : {"topic"}, prompt : Nat, topic : Customs, attempt : 1..2]
    \cup [at : {"saveTopic"}, prompt : Nat, topic : Customs, attempt : 1..2,
          seen : SettingsRow]

(* What was read of the row is what menus of its version show.              *)
WasRow(seen) ==
  /\ seen.version \in 1..row.version /\ Valid(seen) /\ Shows(seen) = drawn[seen.version]

(* The row is valid, and menus of its version show it.                      *)
RowInv ==
  /\ row \in SettingsRow /\ row.version \in 1..MaxVersion
  /\ drawn \in [1..MaxVersion -> Fields]
  /\ WasRow(row)

(* A press in hand was checked, of a menu no newer than the row it read.    *)
PressFits(m) ==
  /\ WasRow(m.seen) /\ m.version <= m.seen.version
  /\ m.press[1] # "excluded_toggle" => Valid(After(m.seen, m.press))
TopicFits(m) == WasRow(m.seen) /\ Valid(WithTopic(m.seen, m.topic))
PanelFits(m) ==
  /\ m.at \in {"draft", "save"} => PressFits(m)
  /\ m.at = "saveTopic" => TopicFits(m)

PanelInv ==
  /\ panel \in [Panels -> PanelDoing]
  /\ \A p \in Panels : PanelFits(panel[p])

(* Who is about to switch the schedule on has seen the pause reconciled,    *)
(* unless the pause came later.                                             *)
Resumes(m) ==
  /\ m.at = "save" /\ m.press = <<"interval", TRUE>>
  /\ m.seen.version = row.version
PauseInv ==
  /\ runDraft \in {"none", "publishing", "approved", "published"}
  /\ runDraft \in {"approved", "published"} => reconciled
  /\ row.run = "publication_unresolved" =>
       /\ row.schedule => reconciled
       /\ \A p \in Panels : Resumes(panel[p]) => reconciled

(* A prompt that was sent is bound, or in one hand, or saved, or gone.      *)
HasPrompt(m, n) == m.at \in {"bind", "topic", "saveTopic"} /\ m.prompt = n
PromptInv ==
  /\ prompts \in 0..MaxPrompts /\ prompt \in 0..prompts
  /\ saves \in [1..MaxPrompts -> {0, 1}]
  /\ \A n \in 1..MaxPrompts : (prompt = n \/ n > prompts) => saves[n] = 0
  /\ \A p \in Panels : \A n \in Nat : HasPrompt(panel[p], n) =>
       /\ n \in 1..prompts /\ prompt # n /\ saves[n] = 0
       /\ \A q \in Panels : HasPrompt(panel[q], n) => q = p

SettingsInv == RowInv /\ PanelInv /\ PauseInv /\ PromptInv

-----------------------------------------------------------------------------
(* What a press does to a row                                              *)

(* What can be pressed, by its name.                                        *)
PressNames == {"topic_add", "topic_remove", "excluded_toggle", "interval", "topics_all", "custom_clear"}

(* A press is a name and a value that goes with it.                         *)
LEMMA PressCases ==
  ASSUME NEW press \in Presses
  PROVE  /\ press[1] \in PressNames
         /\ press[1] \in {"topic_add", "topic_remove", "excluded_toggle"} => press[2] \in Presets
         /\ press[1] = "interval" => press[2] \in BOOLEAN /\ press = <<"interval", press[2]>>
         /\ press[1] # "interval" => press # <<"interval", TRUE>>
<1>0. press[1] # "interval" => press # <<"interval", TRUE>>
  <2>1. <<"interval", TRUE>>[1] = "interval"
    OBVIOUS
  <2> QED BY <2>1, Zenon
<1>1. CASE press \in {"topic_add", "topic_remove", "excluded_toggle"} \X Presets
  <2>1. press[1] \in {"topic_add", "topic_remove", "excluded_toggle"} /\ press[2] \in Presets
    BY <1>1
  <2> QED BY <1>0, <2>1 DEF PressNames
<1>2. CASE press \in {"interval"} \X BOOLEAN
  <2>1. press[1] = "interval" /\ press[2] \in BOOLEAN
    BY <1>2
  <2>2. press = <<"interval", press[2]>>
    BY <1>2
  <2> QED BY <1>0, <2>1, <2>2 DEF PressNames
<1>3. CASE press = <<"topics_all", TRUE>>
  <2>1. press[1] = "topics_all"
    BY <1>3
  <2> QED BY <1>0, <2>1 DEF PressNames
<1>4. CASE press = <<"custom_clear", TRUE>>
  <2>1. press[1] = "custom_clear"
    BY <1>4
  <2> QED BY <1>0, <2>1 DEF PressNames
<1> QED BY <1>1, <1>2, <1>3, <1>4, Zenon DEF Presses

(* A press changes one field.                                               *)
LEMMA AfterShows ==
  ASSUME NEW r \in SettingsRow, NEW press \in Presses
  PROVE  /\ After(r, press) \in SettingsRow
         /\ After(r, press).version = r.version /\ After(r, press).run = r.run
         /\ press[1] # "excluded_toggle" => After(r, press).excluded = r.excluded
         /\ press[1] = "excluded_toggle" =>
              After(r, press) = [r EXCEPT !.excluded = Toggled(r.excluded, press[2])]
         /\ press # <<"interval", TRUE>> =>
              (After(r, press).schedule => r.schedule)
         /\ Shows(After(r, press)) = After(Shows(r), press)
<1>0. press[1] \in PressNames
  BY PressCases
<1>1. CASE press[1] = "topic_add"
  <2>1. After(r, press) = [r EXCEPT !.topics = @ \cup {press[2]}]
        /\ After(Shows(r), press) = [Shows(r) EXCEPT !.topics = @ \cup {press[2]}]
    BY <1>1 DEF After
  <2>2. press[2] \in Presets /\ press # <<"interval", TRUE>>
    <3>1. press[1] # "interval"
      BY <1>1
    <3> QED BY <1>1, <3>1, PressCases
  <2> QED BY <1>1, <2>1, <2>2 DEF Shows, SettingsRow
<1>2. CASE press[1] = "topic_remove"
  <2>1. After(r, press) = [r EXCEPT !.topics = @ \ {press[2]}]
        /\ After(Shows(r), press) = [Shows(r) EXCEPT !.topics = @ \ {press[2]}]
    BY <1>2 DEF After
  <2>2. Shows([r EXCEPT !.topics = @ \ {press[2]}]) = [Shows(r) EXCEPT !.topics = @ \ {press[2]}]
    BY DEF Shows, SettingsRow
  <2> DEFINE new == [r EXCEPT !.topics = @ \ {press[2]}]
  <2>3. /\ new \in SettingsRow /\ new.version = r.version /\ new.run = r.run
        /\ new.excluded = r.excluded /\ (new.schedule => r.schedule)
    BY DEF SettingsRow
  <2>4. After(r, press) = new
    BY <2>1
  <2> HIDE DEF new
  <2> QED BY <1>2, <2>1, <2>2, <2>3, <2>4 DEF new
<1>3. CASE press[1] = "topics_all"
  <2>1. After(r, press) = [r EXCEPT !.topics = Presets]
        /\ After(Shows(r), press) = [Shows(r) EXCEPT !.topics = Presets]
    BY <1>3 DEF After
  <2> QED BY <1>3, <2>1 DEF Shows, SettingsRow
<1>4. CASE press[1] = "custom_clear"
  <2>1. After(r, press) = [r EXCEPT !.custom = {}]
        /\ After(Shows(r), press) = [Shows(r) EXCEPT !.custom = {}]
    BY <1>4 DEF After
  <2> QED BY <1>4, <2>1 DEF Shows, SettingsRow
<1>5. CASE press[1] = "interval"
  <2>1. After(r, press) = [r EXCEPT !.schedule = press[2]]
        /\ After(Shows(r), press) = [Shows(r) EXCEPT !.schedule = press[2]]
    BY <1>5 DEF After
  <2>2. press[2] \in BOOLEAN /\ press = <<"interval", press[2]>>
    BY <1>5, PressCases
  <2>3. /\ [r EXCEPT !.schedule = press[2]] \in SettingsRow
        /\ [r EXCEPT !.schedule = press[2]].version = r.version
        /\ [r EXCEPT !.schedule = press[2]].run = r.run
        /\ [r EXCEPT !.schedule = press[2]].excluded = r.excluded
    BY <2>2 DEF SettingsRow
  <2>4. press # <<"interval", TRUE>> => press[2] = FALSE
    BY <2>2
  <2>5. [r EXCEPT !.schedule = press[2]].schedule = press[2]
    BY DEF SettingsRow
  <2>6. Shows([r EXCEPT !.schedule = press[2]]) = [Shows(r) EXCEPT !.schedule = press[2]]
    BY DEF Shows, SettingsRow
  <2> QED BY <1>5, <2>1, <2>3, <2>4, <2>5, <2>6
<1>6. CASE press[1] = "excluded_toggle"
  <2>1. After(r, press) = [r EXCEPT !.excluded = Toggled(@, press[2])]
        /\ After(Shows(r), press) = [Shows(r) EXCEPT !.excluded = Toggled(@, press[2])]
    BY <1>6 DEF After
  <2>2. press[2] \in Presets
    BY <1>6, PressCases
  <2>3. Toggled(r.excluded, press[2]) \in SUBSET Presets
    BY <2>2 DEF Toggled, SettingsRow
  <2>4. press # <<"interval", TRUE>>
    <3>1. press[1] # "interval"
      BY <1>6
    <3> QED BY <3>1, PressCases
  <2>5. Shows(r).excluded = r.excluded
    BY DEF Shows
  <2> DEFINE new == Toggled(r.excluded, press[2])
  <2>6. After(r, press) = [r EXCEPT !.excluded = new]
        /\ After(Shows(r), press) = [Shows(r) EXCEPT !.excluded = new]
    BY <2>1, <2>5
  <2> HIDE DEF new
  <2> QED BY <1>6, <2>3, <2>4, <2>6 DEF Shows, SettingsRow, new
<1> QED BY <1>0, <1>1, <1>2, <1>3, <1>4, <1>5, <1>6 DEF PressNames

(* Topics can be counted.                                                   *)
LEMMA ChosenCounts ==
  ASSUME NEW r \in SettingsRow
  PROVE  /\ IsFiniteSet(r.topics) /\ IsFiniteSet(r.custom)
         /\ Cardinality(r.topics) \in Nat /\ Cardinality(r.custom) \in Nat
         /\ Chosen(r) = Cardinality(r.topics) + Cardinality(r.custom)
<1>1. r.topics \in SUBSET Presets /\ r.custom \in SUBSET Customs
  BY DEF SettingsRow
<1>2. IsFiniteSet(r.topics) /\ IsFiniteSet(r.custom)
  BY <1>1, SettingsAssumption, FS_Subset
<1> QED BY <1>2, FS_CardinalityType DEF Chosen

(* A press on a valid row that is not refused leaves a valid row.           *)
LEMMA NotRefusedIsValid ==
  ASSUME row \in SettingsRow, Valid(row), NEW press \in Presses, ~Refused(press)
  PROVE  Valid(After(row, press))
<1> DEFINE new == After(row, press)
<1>0. press[1] \in PressNames
  BY PressCases
<1>1. new \in SettingsRow
  BY AfterShows
<1>2. /\ Chosen(row) \in 1..TopicLimit /\ Cardinality(row.custom) <= CustomLimit
  BY DEF Valid
<1>3. /\ IsFiniteSet(row.topics) /\ IsFiniteSet(row.custom)
      /\ Cardinality(row.topics) \in Nat /\ Cardinality(row.custom) \in Nat
      /\ Chosen(row) = Cardinality(row.topics) + Cardinality(row.custom)
  BY ChosenCounts
<1>4. /\ Cardinality(new.topics) \in Nat /\ Cardinality(new.custom) \in Nat
      /\ Chosen(new) = Cardinality(new.topics) + Cardinality(new.custom)
  BY <1>1, ChosenCounts
<1>5. CASE press[1] = "topic_add"
  <2>1. new.topics = row.topics \cup {press[2]} /\ new.custom = row.custom
    BY <1>5 DEF After, SettingsRow
  <2>2. press[2] \notin row.topics => Chosen(row) < TopicLimit
    BY <1>2, <1>3, <1>5, SettingsAssumption DEF Refused
  <2>3. Cardinality(new.topics) = IF press[2] \in row.topics THEN Cardinality(row.topics)
                                  ELSE Cardinality(row.topics) + 1
    BY <1>3, <2>1, FS_AddElement
  <2> QED BY <1>2, <1>3, <1>4, <2>1, <2>2, <2>3, SettingsAssumption DEF Valid
<1>6. CASE press[1] = "topic_remove"
  <2>1. new.topics = row.topics \ {press[2]} /\ new.custom = row.custom
    BY <1>6 DEF After, SettingsRow
  <2>2. Chosen(new) # 0
    BY <1>6 DEF Refused
  <2>3. Cardinality(new.topics) <= Cardinality(row.topics)
    BY <1>3, <2>1, FS_Subset
  <2> QED BY <1>2, <1>3, <1>4, <2>1, <2>2, <2>3, SettingsAssumption DEF Valid
<1>7. CASE press[1] = "topics_all"
  <2>1. new.topics = Presets /\ new.custom = row.custom
    BY <1>7 DEF After, SettingsRow
  <2>2. Cardinality(Presets) # 0
    BY SettingsAssumption, FS_EmptySet
  <2>3. Cardinality(Presets) + Cardinality(row.custom) <= TopicLimit
    BY <1>3, <1>4, <1>7, <2>1, SettingsAssumption DEF Refused
  <2> QED BY <1>2, <1>3, <1>4, <2>1, <2>2, <2>3, SettingsAssumption DEF Valid
<1>8. CASE press[1] = "custom_clear"
  <2>1. new.topics = row.topics /\ new.custom = {}
    BY <1>8 DEF After, SettingsRow
  <2>2. Chosen(new) # 0
    BY <1>8 DEF Refused
  <2>3. Cardinality(new.custom) = 0
    BY <2>1, FS_EmptySet
  <2> QED BY <1>2, <1>3, <1>4, <2>1, <2>2, <2>3, SettingsAssumption DEF Valid
<1>9. CASE press[1] \in {"interval", "excluded_toggle"}
  <2>1. new.topics = row.topics /\ new.custom = row.custom
    <3>1. CASE press[1] = "interval"
      BY <3>1 DEF After, SettingsRow
    <3>2. CASE press[1] = "excluded_toggle"
      BY <3>2 DEF After, SettingsRow
    <3> QED BY <1>9, <3>1, <3>2
  <2> QED BY <1>2, <1>3, <1>4, <2>1 DEF Valid
<1> QED BY <1>0, <1>5, <1>6, <1>7, <1>8, <1>9 DEF PressNames

(* A topic that finds room leaves a valid row.                              *)
LEMMA RoomIsValid ==
  ASSUME row \in SettingsRow, Valid(row), HasRoom(row), NEW topic \in Customs
  PROVE  Valid(WithTopic(row, topic))
<1> DEFINE new == WithTopic(row, topic)
<1>1. new \in SettingsRow /\ new.topics = row.topics /\ new.custom = row.custom \cup {topic}
  BY DEF WithTopic, SettingsRow
<1>2. /\ IsFiniteSet(row.custom)
      /\ Cardinality(row.topics) \in Nat /\ Cardinality(row.custom) \in Nat
      /\ Chosen(row) = Cardinality(row.topics) + Cardinality(row.custom)
  BY ChosenCounts
<1>3. Chosen(new) = Cardinality(new.topics) + Cardinality(new.custom)
  BY <1>1, ChosenCounts
<1>4. Cardinality(new.custom) = IF topic \in row.custom THEN Cardinality(row.custom)
                                ELSE Cardinality(row.custom) + 1
  BY <1>1, <1>2, FS_AddElement
<1>5. /\ Chosen(row) \in 1..TopicLimit /\ Cardinality(row.custom) <= CustomLimit
      /\ Chosen(row) < TopicLimit /\ Cardinality(row.custom) < CustomLimit
  BY DEF Valid, HasRoom
<1> QED BY <1>1, <1>2, <1>3, <1>4, <1>5, SettingsAssumption DEF Valid

(* Valid looks at the topics only.                                          *)
LEMMA ValidSame ==
  ASSUME NEW r, NEW s, r.topics = s.topics, r.custom = s.custom, Valid(r)
  PROVE  Valid(s)
BY DEF Valid, Chosen

-----------------------------------------------------------------------------
(* Each step keeps the invariant                                           *)

(* The first row has a topic, and every menu would show it.                 *)
LEMMA SettingsBegin == SettingsInit => SettingsInv
<1> SUFFICES ASSUME SettingsInit PROVE SettingsInv
  OBVIOUS
<1>1. PICK x \in Presets :
        row = [version |-> 1, topics |-> {x}, custom |-> {}, excluded |-> {},
               schedule |-> TRUE, run |-> "ok"]
  BY SettingsAssumption DEF SettingsInit
<1>2. row \in SettingsRow /\ row.version \in 1..MaxVersion
  BY <1>1, SettingsAssumption DEF SettingsRow
<1>3. Valid(row)
  <2>1. Cardinality({x}) = 1 /\ Cardinality({}) = 0
    BY FS_Singleton, FS_EmptySet
  <2> QED BY <1>1, <2>1, SettingsAssumption DEF Valid, Chosen
<1>4. Shows(row) \in Fields
  BY <1>2 DEF Shows, Fields, SettingsRow
<1>5. drawn \in [1..MaxVersion -> Fields] /\ drawn[row.version] = Shows(row)
  BY <1>2, <1>4 DEF SettingsInit
<1>6. RowInv
  BY <1>1, <1>2, <1>3, <1>5 DEF RowInv, WasRow
<1>7. panel \in [Panels -> PanelDoing] /\ \A p \in Panels : panel[p] = NoPanel
  BY DEF SettingsInit, PanelDoing
<1>8. PanelInv
  BY <1>7 DEF PanelInv, PanelFits, NoPanel
<1>9. PauseInv
  BY <1>1 DEF PauseInv, SettingsInit
<1>10. PromptInv
  BY <1>7, SettingsAssumption DEF PromptInv, SettingsInit, HasPrompt, NoPanel
<1> QED BY <1>6, <1>8, <1>9, <1>10 DEF SettingsInv

(* What a panel has in hand, by what it is at.                              *)
LEMMA PanelCases ==
  ASSUME NEW m \in PanelDoing
  PROVE  /\ m.at \in {"idle", "draft", "save", "bind", "topic", "saveTopic"}
         /\ m.at = "idle" => m = NoPanel
         /\ m.at \in {"draft", "save"} => m \in PressDoing
         /\ m.at \in {"bind", "topic", "saveTopic"} => m.prompt \in Nat
         /\ m.at \in {"topic", "saveTopic"} => m.topic \in Customs /\ m.attempt \in 1..2
         /\ m.at = "saveTopic" => m.seen \in SettingsRow
BY DEF PanelDoing, PressDoing, NoPanel

(* Nothing in hand fits anything.                                           *)
LEMMA NoPanelFits ==
  /\ NoPanel \in PanelDoing /\ PanelFits(NoPanel) /\ ~Resumes(NoPanel)
  /\ \A n : ~HasPrompt(NoPanel, n)
BY DEF NoPanel, PanelDoing, PanelFits, Resumes, HasPrompt

(* The row stays, and one panel takes something in hand that fits it.       *)
LEMMA PanelMoves ==
  ASSUME SettingsInv, NEW p \in Panels, NEW m \in PanelDoing, PanelFits(m),
         panel' = [panel EXCEPT ![p] = m], UNCHANGED <<row, drawn>>
  PROVE  /\ RowInv' /\ PanelInv'
         /\ \A q \in Panels : panel'[q] = IF q = p THEN m ELSE panel[q]
<1>1. /\ panel' \in [Panels -> PanelDoing]
      /\ \A q \in Panels : panel'[q] = IF q = p THEN m ELSE panel[q]
  BY DEF SettingsInv, PanelInv
<1>2. RowInv'
  BY DEF SettingsInv, RowInv, WasRow
<1>3. ASSUME NEW k, PanelFits(k) PROVE PanelFits(k)'
  BY <1>3 DEF PanelFits, PressFits, TopicFits, WasRow
<1>4. ASSUME NEW q \in Panels PROVE PanelFits(panel[q])'
  <2>1. PanelFits(panel'[q])
    BY <1>1 DEF SettingsInv, PanelInv
  <2> QED BY <2>1 DEF PanelFits, PressFits, TopicFits, WasRow
<1> QED BY <1>1, <1>2, <1>4 DEF PanelInv

(* Nothing moves but a panel, which is not about to resume what is paused.  *)
LEMMA PauseStays ==
  ASSUME SettingsInv, NEW p \in Panels, NEW m \in PanelDoing,
         \A q \in Panels : panel'[q] = IF q = p THEN m ELSE panel[q],
         UNCHANGED <<row, runDraft, reconciled>>,
         Resumes(m) /\ row.run = "publication_unresolved" => reconciled
  PROVE  PauseInv'
<1>1. ASSUME NEW q \in Panels, Resumes(panel[q])', row.run = "publication_unresolved"
      PROVE  reconciled
  <2>1. CASE q = p
    BY <1>1, <2>1 DEF Resumes
  <2>2. CASE q # p
    BY <1>1, <2>2 DEF Resumes, SettingsInv, PauseInv
  <2> QED BY <2>1, <2>2
<1> QED BY <1>1 DEF SettingsInv, PauseInv

(* A panel that takes no prompt in hand leaves the prompts as they are.     *)
LEMMA PromptStays ==
  ASSUME SettingsInv, NEW p \in Panels, NEW m \in PanelDoing,
         \A q \in Panels : panel'[q] = IF q = p THEN m ELSE panel[q],
         UNCHANGED <<prompt, prompts, saves>>,
         \A n \in Nat : HasPrompt(m, n) => HasPrompt(panel[p], n)
  PROVE  PromptInv'
<1>1. \A q \in Panels : \A n \in Nat : HasPrompt(panel'[q], n) => HasPrompt(panel[q], n)
  OBVIOUS
<1> QED BY <1>1 DEF SettingsInv, PromptInv, HasPrompt

(* The row changes with its version: what fitted fits, but is of old.       *)
LEMMA RowChanges ==
  ASSUME SettingsInv, NEW r \in SettingsRow, Valid(r), Changed(r)
  PROVE  /\ RowInv' /\ row' = [r EXCEPT !.version = row.version + 1]
         /\ row'.version = row.version + 1
         /\ row'.run = r.run /\ row'.schedule = r.schedule
         /\ Shows(row') = Shows(r)
         /\ \A k : PanelFits(k) => PanelFits(k)' /\ (k.at = "save" => ~Resumes(k)')
<1>1. /\ row.version < MaxVersion /\ row.version \in 1..MaxVersion
      /\ row' = [r EXCEPT !.version = row.version + 1]
      /\ drawn' = [drawn EXCEPT ![row.version + 1] = Shows(r)]
  BY DEF Changed, SettingsInv, RowInv
<1>2. /\ row' \in SettingsRow /\ row'.version = row.version + 1
      /\ row'.topics = r.topics /\ row'.custom = r.custom /\ row'.excluded = r.excluded
      /\ row'.run = r.run /\ row'.schedule = r.schedule
  BY <1>1, SettingsAssumption DEF SettingsRow
<1>3. Shows(row') = Shows(r) /\ Shows(r) \in Fields
  BY <1>2 DEF Shows, Fields, SettingsRow
<1>4. Valid(row')
  BY <1>2, ValidSame
<1>5. row.version + 1 \in 1..MaxVersion /\ row'.version \in 1..MaxVersion
  BY <1>1, <1>2, SettingsAssumption
<1>6. /\ drawn' \in [1..MaxVersion -> Fields] /\ drawn'[row.version + 1] = Shows(r)
      /\ \A v \in 1..row.version : drawn'[v] = drawn[v]
  BY <1>1, <1>3, <1>5 DEF SettingsInv, RowInv
<1>7. RowInv'
  BY <1>2, <1>3, <1>4, <1>5, <1>6 DEF RowInv, WasRow
<1>8. ASSUME NEW seen, WasRow(seen) PROVE WasRow(seen)'
  BY <1>1, <1>2, <1>6, <1>8 DEF WasRow
<1>9. ASSUME NEW k, PanelFits(k) PROVE PanelFits(k)'
  BY <1>8, <1>9 DEF PanelFits, PressFits, TopicFits
<1>10. ASSUME NEW k, PanelFits(k), k.at = "save" PROVE ~Resumes(k)'
  <2>1. k.seen.version \in 1..row.version /\ row.version \in Nat
    BY <1>1, <1>10, SettingsAssumption DEF PanelFits, PressFits, WasRow
  <2>2. k.seen.version # row'.version
    BY <1>2, <2>1
  <2> QED BY <2>2, Zenon DEF Resumes
<1> QED BY <1>1, <1>2, <1>3, <1>7, <1>9, <1>10

(* One panel is done, or none moves, as the row changes.                    *)
LEMMA PanelsOverChange ==
  ASSUME SettingsInv, NEW r \in SettingsRow, Valid(r), Changed(r),
         panel' \in [Panels -> PanelDoing],
         \A q \in Panels : panel'[q] \in {NoPanel, panel[q]}
  PROVE  PanelInv' /\ \A q \in Panels : ~Resumes(panel[q])'
<1>1. ASSUME NEW q \in Panels PROVE PanelFits(panel[q])' /\ ~Resumes(panel[q])'
  <2>1. PanelFits(panel'[q])
    BY NoPanelFits DEF SettingsInv, PanelInv
  <2>2. PICK k : k = panel'[q]
    OBVIOUS
  <2>3. PanelFits(k)' /\ (k.at = "save" => ~Resumes(k)')
    BY <2>1, <2>2, RowChanges
  <2>4. ~Resumes(k)'
    BY <2>3 DEF Resumes
  <2> QED BY <2>2, <2>3, <2>4 DEF Resumes, PanelFits, PressFits, TopicFits, WasRow
<1> QED BY <1>1 DEF PanelInv

(* What a press writes over the row it was checked against.                 *)
LEMMA WrittenFits ==
  ASSUME SettingsInv, NEW m \in PressDoing, PanelFits(m)
  PROVE  /\ Written(m.seen, m.press) \in SettingsRow
         /\ Valid(Written(m.seen, m.press))
         /\ Written(m.seen, m.press).run = row.run
         /\ m.version = row.version =>
              /\ m.seen.version = row.version
              /\ Shows(Written(m.seen, m.press)) = After(drawn[m.version], m.press)
              /\ m.press # <<"interval", TRUE>> =>
                   (Written(m.seen, m.press).schedule => row.schedule)
<1> DEFINE new == After(m.seen, m.press)
           w == Written(m.seen, m.press)
<1>1. /\ row \in SettingsRow /\ WasRow(row) /\ row.version \in 1..MaxVersion
      /\ m.press \in Presses /\ m.seen \in SettingsRow /\ m.version \in Nat
  BY DEF SettingsInv, RowInv, PressDoing
<1>2. PressFits(m)
  <2>1. m.at \in {"draft", "save"}
    BY DEF PressDoing
  <2> QED BY <2>1 DEF PanelFits
<1>3. m.version = row.version => /\ m.seen.version = row.version
                                 /\ Shows(m.seen) = Shows(row)
                                 /\ Shows(row) = drawn[m.version]
  <2>1. m.seen.version \in 1..row.version /\ m.version <= m.seen.version /\ row.version \in Nat
    BY <1>1, <1>2, SettingsAssumption DEF PressFits, WasRow
  <2> QED BY <1>1, <1>2, <2>1 DEF PressFits, WasRow
<1>4. Shows(m.seen) = Shows(row) => /\ m.seen.topics = row.topics /\ m.seen.custom = row.custom
                                    /\ m.seen.excluded = row.excluded
                                    /\ m.seen.schedule = row.schedule
  <2> SUFFICES ASSUME Shows(m.seen) = Shows(row)
               PROVE  /\ m.seen.topics = row.topics /\ m.seen.custom = row.custom
                      /\ m.seen.excluded = row.excluded /\ m.seen.schedule = row.schedule
    OBVIOUS
  <2>1. \A f \in {"topics", "custom", "excluded", "schedule"} : m.seen[f] = row[f]
    BY DEF Shows
  <2> QED BY <2>1
<1>5. /\ new \in SettingsRow /\ new.version = m.seen.version
      /\ m.press[1] # "excluded_toggle" => new.excluded = m.seen.excluded
      /\ m.press[1] = "excluded_toggle" =>
           new = [m.seen EXCEPT !.excluded = Toggled(m.seen.excluded, m.press[2])]
      /\ m.press # <<"interval", TRUE>> => (new.schedule => m.seen.schedule)
      /\ Shows(new) = After(Shows(m.seen), m.press)
  BY <1>1, AfterShows
<1>6. CASE m.press[1] = "excluded_toggle"
  <2>1. w = [row EXCEPT !.excluded = new.excluded]
    BY <1>6 DEF Written
  <2> HIDE DEF w
  <2>2. /\ w \in SettingsRow /\ w.run = row.run /\ w.schedule = row.schedule
        /\ w.topics = row.topics /\ w.custom = row.custom /\ w.excluded = new.excluded
    BY <1>1, <1>5, <2>1 DEF SettingsRow
  <2>3. Valid(w)
    BY <1>1, <2>2, ValidSame DEF WasRow
  <2>4. ASSUME m.version = row.version
        PROVE  Shows(w) = After(drawn[m.version], m.press)
    <3>1. /\ new.topics = row.topics /\ new.custom = row.custom
          /\ new.schedule = row.schedule
      BY <1>1, <1>3, <1>4, <1>5, <1>6, <2>4 DEF SettingsRow
    <3>2. Shows(w) = Shows(new)
      BY <2>2, <3>1 DEF Shows
    <3> QED BY <1>3, <1>5, <2>4, <3>2
  <2> HIDE DEF new
  <2> QED BY <1>3, <2>2, <2>3, <2>4 DEF w
<1>7. CASE m.press[1] # "excluded_toggle"
  <2>1. w = [new EXCEPT !.excluded = row.excluded, !.run = row.run]
    BY <1>7 DEF Written
  <2> HIDE DEF w
  <2>2. /\ w \in SettingsRow /\ w.run = row.run /\ w.schedule = new.schedule
        /\ w.topics = new.topics /\ w.custom = new.custom /\ w.excluded = row.excluded
    BY <1>1, <1>5, <2>1 DEF SettingsRow
  <2>3. Valid(w)
    BY <1>2, <1>7, <2>2, ValidSame DEF PressFits
  <2>4. ASSUME m.version = row.version
        PROVE  Shows(w) = After(drawn[m.version], m.press)
    <3>1. new.excluded = row.excluded
      BY <1>3, <1>4, <1>5, <1>7, <2>4
    <3>2. Shows(w) = Shows(new)
      BY <2>2, <3>1 DEF Shows
    <3> QED BY <1>3, <1>5, <2>4, <3>2
  <2>5. m.version = row.version /\ m.press # <<"interval", TRUE>> =>
          (w.schedule => row.schedule)
    BY <1>3, <1>4, <1>5, <2>2
  <2> HIDE DEF new
  <2> QED BY <1>3, <2>2, <2>3, <2>4, <2>5 DEF w
<1> QED BY <1>6, <1>7

(* A press is taken in hand after it was checked.                           *)
LEMMA PressKept ==
  ASSUME SettingsInv, NEW p \in Panels, NEW press \in Presses, NEW v \in 1..MaxVersion,
         PressSettings(p, press, v)
  PROVE  SettingsInv'
<1> DEFINE m == [at |-> IF AsksForDraft(press) THEN "draft" ELSE "save",
                 press |-> press, version |-> v, seen |-> row]
<1>1. /\ row \in SettingsRow /\ WasRow(row)
      /\ v <= row.version /\ ~Refused(press) /\ panel' = [panel EXCEPT ![p] = m]
      /\ UNCHANGED <<row, drawn>> /\ UNCHANGED <<row, runDraft, reconciled>>
      /\ UNCHANGED <<prompt, prompts, saves>>
  BY DEF SettingsInv, RowInv, PressSettings
<1>2. m \in PressDoing
  BY <1>1, SettingsAssumption DEF PressDoing
<1>3. /\ m.press = press /\ m.version = v /\ m.seen = row
      /\ m.at = IF AsksForDraft(press) THEN "draft" ELSE "save"
  OBVIOUS
<1> HIDE DEF m
<1>4. m \in PanelDoing
  BY <1>2 DEF PanelDoing
<1>5. Valid(After(row, press))
  BY <1>1, NotRefusedIsValid DEF WasRow
<1>6. PressFits(m)
  BY <1>1, <1>3, <1>5 DEF PressFits
<1>7. PanelFits(m)
  BY <1>3, <1>6 DEF PanelFits
<1>8. ~(Resumes(m) /\ row.run = "publication_unresolved")
  BY <1>3, Zenon DEF Resumes, AsksForDraft
<1>9. \A n \in Nat : ~HasPrompt(m, n)
  BY <1>3 DEF HasPrompt
<1>10. RowInv' /\ PanelInv' /\ \A q \in Panels : panel'[q] = IF q = p THEN m ELSE panel[q]
  BY <1>1, <1>4, <1>7, PanelMoves
<1>11. PauseInv'
  BY <1>1, <1>4, <1>8, <1>10, PauseStays
<1>12. PromptInv'
  BY <1>1, <1>4, <1>9, <1>10, PromptStays
<1> QED BY <1>10, <1>11, <1>12 DEF SettingsInv

(* A panel that lets go, whatever else does not move.                       *)
LEMMA PanelLetsGo ==
  ASSUME SettingsInv, NEW p \in Panels, panel' = [panel EXCEPT ![p] = NoPanel],
         UNCHANGED <<row, runDraft, prompt, prompts, drawn, saves, reconciled>>
  PROVE  SettingsInv'
<1>1. /\ UNCHANGED <<row, drawn>> /\ UNCHANGED <<row, runDraft, reconciled>>
      /\ UNCHANGED <<prompt, prompts, saves>>
  OBVIOUS
<1>2. RowInv' /\ PanelInv' /\ \A q \in Panels : panel'[q] = IF q = p THEN NoPanel ELSE panel[q]
  BY <1>1, NoPanelFits, PanelMoves
<1>3. PauseInv'
  BY <1>1, <1>2, NoPanelFits, PauseStays
<1>4. PromptInv'
  BY <1>1, <1>2, NoPanelFits, PromptStays
<1> QED BY <1>2, <1>3, <1>4 DEF SettingsInv

(* Whoever saw the draft reconciled goes on, as the pause lasts.            *)
LEMMA DraftReadKept ==
  ASSUME SettingsInv, NEW p \in Panels, ReadRunDraft(p)
  PROVE  SettingsInv'
<1> DEFINE me == panel[p]
<1>1. /\ me \in PanelDoing /\ PanelFits(me) /\ me.at = "draft"
      /\ UNCHANGED <<row, drawn>> /\ UNCHANGED <<row, runDraft, reconciled>>
      /\ UNCHANGED <<prompt, prompts, saves>>
  BY DEF SettingsInv, PanelInv, ReadRunDraft
<1>2. me \in PressDoing
  BY <1>1, PanelCases
<1>3. PICK m : /\ panel' = [panel EXCEPT ![p] = m]
               /\ \/ m = NoPanel
                  \/ m = [me EXCEPT !.at = "save"] /\ runDraft \in {"approved", "published"}
  BY DEF ReadRunDraft, SettingsInv, PanelInv
<1> HIDE DEF me
<1>4. CASE m = NoPanel
  <2>1. panel' = [panel EXCEPT ![p] = NoPanel]
    BY <1>3, <1>4
  <2>2. UNCHANGED <<row, runDraft, prompt, prompts, drawn, saves, reconciled>>
    BY <1>1
  <2> QED BY <2>1, <2>2, PanelLetsGo
<1>5. CASE m = [me EXCEPT !.at = "save"] /\ runDraft \in {"approved", "published"}
  <2>1. /\ m \in PressDoing /\ m.at = "save" /\ m.press = me.press
        /\ m.version = me.version /\ m.seen = me.seen
    BY <1>2, <1>5 DEF PressDoing
  <2>2. m \in PanelDoing
    BY <2>1 DEF PanelDoing
  <2>3. PanelFits(m)
    BY <1>1, <2>1 DEF PanelFits, PressFits
  <2>4. reconciled
    BY <1>5 DEF SettingsInv, PauseInv
  <2>5. \A n \in Nat : ~HasPrompt(m, n)
    BY <2>1 DEF HasPrompt
  <2>6. RowInv' /\ PanelInv' /\ \A q \in Panels : panel'[q] = IF q = p THEN m ELSE panel[q]
    BY <1>1, <1>3, <2>2, <2>3, PanelMoves
  <2>7. PauseInv'
    BY <1>1, <2>2, <2>4, <2>6, PauseStays
  <2>8. PromptInv'
    BY <1>1, <2>2, <2>5, <2>6, PromptStays
  <2> QED BY <2>6, <2>7, <2>8 DEF SettingsInv
<1> QED BY <1>3, <1>4, <1>5

(* A row that changes under settings that stay, or are switched on with     *)
(* cause.                                                                   *)
LEMMA ChangeKept ==
  ASSUME SettingsInv, NEW r \in SettingsRow, Valid(r), Changed(r),
         panel' \in [Panels -> PanelDoing],
         \A q \in Panels : panel'[q] \in {NoPanel, panel[q]},
         UNCHANGED <<runDraft, reconciled>>, r.run = row.run,
         r.run = "publication_unresolved" => (r.schedule => reconciled)
  PROVE  RowInv' /\ PanelInv' /\ PauseInv'
<1>1. RowInv' /\ row'.run = r.run /\ row'.schedule = r.schedule
  BY RowChanges
<1>2. PanelInv' /\ \A q \in Panels : ~Resumes(panel[q])'
  BY PanelsOverChange
<1>3. PauseInv'
  BY <1>1, <1>2 DEF SettingsInv, PauseInv
<1> QED BY <1>1, <1>2, <1>3

(* A press is saved over the row its menu showed.                           *)
LEMMA SaveKept ==
  ASSUME SettingsInv, NEW p \in Panels, SavePress(p)
  PROVE  SettingsInv'
<1> DEFINE me == panel[p]
           w == Written(me.seen, me.press)
<1>1. /\ me \in PanelDoing /\ PanelFits(me) /\ me.at = "save"
      /\ UNCHANGED <<runDraft, reconciled>> /\ UNCHANGED <<prompt, prompts, saves>>
      /\ panel' = [panel EXCEPT ![p] = NoPanel]
  BY DEF SettingsInv, PanelInv, SavePress
<1>2. me \in PressDoing
  BY <1>1, PanelCases
<1>3. CASE row.version # me.version
  <2>1. UNCHANGED <<row, runDraft, prompt, prompts, drawn, saves, reconciled>>
    BY <1>1, <1>3 DEF SavePress
  <2> QED BY <1>1, <2>1, PanelLetsGo
<1>4. CASE row.version = me.version
  <2>1. Changed(w)
    BY <1>4 DEF SavePress
  <2>2. /\ w \in SettingsRow /\ Valid(w) /\ w.run = row.run
        /\ me.seen.version = row.version
        /\ me.press # <<"interval", TRUE>> => (w.schedule => row.schedule)
    BY <1>1, <1>2, <1>4, WrittenFits
  <2>3. /\ panel' \in [Panels -> PanelDoing]
        /\ \A q \in Panels : panel'[q] = IF q = p THEN NoPanel ELSE panel[q]
    BY <1>1, NoPanelFits DEF SettingsInv, PanelInv
  <2>4. Resumes(me) \/ me.press # <<"interval", TRUE>>
    BY <1>1, <2>2, Zenon DEF Resumes
  <2>5. row.run = "publication_unresolved" => (w.schedule => reconciled)
    <3>1. row.run = "publication_unresolved" => (Resumes(me) \/ row.schedule => reconciled)
      BY DEF SettingsInv, PauseInv
    <3> HIDE DEF w, me
    <3> QED BY <2>2, <2>4, <3>1
  <2>6. RowInv' /\ PanelInv' /\ PauseInv'
    <3> HIDE DEF w
    <3> QED BY <1>1, <2>1, <2>2, <2>3, <2>5, ChangeKept
  <2>7. PromptInv'
    BY <1>1, <2>3, NoPanelFits, PromptStays
  <2> QED BY <2>6, <2>7 DEF SettingsInv
<1> QED BY <1>3, <1>4

(* A prompt is sent, which nobody has heard of.                             *)
LEMMA AskKept ==
  ASSUME SettingsInv, NEW p \in Panels, AskTopic(p)
  PROVE  SettingsInv'
<1> DEFINE m == [at |-> "bind", prompt |-> prompts + 1]
<1>1. /\ prompts' = prompts + 1 /\ prompts < MaxPrompts /\ prompts \in 0..MaxPrompts
      /\ panel' = [panel EXCEPT ![p] = m] /\ UNCHANGED <<row, drawn>>
      /\ UNCHANGED <<row, runDraft, reconciled>> /\ UNCHANGED <<prompt, saves>>
  BY DEF SettingsInv, PromptInv, AskTopic
<1>2. m \in PanelDoing /\ m.at = "bind" /\ m.prompt = prompts + 1
  BY <1>1, SettingsAssumption DEF PanelDoing
<1> HIDE DEF m
<1>3. PanelFits(m) /\ ~Resumes(m)
  BY <1>2 DEF PanelFits, Resumes
<1>4. RowInv' /\ PanelInv' /\ \A q \in Panels : panel'[q] = IF q = p THEN m ELSE panel[q]
  BY <1>1, <1>2, <1>3, PanelMoves
<1>5. PauseInv'
  BY <1>1, <1>2, <1>3, <1>4, PauseStays
<1>6. \A q \in Panels : \A n \in Nat : HasPrompt(panel'[q], n) =>
        (q = p /\ n = prompts + 1) \/ (q # p /\ HasPrompt(panel[q], n))
  BY <1>2, <1>4 DEF HasPrompt
<1>7. prompts' \in 0..MaxPrompts /\ prompt' \in 0..prompts'
  BY <1>1, SettingsAssumption DEF SettingsInv, PromptInv
<1>8. \A n \in 1..MaxPrompts : (prompt' = n \/ n > prompts') => saves'[n] = 0
  BY <1>1, SettingsAssumption DEF SettingsInv, PromptInv
<1>9. ASSUME NEW q \in Panels, NEW n \in Nat, HasPrompt(panel'[q], n)
      PROVE  /\ n \in 1..prompts' /\ prompt' # n /\ saves'[n] = 0
             /\ \A o \in Panels : HasPrompt(panel'[o], n) => o = q
  <2>1. CASE q = p /\ n = prompts + 1
    <3>1. n \in 1..prompts' /\ n \in 1..MaxPrompts /\ prompt' # n /\ saves'[n] = 0
      BY <1>1, <2>1, SettingsAssumption DEF SettingsInv, PromptInv
    <3>2. \A o \in Panels : ~HasPrompt(panel[o], n)
      BY <1>1, <2>1, SettingsAssumption DEF SettingsInv, PromptInv
    <3> QED BY <1>6, <2>1, <3>1, <3>2
  <2>2. CASE q # p /\ HasPrompt(panel[q], n)
    <3>1. n \in 1..prompts /\ prompt # n /\ saves[n] = 0
          /\ \A o \in Panels : HasPrompt(panel[o], n) => o = q
      BY <2>2 DEF SettingsInv, PromptInv
    <3>2. n # prompts + 1 /\ n \in 1..prompts'
      BY <1>1, <3>1
    <3> QED BY <1>1, <1>6, <3>1, <3>2
  <2> QED BY <1>6, <1>9, <2>1, <2>2
<1>10. PromptInv'
  BY <1>1, <1>7, <1>8, <1>9 DEF SettingsInv, PromptInv, HasPrompt
<1> QED BY <1>4, <1>5, <1>10 DEF SettingsInv

(* The prompt in hand is bound, in the place of another.                    *)
LEMMA BindKept ==
  ASSUME SettingsInv, NEW p \in Panels, BeginSettingsInput(p)
  PROVE  SettingsInv'
<1>1. /\ panel[p] \in PanelDoing /\ panel[p].at = "bind" /\ prompt' = panel[p].prompt
      /\ panel' = [panel EXCEPT ![p] = NoPanel] /\ UNCHANGED <<row, drawn>>
      /\ UNCHANGED <<row, runDraft, reconciled>> /\ UNCHANGED <<prompts, saves>>
  BY DEF SettingsInv, PanelInv, BeginSettingsInput
<1>2. panel[p].prompt \in Nat /\ HasPrompt(panel[p], panel[p].prompt)
  BY <1>1, PanelCases DEF HasPrompt
<1>3. /\ panel[p].prompt \in 1..prompts /\ saves[panel[p].prompt] = 0
      /\ \A q \in Panels : HasPrompt(panel[q], panel[p].prompt) => q = p
  BY <1>2 DEF SettingsInv, PromptInv
<1>4. RowInv' /\ PanelInv' /\ \A q \in Panels : panel'[q] = IF q = p THEN NoPanel ELSE panel[q]
  BY <1>1, NoPanelFits, PanelMoves
<1>5. PauseInv'
  BY <1>1, <1>4, NoPanelFits, PauseStays
<1>6. \A q \in Panels : \A n \in Nat : HasPrompt(panel'[q], n) => q # p /\ HasPrompt(panel[q], n)
  BY <1>4, NoPanelFits
<1>7. prompts' \in 0..MaxPrompts /\ prompt' \in 0..prompts'
  BY <1>1, <1>3, SettingsAssumption DEF SettingsInv, PromptInv
<1>8. \A n \in 1..MaxPrompts : (prompt' = n \/ n > prompts') => saves'[n] = 0
  BY <1>1, <1>3 DEF SettingsInv, PromptInv
<1>9. ASSUME NEW q \in Panels, NEW n \in Nat, HasPrompt(panel'[q], n)
      PROVE  /\ n \in 1..prompts' /\ prompt' # n /\ saves'[n] = 0
             /\ \A o \in Panels : HasPrompt(panel'[o], n) => o = q
  <2>1. q # p /\ HasPrompt(panel[q], n)
    BY <1>6, <1>9
  <2>2. n \in 1..prompts /\ prompt # n /\ saves[n] = 0
        /\ \A o \in Panels : HasPrompt(panel[o], n) => o = q
    BY <2>1 DEF SettingsInv, PromptInv
  <2>3. prompt' # n
    BY <1>1, <1>3, <2>1
  <2> QED BY <1>1, <1>6, <2>2, <2>3
<1>10. PromptInv'
  BY <1>1, <1>7, <1>8, <1>9 DEF SettingsInv, PromptInv, HasPrompt
<1> QED BY <1>4, <1>5, <1>10 DEF SettingsInv

(* A reply takes the prompt out of its binding.                             *)
LEMMA ConsumeKept ==
  ASSUME SettingsInv, NEW p \in Panels, NEW n \in 1..MaxPrompts, NEW topic \in Customs,
         ConsumeSettingsInput(p, n, topic)
  PROVE  SettingsInv'
<1> DEFINE new == [at |-> "topic", prompt |-> n, topic |-> topic, attempt |-> 1]
<1>1. /\ panel[p] = NoPanel /\ prompt = n /\ prompt' = 0 /\ UNCHANGED <<row, drawn>>
      /\ UNCHANGED <<row, runDraft, reconciled>> /\ UNCHANGED <<prompts, saves>>
      /\ panel \in [Panels -> PanelDoing]
  BY DEF SettingsInv, PanelInv, ConsumeSettingsInput
<1>2. PICK m \in {NoPanel, new} : panel' = [panel EXCEPT ![p] = m]
  BY <1>1 DEF ConsumeSettingsInput
<1>3. /\ new \in PanelDoing /\ new.at = "topic" /\ new.prompt = n
  BY SettingsAssumption DEF PanelDoing
<1>4. PanelFits(new) /\ ~Resumes(new) /\ \A k \in Nat : HasPrompt(new, k) => k = n
  BY <1>3 DEF PanelFits, Resumes, HasPrompt
<1> HIDE DEF new
<1>5. m \in PanelDoing /\ PanelFits(m) /\ ~Resumes(m) /\ \A k \in Nat : HasPrompt(m, k) => k = n
  BY <1>2, <1>3, <1>4, NoPanelFits
<1>6. RowInv' /\ PanelInv' /\ \A q \in Panels : panel'[q] = IF q = p THEN m ELSE panel[q]
  BY <1>1, <1>2, <1>5, PanelMoves
<1>7. PauseInv'
  BY <1>1, <1>5, <1>6, PauseStays
<1>8. \A q \in Panels : \A k \in Nat : HasPrompt(panel'[q], k) =>
        (q = p /\ k = n) \/ (q # p /\ HasPrompt(panel[q], k))
  BY <1>5, <1>6
<1>9. /\ prompts' \in 0..MaxPrompts /\ prompt' \in 0..prompts'
      /\ n \in 1..prompts /\ saves[n] = 0
      /\ \A q \in Panels : ~HasPrompt(panel[q], n)
  BY <1>1, SettingsAssumption DEF SettingsInv, PromptInv
<1>10. \A k \in 1..MaxPrompts : (prompt' = k \/ k > prompts') => saves'[k] = 0
  BY <1>1 DEF SettingsInv, PromptInv
<1>11. ASSUME NEW q \in Panels, NEW k \in Nat, HasPrompt(panel'[q], k)
       PROVE  /\ k \in 1..prompts' /\ prompt' # k /\ saves'[k] = 0
              /\ \A o \in Panels : HasPrompt(panel'[o], k) => o = q
  <2>1. CASE q = p /\ k = n
    BY <1>1, <1>8, <1>9, <2>1
  <2>2. CASE q # p /\ HasPrompt(panel[q], k)
    <3>1. k \in 1..prompts /\ saves[k] = 0 /\ k # n
          /\ \A o \in Panels : HasPrompt(panel[o], k) => o = q
      BY <1>1, <2>2 DEF SettingsInv, PromptInv
    <3> QED BY <1>1, <1>8, <3>1
  <2> QED BY <1>8, <1>11, <2>1, <2>2
<1>12. PromptInv'
  BY <1>1, <1>9, <1>10, <1>11 DEF SettingsInv, PromptInv, HasPrompt
<1> QED BY <1>6, <1>7, <1>12 DEF SettingsInv

(* The topics are read, and there is room for one more.                     *)
LEMMA TopicReadKept ==
  ASSUME SettingsInv, NEW p \in Panels, ReadTopics(p)
  PROVE  SettingsInv'
<1> DEFINE me == panel[p]
           new == [at |-> "saveTopic", prompt |-> me.prompt, topic |-> me.topic,
                   attempt |-> me.attempt, seen |-> row]
<1>1. /\ me \in PanelDoing /\ me.at = "topic" /\ row \in SettingsRow /\ WasRow(row)
      /\ UNCHANGED <<row, drawn>> /\ UNCHANGED <<row, runDraft, reconciled>>
      /\ UNCHANGED <<prompt, prompts, saves>>
  BY DEF SettingsInv, PanelInv, RowInv, ReadTopics
<1>2. me.prompt \in Nat /\ me.topic \in Customs /\ me.attempt \in 1..2
  BY <1>1, PanelCases
<1>3. PICK m : /\ panel' = [panel EXCEPT ![p] = m]
               /\ m = NoPanel \/ (m = new /\ HasRoom(row))
  BY DEF ReadTopics, SettingsInv, PanelInv
<1>4. CASE m = NoPanel
  <2>1. panel' = [panel EXCEPT ![p] = NoPanel]
    BY <1>3, <1>4
  <2> QED BY <1>1, <2>1, PanelLetsGo
<1>5. CASE m = new /\ HasRoom(row)
  <2>1. /\ m \in PanelDoing /\ m.at = "saveTopic" /\ m.prompt = me.prompt
        /\ m.topic = me.topic /\ m.seen = row
    BY <1>1, <1>2, <1>5 DEF PanelDoing
  <2>2. Valid(WithTopic(row, me.topic))
    BY <1>1, <1>2, <1>5, RoomIsValid DEF WasRow
  <2> HIDE DEF new
  <2>3. PanelFits(m) /\ ~Resumes(m)
    BY <1>1, <2>1, <2>2 DEF PanelFits, TopicFits, Resumes
  <2>4. \A n \in Nat : HasPrompt(m, n) => HasPrompt(panel[p], n)
    BY <1>1, <2>1 DEF HasPrompt
  <2>5. RowInv' /\ PanelInv' /\ \A q \in Panels : panel'[q] = IF q = p THEN m ELSE panel[q]
    BY <1>1, <1>3, <2>1, <2>3, PanelMoves
  <2>6. PauseInv'
    BY <1>1, <2>1, <2>3, <2>5, PauseStays
  <2>7. PromptInv'
    BY <1>1, <2>1, <2>4, <2>5, PromptStays
  <2> QED BY <2>5, <2>6, <2>7 DEF SettingsInv
<1> QED BY <1>3, <1>4, <1>5

(* A topic is saved over the row that was read, once.                       *)
LEMMA TopicSaveKept ==
  ASSUME SettingsInv, NEW p \in Panels, SaveTopic(p)
  PROVE  SettingsInv'
<1> DEFINE me == panel[p]
           r == [WithTopic(me.seen, me.topic) EXCEPT !.excluded = row.excluded, !.run = row.run]
           again == [at |-> "topic", prompt |-> me.prompt, topic |-> me.topic, attempt |-> 2]
<1>1. /\ me \in PanelDoing /\ PanelFits(me) /\ me.at = "saveTopic"
      /\ row \in SettingsRow /\ WasRow(row) /\ row.version \in 1..MaxVersion
      /\ UNCHANGED <<runDraft, reconciled>> /\ UNCHANGED <<prompt, prompts>>
  BY DEF SettingsInv, PanelInv, RowInv, SaveTopic
<1>2. /\ me.prompt \in Nat /\ me.topic \in Customs /\ me.attempt \in 1..2
      /\ me.seen \in SettingsRow /\ HasPrompt(me, me.prompt)
  BY <1>1, PanelCases DEF HasPrompt
<1>3. TopicFits(me)
  BY <1>1 DEF PanelFits
<1>4. /\ me.prompt \in 1..prompts /\ prompts \in 0..MaxPrompts /\ prompt # me.prompt
      /\ saves[me.prompt] = 0
      /\ \A q \in Panels : HasPrompt(panel[q], me.prompt) => q = p
  BY <1>2 DEF SettingsInv, PromptInv
<1>5. CASE row.version # me.seen.version
  <2>1. PICK m \in {NoPanel, again} : panel' = [panel EXCEPT ![p] = m]
    BY <1>5 DEF SaveTopic
  <2>2. UNCHANGED <<row, drawn>> /\ UNCHANGED <<row, runDraft, reconciled>>
        /\ UNCHANGED <<prompt, prompts, saves>>
    BY <1>1, <1>5 DEF SaveTopic
  <2>3. again \in PanelDoing /\ again.at = "topic" /\ again.prompt = me.prompt
    BY <1>2 DEF PanelDoing
  <2>4. PanelFits(again) /\ ~Resumes(again)
        /\ \A n \in Nat : HasPrompt(again, n) => HasPrompt(panel[p], n)
    BY <1>1, <2>3 DEF PanelFits, Resumes, HasPrompt
  <2> HIDE DEF again
  <2>5. m \in PanelDoing /\ PanelFits(m) /\ ~Resumes(m)
        /\ \A n \in Nat : HasPrompt(m, n) => HasPrompt(panel[p], n)
    BY <2>1, <2>3, <2>4, NoPanelFits
  <2>6. RowInv' /\ PanelInv' /\ \A q \in Panels : panel'[q] = IF q = p THEN m ELSE panel[q]
    BY <2>1, <2>2, <2>5, PanelMoves
  <2>7. PauseInv'
    BY <2>2, <2>5, <2>6, PauseStays
  <2>8. PromptInv'
    BY <2>2, <2>5, <2>6, PromptStays
  <2> QED BY <2>6, <2>7, <2>8 DEF SettingsInv
<1>6. CASE row.version = me.seen.version
  <2>1. /\ Changed(r) /\ saves' = [saves EXCEPT ![me.prompt] = @ + 1]
        /\ panel' = [panel EXCEPT ![p] = NoPanel]
    BY <1>6 DEF SaveTopic
  <2>2. WithTopic(me.seen, me.topic) \in SettingsRow
        /\ WithTopic(me.seen, me.topic).schedule = me.seen.schedule
    BY <1>2 DEF WithTopic, SettingsRow
  <2>3. /\ r \in SettingsRow /\ r.run = row.run /\ r.schedule = me.seen.schedule
        /\ r.topics = WithTopic(me.seen, me.topic).topics
        /\ r.custom = WithTopic(me.seen, me.topic).custom
    BY <1>1, <2>2 DEF SettingsRow
  <2>4. Valid(r)
    BY <1>3, <2>3, ValidSame DEF TopicFits
  <2>5. Shows(me.seen) = Shows(row)
    BY <1>1, <1>3, <1>6 DEF TopicFits, WasRow
  <2>6. me.seen.schedule = row.schedule
    <3>1. Shows(me.seen)["schedule"] = me.seen.schedule /\ Shows(row)["schedule"] = row.schedule
      BY DEF Shows
    <3> QED BY <2>5, <3>1
  <2>7. row.run = "publication_unresolved" => (r.schedule => reconciled)
    BY <2>3, <2>6 DEF SettingsInv, PauseInv
  <2>8. /\ panel' \in [Panels -> PanelDoing]
        /\ \A q \in Panels : panel'[q] = IF q = p THEN NoPanel ELSE panel[q]
    BY <2>1, NoPanelFits DEF SettingsInv, PanelInv
  <2>9. RowInv' /\ PanelInv' /\ PauseInv'
    <3> HIDE DEF r
    <3> QED BY <1>1, <2>1, <2>3, <2>4, <2>7, <2>8, ChangeKept
  <2>10. /\ saves' \in [1..MaxPrompts -> {0, 1}]
         /\ \A n \in 1..MaxPrompts : n # me.prompt => saves'[n] = saves[n]
    <3>1. saves \in [1..MaxPrompts -> {0, 1}] /\ me.prompt \in 1..MaxPrompts
      BY <1>4, SettingsAssumption DEF SettingsInv, PromptInv
    <3>2. saves' = [saves EXCEPT ![me.prompt] = 1]
      BY <1>4, <2>1, <3>1
    <3> QED BY <3>1, <3>2
  <2>11. \A q \in Panels : \A n \in Nat : HasPrompt(panel'[q], n) =>
           HasPrompt(panel[q], n) /\ n # me.prompt
    BY <1>4, <2>8, NoPanelFits
  <2>12. \A n \in 1..MaxPrompts : (prompt' = n \/ n > prompts') => n # me.prompt
    BY <1>1, <1>4
  <2>13. ASSUME NEW q \in Panels, NEW n \in Nat, HasPrompt(panel'[q], n)
         PROVE  /\ n \in 1..prompts' /\ prompt' # n /\ saves'[n] = 0
                /\ \A o \in Panels : HasPrompt(panel'[o], n) => o = q
    <3>1. HasPrompt(panel[q], n) /\ n # me.prompt
      BY <2>11, <2>13
    <3>2. n \in 1..prompts /\ prompt # n /\ saves[n] = 0
          /\ \A o \in Panels : HasPrompt(panel[o], n) => o = q
      BY <3>1 DEF SettingsInv, PromptInv
    <3>3. n \in 1..MaxPrompts
      BY <1>4, <3>2, SettingsAssumption
    <3> QED BY <1>1, <2>10, <2>11, <3>1, <3>2, <3>3
  <2>14. prompts' \in 0..MaxPrompts /\ prompt' \in 0..prompts'
         /\ \A n \in 1..MaxPrompts : (prompt' = n \/ n > prompts') => saves'[n] = 0
    BY <1>1, <2>10, <2>12 DEF SettingsInv, PromptInv
  <2>15. PromptInv'
    BY <2>10, <2>13, <2>14 DEF PromptInv, HasPrompt
  <2> QED BY <2>9, <2>15 DEF SettingsInv
<1> QED BY <1>5, <1>6

(* The scheduler and the operator change nothing a panel has in hand.       *)
LEMMA RestKept ==
  ASSUME SettingsInv, PauseNewsSchedule \/ LaterRun \/ ReconcileRun \/ PublishAgain
  PROVE  SettingsInv'
<1>0. /\ panel' = panel /\ UNCHANGED <<prompt, prompts, saves>>
      /\ panel \in [Panels -> PanelDoing]
  BY DEF PauseNewsSchedule, LaterRun, ReconcileRun, PublishAgain, SettingsInv, PanelInv
<1>1. PromptInv'
  BY <1>0 DEF SettingsInv, PromptInv, HasPrompt
<1>2. row \in SettingsRow /\ WasRow(row)
  BY DEF SettingsInv, RowInv
<1>3. CASE PauseNewsSchedule
  <2> DEFINE r == [row EXCEPT !.schedule = FALSE, !.run = "publication_unresolved"]
  <2>1. /\ r \in SettingsRow /\ r.schedule = FALSE /\ r.topics = row.topics /\ r.custom = row.custom
    BY <1>2 DEF SettingsRow
  <2>2. Changed(r) /\ runDraft' = "publishing"
    BY <1>3 DEF PauseNewsSchedule
  <2>3. Valid(r)
    BY <1>2, <2>1, ValidSame DEF WasRow
  <2> HIDE DEF r
  <2>4. RowInv' /\ row'.schedule = FALSE
    BY <2>1, <2>2, <2>3, RowChanges
  <2>5. PanelInv' /\ \A q \in Panels : ~Resumes(panel[q])'
    BY <1>0, <2>1, <2>2, <2>3, PanelsOverChange
  <2>6. PauseInv'
    BY <2>2, <2>4, <2>5 DEF PauseInv
  <2> QED BY <1>1, <2>4, <2>5, <2>6 DEF SettingsInv
<1>4. CASE LaterRun
  <2>1. /\ row' = [row EXCEPT !.run = "ok"] /\ runDraft' = "none" /\ drawn' = drawn
        /\ reconciled' = reconciled
    BY <1>4 DEF LaterRun
  <2>2. /\ row' \in SettingsRow /\ row'.version = row.version /\ row'.run = "ok"
        /\ row'.topics = row.topics /\ row'.custom = row.custom
        /\ row'.excluded = row.excluded /\ row'.schedule = row.schedule
    BY <1>2, <2>1 DEF SettingsRow
  <2>3. Shows(row') = Shows(row)
    BY <2>2 DEF Shows
  <2>4. Valid(row')
    BY <1>2, <2>2, ValidSame DEF WasRow
  <2>5. RowInv'
    BY <2>1, <2>2, <2>3, <2>4 DEF SettingsInv, RowInv, WasRow
  <2>6. PanelInv'
    BY <1>0, <2>1, <2>2 DEF SettingsInv, PanelInv, PanelFits, PressFits, TopicFits, WasRow
  <2>7. PauseInv'
    BY <2>1, <2>2 DEF PauseInv
  <2> QED BY <1>1, <2>5, <2>6, <2>7 DEF SettingsInv
<1>5. CASE ReconcileRun \/ PublishAgain
  <2>1. /\ row' = row /\ drawn' = drawn
        /\ runDraft' \in {"publishing", "approved", "published"}
        /\ reconciled => reconciled'
        /\ runDraft' \in {"approved", "published"} => reconciled'
    BY <1>5 DEF ReconcileRun, PublishAgain, SettingsInv, PauseInv
  <2>2. RowInv' /\ PanelInv'
    BY <1>0, <2>1 DEF SettingsInv, RowInv, PanelInv, PanelFits, PressFits, TopicFits, WasRow
  <2>3. PauseInv'
    BY <1>0, <2>1 DEF SettingsInv, PauseInv, Resumes
  <2> QED BY <1>1, <2>2, <2>3 DEF SettingsInv
<1> QED BY <1>3, <1>4, <1>5

(* Every step of the settings keeps it.                                     *)
LEMMA SettingsKeep == SettingsInv /\ [SettingsNext]_settingsVars => SettingsInv'
<1> SUFFICES ASSUME SettingsInv, [SettingsNext]_settingsVars PROVE SettingsInv'
  OBVIOUS
<1>1. CASE UNCHANGED settingsVars
  <2>1. RowInv' /\ PanelInv'
    BY <1>1 DEF settingsVars, SettingsInv, RowInv, PanelInv, PanelFits, PressFits,
                TopicFits, WasRow
  <2>2. PauseInv' /\ PromptInv'
    BY <1>1 DEF settingsVars, SettingsInv, PauseInv, Resumes, PromptInv, HasPrompt
  <2> QED BY <2>1, <2>2 DEF SettingsInv
<1>2. ASSUME NEW p \in Panels, NEW press \in Presses, NEW v \in 1..MaxVersion,
             PressSettings(p, press, v)
      PROVE  SettingsInv'
  BY <1>2, PressKept
<1>3. ASSUME NEW p \in Panels, ReadRunDraft(p) PROVE SettingsInv'
  BY <1>3, DraftReadKept
<1>4. ASSUME NEW p \in Panels, SavePress(p) PROVE SettingsInv'
  BY <1>4, SaveKept
<1>5. ASSUME NEW p \in Panels, AskTopic(p) PROVE SettingsInv'
  BY <1>5, AskKept
<1>6. ASSUME NEW p \in Panels, BeginSettingsInput(p) PROVE SettingsInv'
  BY <1>6, BindKept
<1>7. ASSUME NEW p \in Panels, NEW n \in 1..MaxPrompts, NEW topic \in Customs,
             ConsumeSettingsInput(p, n, topic)
      PROVE  SettingsInv'
  BY <1>7, ConsumeKept
<1>8. ASSUME NEW p \in Panels, ReadTopics(p) PROVE SettingsInv'
  BY <1>8, TopicReadKept
<1>9. ASSUME NEW p \in Panels, SaveTopic(p) PROVE SettingsInv'
  BY <1>9, TopicSaveKept
<1>10. ASSUME NEW p \in Panels, PanelEnds(p) PROVE SettingsInv'
  BY <1>10, PanelLetsGo DEF PanelEnds
<1>11. ASSUME PauseNewsSchedule \/ LaterRun \/ ReconcileRun \/ PublishAgain PROVE SettingsInv'
  BY <1>11, RestKept
<1> QED BY <1>1, <1>2, <1>3, <1>4, <1>5, <1>6, <1>7, <1>8, <1>9, <1>10, <1>11 DEF SettingsNext

(* It is the types and the two invariants of the promise.                   *)
LEMMA SettingsMean ==
  SettingsInv => SettingsTypeOK /\ UnresolvedStaysPaused /\ PromptSavesOnce
<1> SUFFICES ASSUME SettingsInv PROVE SettingsTypeOK /\ UnresolvedStaysPaused /\ PromptSavesOnce
  OBVIOUS
<1>1. UnresolvedStaysPaused
  BY DEF SettingsInv, PauseInv, UnresolvedStaysPaused
<1>2. PromptSavesOnce
  BY DEF SettingsInv, PromptInv, PromptSavesOnce
<1>3. /\ Shows(row) \in Fields /\ row.version \in 1..MaxVersion
      /\ row.run \in {"ok", "publication_unresolved"} /\ Valid(row)
  BY DEF SettingsInv, RowInv, WasRow, Shows, Fields, SettingsRow
<1>4. ASSUME NEW p \in Panels
      PROVE  /\ panel[p].at \in {"idle", "draft", "save", "bind", "topic", "saveTopic"}
             /\ panel[p].at = "save" => Valid(Written(panel[p].seen, panel[p].press))
             /\ panel[p].at = "saveTopic" => Valid(WithTopic(panel[p].seen, panel[p].topic))
  <2>1. panel[p] \in PanelDoing /\ PanelFits(panel[p])
    BY DEF SettingsInv, PanelInv
  <2>2. panel[p].at = "save" => Valid(Written(panel[p].seen, panel[p].press))
    BY <2>1, PanelCases, WrittenFits
  <2>3. panel[p].at = "saveTopic" => Valid(WithTopic(panel[p].seen, panel[p].topic))
    BY <2>1 DEF PanelFits, TopicFits
  <2> QED BY <2>1, <2>2, <2>3, PanelCases
<1>5. /\ runDraft \in {"none", "publishing", "approved", "published"}
      /\ prompts \in 0..MaxPrompts /\ prompt \in 0..prompts
  BY DEF SettingsInv, PauseInv, PromptInv
<1> QED BY <1>1, <1>2, <1>3, <1>4, <1>5 DEF SettingsTypeOK

(* A press that is saved turns what its menu showed into the settings.      *)
LEMMA PressShows ==
  SettingsInv /\ [SettingsNext]_settingsVars =>
    [\A p \in Panels :
       panel[p].at = "save" /\ panel'[p] = NoPanel /\ row'.version # row.version
         => Shows(row') = After(drawn[panel[p].version], panel[p].press)]_settingsVars
<1> SUFFICES ASSUME SettingsInv, SettingsNext, NEW p \in Panels, panel[p].at = "save",
                    panel'[p] = NoPanel, row'.version # row.version
             PROVE  Shows(row') = After(drawn[panel[p].version], panel[p].press)
  BY DEF settingsVars
<1>1. panel \in [Panels -> PanelDoing] /\ panel[p] \in PanelDoing /\ PanelFits(panel[p])
      /\ row \in SettingsRow
  BY DEF SettingsInv, PanelInv, RowInv
<1>2. panel[p] # NoPanel
  BY DEF NoPanel
<1>3. ~(PauseNewsSchedule \/ LaterRun \/ ReconcileRun \/ PublishAgain)
  BY <1>2 DEF PauseNewsSchedule, LaterRun, ReconcileRun, PublishAgain
<1>4. PICK q \in Panels : SavePress(q) \/ SaveTopic(q)
  BY <1>3 DEF SettingsNext, PressSettings, ReadRunDraft, AskTopic, BeginSettingsInput,
              ConsumeSettingsInput, ReadTopics, PanelEnds
<1>5. q = p
  <2>1. \E m : panel' = [panel EXCEPT ![q] = m]
    BY <1>4 DEF SavePress, SaveTopic
  <2> QED BY <1>1, <1>2, <2>1
<1>6. SavePress(p)
  BY <1>4, <1>5 DEF SaveTopic
<1>7. row.version = panel[p].version /\ Changed(Written(panel[p].seen, panel[p].press))
  BY <1>6 DEF SavePress
<1>8. panel[p] \in PressDoing
  BY <1>1, PanelCases
<1> DEFINE w == Written(panel[p].seen, panel[p].press)
<1>9. w \in SettingsRow /\ Valid(w) /\ Shows(w) = After(drawn[panel[p].version], panel[p].press)
  BY <1>1, <1>7, <1>8, WrittenFits
<1> HIDE DEF w
<1>10. Changed(w)
  BY <1>7 DEF w
<1>11. Shows(row') = Shows(w)
  BY <1>9, <1>10, RowChanges
<1> QED BY <1>9, <1>11

(* Old menus, old prompts and old looks at the last run change nothing: a   *)
(* press turns what its menu showed into the settings, a paused schedule    *)
(* waits for its publication, and a prompt saves one topic                  *)
(* (src/telegram-settings.js), for any admins, panels and topics.           *)
THEOREM SettingsPromiseHolds == SettingsSpec => SettingsPromise
<1>1. SettingsSpec => []SettingsInv
  BY SettingsBegin, SettingsKeep, PTL DEF SettingsSpec
<1>2. SettingsSpec => [](UnresolvedStaysPaused /\ PromptSavesOnce)
  BY <1>1, SettingsMean, PTL
<1>3. SettingsSpec => PressIsWhatWasShown
  BY <1>1, PressShows, PTL DEF SettingsSpec, PressIsWhatWasShown
<1> QED BY <1>2, <1>3 DEF SettingsPromise

-----------------------------------------------------------------------------
(* The Labs                                                                *)

(* The rows of the flags, what a page shows, what a handler has in hand.    *)
LabRows == [Features -> [state : States, version : Nat]]
LabButton == [feature : Features, version : Nat, shown : States]
LabDoing == {NoLab} \cup [at : {"redraw"}, page : Features, rows : LabRows]
              \cup [at : {"update"}, button : LabButton, state : States, rows : LabRows]

(* What was read of a flag is no newer than the flag, and is the flag while *)
(* the version is the same.                                                 *)
WasFlag(f, state, version) ==
  /\ version \in 1..flags[f].version
  /\ version = flags[f].version => state = flags[f].state

(* Buttons and handlers hold what was read, at whatever time.               *)
LabsInv ==
  /\ flags \in LabRows
  /\ \A f \in Features : flags[f].version \in 1..MaxFlagVersion[f]
  /\ \A b \in buttons : b \in LabButton /\ WasFlag(b.feature, b.shown, b.version)
  /\ labHandler \in [LabHandlers -> LabDoing]
  /\ \A h \in LabHandlers : labHandler[h].at # "idle" =>
       \A f \in Features : WasFlag(f, labHandler[h].rows[f].state,
                                      labHandler[h].rows[f].version)
  /\ \A h \in LabHandlers : labHandler[h].at = "update" =>
       WasFlag(labHandler[h].button.feature, labHandler[h].button.shown,
               labHandler[h].button.version)

(* No page has been drawn yet.                                              *)
LEMMA LabsBegin == LabsInit => LabsInv
<1> SUFFICES ASSUME LabsInit PROVE LabsInv
  OBVIOUS
<1>1. flags \in LabRows /\ \A f \in Features : flags[f].version \in 1..MaxFlagVersion[f]
  BY LabsAssumption DEF LabsInit, LabRows, States
<1>2. labHandler \in [LabHandlers -> LabDoing] /\ \A h \in LabHandlers : labHandler[h].at = "idle"
  BY DEF LabsInit, LabDoing, NoLab
<1> QED BY <1>1, <1>2 DEF LabsInit, LabsInv

(* A handler in hand, by what it is at.                                     *)
LEMMA LabCases ==
  ASSUME NEW m \in LabDoing
  PROVE  /\ m.at = "idle" => m = NoLab
         /\ m.at \in {"idle", "update", "redraw"}
         /\ m.at = "redraw" => m.page \in Features
         /\ m.at = "update" => m.button \in LabButton /\ m.state \in States
         /\ m.at # "idle" => m.rows \in LabRows
BY DEF LabDoing, NoLab

(* A handler that does something that fits keeps the rest.                  *)
LEMMA LabHandlerMoves ==
  ASSUME LabsInv, NEW h \in LabHandlers, NEW m \in LabDoing,
         labHandler' = [labHandler EXCEPT ![h] = m], UNCHANGED <<flags, buttons>>,
         m.at # "idle" => \A f \in Features : WasFlag(f, m.rows[f].state, m.rows[f].version),
         m.at = "update" => WasFlag(m.button.feature, m.button.shown, m.button.version)
  PROVE  LabsInv'
<1>1. labHandler' \in [LabHandlers -> LabDoing]
  BY DEF LabsInv
<1>2. \A g \in LabHandlers : labHandler'[g] = IF g = h THEN m ELSE labHandler[g]
  BY DEF LabsInv
<1> QED BY <1>1, <1>2 DEF LabsInv, WasFlag

(* Every step of the Labs keeps it.                                         *)
LEMMA LabsKeep == LabsInv /\ [LabsNext]_labsVars => LabsInv'
<1> SUFFICES ASSUME LabsInv, [LabsNext]_labsVars PROVE LabsInv'
  OBVIOUS
<1>0. NoLab \in LabDoing /\ NoLab.at = "idle"
  BY DEF LabDoing, NoLab
<1>1. \A f \in Features : WasFlag(f, flags[f].state, flags[f].version)
  BY DEF LabsInv, WasFlag, LabRows
<1>2. CASE UNCHANGED labsVars
  BY <1>2 DEF labsVars, LabsInv, WasFlag
<1>3. ASSUME NEW h \in LabHandlers, NEW f \in Features, ShowLabs(h, f) PROVE LabsInv'
  <2> DEFINE m == [at |-> "redraw", page |-> f, rows |-> flags]
  <2>1. m \in LabDoing /\ m.at = "redraw" /\ m.rows = flags
    BY DEF LabDoing, LabsInv
  <2>2. labHandler' = [labHandler EXCEPT ![h] = m] /\ UNCHANGED <<flags, buttons>>
    BY <1>3 DEF ShowLabs
  <2> HIDE DEF m
  <2> QED BY <1>1, <2>1, <2>2, LabHandlerMoves
<1>4. ASSUME NEW h \in LabHandlers, NEW b \in buttons, NEW s \in States, PressState(h, b, s)
      PROVE  LabsInv'
  <2> DEFINE m == [at |-> "update", button |-> b, state |-> s, rows |-> flags]
  <2>0. b \in LabButton /\ WasFlag(b.feature, b.shown, b.version)
    BY DEF LabsInv
  <2>1. m \in LabDoing /\ m.at = "update" /\ m.rows = flags /\ m.button = b
    BY <2>0 DEF LabDoing, LabsInv
  <2>2. labHandler' = [labHandler EXCEPT ![h] = m] /\ UNCHANGED <<flags, buttons>>
    BY <1>4 DEF PressState
  <2> HIDE DEF m
  <2> QED BY <1>1, <2>0, <2>1, <2>2, LabHandlerMoves
<1>5. ASSUME NEW h \in LabHandlers, LabEnds(h) PROVE LabsInv'
  BY <1>0, <1>5, LabHandlerMoves DEF LabEnds
<1>6. ASSUME NEW h \in LabHandlers, Redraw(h) PROVE LabsInv'
  <2> DEFINE me == labHandler[h]
             b == Page(me.page, me.rows)
  <2>1. me \in LabDoing /\ me.at = "redraw"
    BY <1>6 DEF Redraw, LabsInv
  <2>2. me.page \in Features /\ me.rows \in LabRows
    BY <2>1, LabCases
  <2>3. WasFlag(me.page, me.rows[me.page].state, me.rows[me.page].version)
    BY <2>1, <2>2 DEF LabsInv
  <2>4. /\ b \in LabButton /\ b.feature = me.page
        /\ b.shown = me.rows[me.page].state /\ b.version = me.rows[me.page].version
    BY <2>2 DEF Page, LabButton, LabRows
  <2>5. buttons' = buttons \cup {b} /\ flags' = flags
        /\ labHandler' = [labHandler EXCEPT ![h] = NoLab]
    BY <1>6 DEF Redraw
  <2>6. labHandler' \in [LabHandlers -> LabDoing]
        /\ \A g \in LabHandlers : labHandler'[g] = IF g = h THEN NoLab ELSE labHandler[g]
    BY <1>0, <2>5 DEF LabsInv
  <2>7. \A c \in buttons' : c \in LabButton /\ WasFlag(c.feature, c.shown, c.version)
    BY <2>3, <2>4, <2>5 DEF LabsInv
  <2> HIDE DEF me, b
  <2> QED BY <1>0, <2>5, <2>6, <2>7 DEF LabsInv, WasFlag
<1>7. ASSUME NEW h \in LabHandlers, UpdateNewsFeatureFlag(h) PROVE LabsInv'
  <2> DEFINE me == labHandler[h]
             f == me.button.feature
  <2>1. me \in LabDoing /\ me.at = "update"
    BY <1>7 DEF UpdateNewsFeatureFlag, LabsInv
  <2>2. me.button \in LabButton /\ me.state \in States /\ me.rows \in LabRows /\ f \in Features
    BY <2>1, LabCases DEF LabButton
  <2>3. CASE ~Fenced(me.button)
    BY <1>0, <1>7, <2>3, LabHandlerMoves DEF UpdateNewsFeatureFlag
  <2>4. CASE Fenced(me.button)
    <3> DEFINE new == [state |-> me.state, version |-> flags[f].version + 1]
               m == [at |-> "redraw", page |-> f, rows |-> [me.rows EXCEPT ![f] = new]]
    <3>0. flags[f] \in [state : States, version : Nat] /\ flags \in LabRows
      BY <2>2 DEF LabsInv, LabRows
    <3>1. new \in [state : States, version : Nat] /\ new.state = me.state
          /\ new.version = flags[f].version + 1
      BY <2>2, <3>0
    <3>2. Updated(h) = new /\ Redrawn(h) = [me.rows EXCEPT ![f] = new]
      BY DEF Updated, Redrawn
    <3>3. /\ flags[f].version < MaxFlagVersion[f]
          /\ flags' = [flags EXCEPT ![f] = new]
          /\ labHandler' = [labHandler EXCEPT ![h] = m]
          /\ buttons' = buttons
      BY <1>7, <2>4, <3>2 DEF UpdateNewsFeatureFlag
    <3> HIDE DEF new
    <3>4. /\ flags' \in LabRows
          /\ \A g \in Features : flags'[g] = IF g = f THEN new ELSE flags[g]
      BY <2>2, <3>0, <3>1, <3>3 DEF LabRows
    <3>5. /\ m.rows \in LabRows
          /\ \A g \in Features : m.rows[g] = IF g = f THEN new ELSE me.rows[g]
      BY <2>2, <3>1 DEF LabRows
    <3>6. m \in LabDoing /\ m.at = "redraw"
      BY <2>2, <3>5 DEF LabDoing
    <3> HIDE DEF m
    <3>7. /\ labHandler' \in [LabHandlers -> LabDoing]
          /\ \A g \in LabHandlers : labHandler'[g] = IF g = h THEN m ELSE labHandler[g]
      BY <3>3, <3>6 DEF LabsInv
    <3>8. \A g \in Features : flags'[g].version \in 1..MaxFlagVersion[g]
      BY <3>0, <3>1, <3>3, <3>4, LabsAssumption DEF LabsInv
    <3>9. ASSUME NEW g \in Features, NEW state, NEW version, WasFlag(g, state, version)
          PROVE  WasFlag(g, state, version)'
      BY <3>0, <3>1, <3>4, <3>9 DEF WasFlag
    <3>10. \A c \in buttons' : c \in LabButton /\ WasFlag(c.feature, c.shown, c.version)'
      BY <3>3, <3>9 DEF LabsInv, LabButton
    <3>11. ASSUME NEW g \in LabHandlers, labHandler'[g].at # "idle", NEW e \in Features
           PROVE  WasFlag(e, labHandler[g].rows[e].state, labHandler[g].rows[e].version)'
      <4>1. CASE g = h /\ e = f
        BY <2>2, <3>0, <3>1, <3>4, <3>5, <3>7, <4>1 DEF WasFlag
      <4>2. CASE g = h /\ e # f
        <5>1. me.at # "idle"
          BY <2>1
        <5>2. WasFlag(e, me.rows[e].state, me.rows[e].version)
          BY <4>2, <5>1 DEF LabsInv
        <5>3. labHandler'[g].rows[e] = me.rows[e]
          BY <3>5, <3>7, <4>2
        <5> QED BY <3>9, <5>2, <5>3
      <4>3. CASE g # h
        <5>1. labHandler'[g] = labHandler[g]
          BY <3>7, <4>3
        <5>2. WasFlag(e, labHandler[g].rows[e].state, labHandler[g].rows[e].version)
          BY <3>11, <5>1 DEF LabsInv
        <5> QED BY <3>9, <5>1, <5>2
      <4> QED BY <4>1, <4>2, <4>3
    <3>12. ASSUME NEW g \in LabHandlers, labHandler'[g].at = "update"
           PROVE  WasFlag(labHandler[g].button.feature, labHandler[g].button.shown,
                          labHandler[g].button.version)'
      <4>1. labHandler'[g] = labHandler[g]
        BY <3>6, <3>7, <3>12
      <4>2. labHandler[g].button.feature \in Features
        BY <3>12, <4>1, LabCases DEF LabsInv, LabButton
      <4>3. WasFlag(labHandler[g].button.feature, labHandler[g].button.shown,
                    labHandler[g].button.version)
        BY <3>12, <4>1 DEF LabsInv
      <4> QED BY <3>9, <4>1, <4>2, <4>3
    <3> QED BY <3>4, <3>7, <3>8, <3>10, <3>11, <3>12 DEF LabsInv
  <2> QED BY <2>3, <2>4
<1> QED BY <1>2, <1>3, <1>4, <1>5, <1>6, <1>7 DEF LabsNext

(* It is the types, and buttons that are obeyed are current.                *)
LEMMA LabsMean == LabsInv => LabsTypeOK /\ ObeyedButtonsAreCurrent
<1> SUFFICES ASSUME LabsInv PROVE LabsTypeOK /\ ObeyedButtonsAreCurrent
  OBVIOUS
<1>1. ASSUME NEW f \in Features, NEW r \in [state : States, version : Nat],
             WasFlag(f, r.state, r.version)
      PROVE  r \in FlagRow(f)
  <2>1. r.version \in 1..MaxFlagVersion[f]
    BY <1>1, LabsAssumption DEF LabsInv, WasFlag, LabRows
  <2> QED BY <2>1 DEF FlagRow
<1>2. \A f \in Features : flags[f] \in FlagRow(f)
  BY DEF LabsInv, LabRows, FlagRow
<1>3. \A b \in buttons : /\ b.feature \in Features /\ b.shown \in States
                         /\ b.version \in 1..MaxFlagVersion[b.feature]
  BY LabsAssumption DEF LabsInv, WasFlag, LabButton, LabRows
<1>4. ASSUME NEW h \in LabHandlers
      PROVE  /\ labHandler[h].at \in {"idle", "update", "redraw"}
             /\ labHandler[h].at # "idle" =>
                  \A f \in Features : labHandler[h].rows[f] \in FlagRow(f)
  <2>1. labHandler[h] \in LabDoing
    BY DEF LabsInv
  <2>2. ASSUME labHandler[h].at # "idle", NEW f \in Features
        PROVE  labHandler[h].rows[f] \in FlagRow(f)
    <3>1. labHandler[h].rows[f] \in [state : States, version : Nat]
      BY <2>1, <2>2, LabCases DEF LabRows
    <3>2. WasFlag(f, labHandler[h].rows[f].state, labHandler[h].rows[f].version)
      BY <2>2 DEF LabsInv
    <3> QED BY <1>1, <3>1, <3>2
  <2> QED BY <2>1, <2>2, LabCases
<1>5. ObeyedButtonsAreCurrent
  BY DEF ObeyedButtonsAreCurrent, Fresh, LabsInv, WasFlag
<1> QED BY <1>2, <1>3, <1>4, <1>5 DEF LabsTypeOK

(* A flag changes from what the pressed page showed.                        *)
LEMMA LabsShow ==
  LabsInv /\ [LabsNext]_labsVars =>
    [\A h \in LabHandlers :
       labHandler[h].at = "update" /\ flags' # flags /\ labHandler'[h] # labHandler[h] =>
         LET b == labHandler[h].button
         IN  /\ flags[b.feature].state = b.shown
             /\ \A f \in Features \ {b.feature} : flags'[f] = flags[f]]_labsVars
<1> SUFFICES ASSUME LabsInv, LabsNext, flags' # flags, NEW h \in LabHandlers,
                    labHandler[h].at = "update", labHandler'[h] # labHandler[h]
             PROVE  LET b == labHandler[h].button
                    IN  /\ flags[b.feature].state = b.shown
                        /\ \A f \in Features \ {b.feature} : flags'[f] = flags[f]
  BY DEF labsVars
<1> DEFINE b == labHandler[h].button
<1>1. PICK g \in LabHandlers : UpdateNewsFeatureFlag(g)
  BY DEF LabsNext, ShowLabs, PressState, Redraw, LabEnds
<1>2. g = h
  BY <1>1 DEF UpdateNewsFeatureFlag, LabsInv
<1>3. Fenced(b) /\ flags' = [flags EXCEPT ![b.feature] = Updated(h)]
  BY <1>1, <1>2 DEF UpdateNewsFeatureFlag
<1>4. WasFlag(b.feature, b.shown, b.version)
  BY DEF LabsInv
<1>5. flags[b.feature].state = b.shown
  BY <1>3, <1>4 DEF WasFlag, Fenced
<1>6. \A f \in Features \ {b.feature} : flags'[f] = flags[f]
  BY <1>3 DEF LabsInv, LabRows
<1> QED BY <1>5, <1>6

(* No page, however old, sets a feature to what its reader did not see: the *)
(* version of a flag's row stands for its state (src/telegram-labs.js), for *)
(* any features, handlers and changes.                                      *)
THEOREM LabsPromiseHolds == LabsSpec => LabsPromise
<1>1. LabsSpec => []LabsInv
  BY LabsBegin, LabsKeep, PTL DEF LabsSpec
<1>2. LabsSpec => []ObeyedButtonsAreCurrent
  BY <1>1, LabsMean, PTL
<1>3. LabsSpec => FlagIsWhatWasShown
  BY <1>1, LabsShow, PTL DEF LabsSpec, FlagIsWhatWasShown
<1> QED BY <1>2, <1>3 DEF LabsPromise

-----------------------------------------------------------------------------
(* The night pause                                                         *)

(* A local time is a day and an hour of it.                                 *)
LEMMA LocalTime ==
  ASSUME zone \in Zones, NEW t \in Nat
  PROVE  /\ Madrid(t) \in Nat /\ DayOf(t) \in Nat /\ HourOf(t) \in 0..23
         /\ Madrid(t) = 24 * DayOf(t) + HourOf(t)
<1>1. Madrid(t) \in Nat
  BY NightPauseAssumption DEF Madrid, Zones
<1> QED BY <1>1 DEF DayOf, HourOf

(* The hour of a local time that is given as a day and an hour.             *)
LEMMA HourIs ==
  ASSUME zone \in Zones, NEW t \in Nat, NEW d \in Nat, NEW h \in 0..23,
         Madrid(t) = 24 * d + h
  PROVE  HourOf(t) = h /\ DayOf(t) = d
<1>1. PICK e \in Nat, g \in 0..23 : e = DayOf(t) /\ g = HourOf(t) /\ Madrid(t) = 24 * e + g
  BY LocalTime
<1>2. 24 * e + g = 24 * d + h
  BY <1>1
<1>3. e = d /\ g = h
  BY <1>2
<1> QED BY <1>1, <1>3

(* The clocks change in the first hour of a day of UTC.                     *)
LEMMA ShiftIs == \E k \in Nat : ShiftHour = 24 * k + 1
<1>1. ShiftHour \div 24 \in Nat /\ ShiftHour = 24 * (ShiftHour \div 24) + 1
  BY NightPauseAssumption
<1> QED BY <1>1

(* Local time goes on as the hours do, up to the one that is missing or     *)
(* twice there.                                                             *)
LEMMA LocalGrows ==
  ASSUME zone \in Zones, NEW v \in Nat, NEW w \in Nat, v < w
  PROVE  /\ Madrid(v) <= Madrid(w)
         /\ Madrid(v) = Madrid(w) => Madrid(w) = ShiftHour + 1
         /\ w - v <= Madrid(w) - Madrid(v) + 1
BY NightPauseAssumption DEF Madrid, Zones

(* There is an instant at which it is eight.                                *)
LEMMA MorningIs ==
  ASSUME zone \in Zones, NEW e \in Nat
  PROVE  MorningOf(e) \in Nat /\ Madrid(MorningOf(e)) = 24 * e + 8
<1> DEFINE local == 24 * e + 8
<1>1. PICK k \in Nat : ShiftHour = 24 * k + 1
  BY ShiftIs
<1>2. zone.before \in {1, 2} /\ zone.after \in {1, 2}
  BY DEF Zones
<1>3. local - zone.before \in Nat /\ local - zone.after \in Nat
  BY <1>2
<1>4. \E t \in {local - zone.before, local - zone.after} : Madrid(t) = local
  <2>1. CASE local - zone.before < ShiftHour
    <3>1. Madrid(local - zone.before) = local
      BY <1>2, <1>3, <2>1 DEF Madrid
    <3> QED BY <3>1
  <2>2. CASE ~(local - zone.before < ShiftHour)
    <3>1. e >= k
      BY <1>1, <1>2, <2>2
    <3>2. ~(local - zone.after < ShiftHour)
      BY <1>1, <1>2, <3>1
    <3>3. Madrid(local - zone.after) = local
      BY <1>2, <1>3, <3>2 DEF Madrid
    <3> QED BY <3>3
  <2> QED BY <2>1, <2>2
<1>5. MorningOf(e) \in {local - zone.before, local - zone.after} /\ Madrid(MorningOf(e)) = local
  BY <1>4 DEF MorningOf, InstantOf
<1> QED BY <1>3, <1>5

(* A night ends in its morning: every hour until then is in the night.      *)
LEMMA NightUntilMorning ==
  ASSUME zone \in Zones, NEW t \in Nat, IsNight(t), NEW e \in Nat,
         e = IF HourOf(t) < 8 THEN DayOf(t) ELSE DayOf(t) + 1
  PROVE  /\ MorningOf(e) \in t + 1..t + 11
         /\ ~IsNight(MorningOf(e))
         /\ \A v \in t..(MorningOf(e) - 1) : IsNight(v)
<1> DEFINE m == MorningOf(e)
<1>1. m \in Nat /\ Madrid(m) = 24 * e + 8
  BY MorningIs
<1> HIDE DEF m
<1>2. /\ DayOf(t) \in Nat /\ HourOf(t) \in 0..23 /\ Madrid(t) \in Nat
      /\ Madrid(t) = 24 * DayOf(t) + HourOf(t)
      /\ HourOf(t) >= 22 \/ HourOf(t) < 8
  BY LocalTime DEF IsNight
<1>3. Madrid(t) < Madrid(m) /\ Madrid(m) - Madrid(t) <= 10
  BY <1>1, <1>2
<1>4. t < m
  <2>1. ~(m < t)
    BY <1>1, <1>2, <1>3, LocalGrows
  <2>2. m # t
    BY <1>2, <1>3
  <2> QED BY <1>1, <2>1, <2>2
<1>5. m <= t + 11
  <2>1. m - t <= Madrid(m) - Madrid(t) + 1
    BY <1>1, <1>4, LocalGrows
  <2> QED BY <1>1, <1>2, <1>3, <2>1
<1>6. ~IsNight(m)
  <2>1. HourOf(m) = 8
    BY <1>1, HourIs
  <2> QED BY <2>1 DEF IsNight
<1>7. ASSUME NEW v \in t..(m - 1) PROVE IsNight(v)
  <2>1. v \in Nat /\ v < m /\ (t < v \/ t = v)
    BY <1>1
  <2>2. CASE t = v
    BY <2>2
  <2>3. CASE t < v
    <3>1. Madrid(v) <= Madrid(m) /\ (Madrid(v) = Madrid(m) => Madrid(m) = ShiftHour + 1)
      BY <1>1, <2>1, LocalGrows
    <3>2. Madrid(m) # ShiftHour + 1
      <4>1. PICK k \in Nat : ShiftHour = 24 * k + 1
        BY ShiftIs
      <4> QED BY <1>1, <4>1
    <3>3. Madrid(t) <= Madrid(v) /\ Madrid(v) < Madrid(m) /\ Madrid(v) \in Nat
      <4>1. Madrid(t) <= Madrid(v)
        BY <2>1, <2>3, LocalGrows
      <4>2. Madrid(v) \in Nat
        BY <2>1, LocalTime
      <4> QED BY <1>1, <3>1, <3>2, <4>1, <4>2
    <3>4. CASE HourOf(t) < 8
      <4>0. e = DayOf(t) /\ Madrid(t) >= 24 * e
        BY <1>2, <3>4
      <4>1. Madrid(v) - 24 * e \in 0..23 /\ Madrid(v) = 24 * e + (Madrid(v) - 24 * e)
            /\ Madrid(v) - 24 * e < 8
        BY <1>1, <1>2, <3>3, <4>0
      <4>2. HourOf(v) < 8
        BY <2>1, <4>1, HourIs
      <4> QED BY <4>2 DEF IsNight
    <3>5. CASE ~(HourOf(t) < 8)
      <4>1. e = DayOf(t) + 1 /\ Madrid(t) >= 24 * DayOf(t) + 22
        BY <1>2, <3>5
      <4>2. CASE Madrid(v) >= 24 * e
        <5>1. Madrid(v) - 24 * e \in 0..23 /\ Madrid(v) = 24 * e + (Madrid(v) - 24 * e)
              /\ Madrid(v) - 24 * e < 8
          BY <1>1, <1>2, <3>3, <4>2
        <5>2. HourOf(v) < 8
          BY <2>1, <5>1, HourIs
        <5> QED BY <5>2 DEF IsNight
      <4>3. CASE ~(Madrid(v) >= 24 * e)
        <5> DEFINE d == DayOf(t)
                   h == Madrid(v) - 24 * d
        <5>1. h \in 22..23 /\ Madrid(v) = 24 * d + h /\ d \in Nat
          BY <1>2, <3>3, <4>1, <4>3
        <5>2. HourOf(v) = h
          BY <2>1, <5>1, HourIs
        <5> QED BY <5>1, <5>2 DEF IsNight
      <4> QED BY <4>2, <4>3
    <3> QED BY <3>4, <3>5
  <2> QED BY <2>1, <2>2, <2>3
<1> QED BY <1>1, <1>4, <1>5, <1>6, <1>7 DEF m

(* What next_allowed_news_schedule_at answers is the first hour from t on   *)
(* that is not in the night, a few hours off at most.                       *)
LEMMA NextIsFirst ==
  zone \in Zones => \A t \in Nat :
    /\ NextAllowed(t, TRUE) = FirstAllowed(t)
    /\ FirstAllowed(t) \in t..(t + 11) /\ ~IsNight(FirstAllowed(t))
    /\ \A v \in t..(FirstAllowed(t) - 1) : IsNight(v)
<1> SUFFICES ASSUME zone \in Zones, NEW t \in Nat
             PROVE  /\ NextAllowed(t, TRUE) = FirstAllowed(t)
                    /\ FirstAllowed(t) \in t..(t + 11) /\ ~IsNight(FirstAllowed(t))
                    /\ \A v \in t..(FirstAllowed(t) - 1) : IsNight(v)
  OBVIOUS
<1> DEFINE n == NextAllowed(t, TRUE)
           First(u) == ~IsNight(u) /\ \A v \in t..(u - 1) : IsNight(v)
<1>1. n \in t..(t + 11) /\ First(n)
  <2>1. DayOf(t) \in Nat /\ DayOf(t) + 1 \in Nat /\ HourOf(t) \in 0..23
    BY LocalTime
  <2>2. CASE HourOf(t) < 8
    <3>1. n = MorningOf(DayOf(t)) /\ IsNight(t)
      BY <2>2 DEF NextAllowed, IsNight
    <3>2. MorningOf(DayOf(t)) \in t + 1..t + 11 /\ First(MorningOf(DayOf(t)))
      BY <2>1, <2>2, <3>1, NightUntilMorning
    <3> HIDE DEF n, First
    <3> QED BY <3>1, <3>2
  <2>3. CASE HourOf(t) >= 22
    <3>1. n = MorningOf(DayOf(t) + 1) /\ IsNight(t) /\ ~(HourOf(t) < 8)
      BY <2>1, <2>3 DEF NextAllowed, IsNight
    <3>2. MorningOf(DayOf(t) + 1) \in t + 1..t + 11 /\ First(MorningOf(DayOf(t) + 1))
      BY <2>1, <3>1, NightUntilMorning
    <3> HIDE DEF n, First
    <3> QED BY <3>1, <3>2
  <2>4. CASE ~(HourOf(t) < 8) /\ ~(HourOf(t) >= 22)
    BY <2>4 DEF NextAllowed, IsNight
  <2> QED BY <2>2, <2>3, <2>4
<1>2. FirstAllowed(t) = CHOOSE u \in t..(t + 24) : First(u)
  BY DEF FirstAllowed
<1> HIDE DEF n
<1>3. FirstAllowed(t) \in t..(t + 24) /\ First(FirstAllowed(t))
  <2>1. \E u \in t..(t + 24) : First(u)
    <3>1. n \in t..(t + 24)
      BY <1>1
    <3> QED BY <1>1, <3>1
  <2> HIDE DEF First
  <2> QED BY <1>2, <2>1
<1>4. ~(FirstAllowed(t) < n) /\ ~(n < FirstAllowed(t))
  BY <1>1, <1>3
<1>5. FirstAllowed(t) = n
  BY <1>1, <1>3, <1>4
<1> QED BY <1>1, <1>3, <1>5 DEF n

(* Types, nothing due at night while the pause is on, and an occurrence     *)
(* that waits waits for one night.                                          *)
NightInv == NightTypeOK /\ NothingDueAtNight /\ DeferredForOneNight

(* Where next_run_at may be after it is set, with the pause on or off.      *)
LEMMA NextFits ==
  ASSUME zone \in Zones, NEW t \in 0..(LastHour + 24), NEW pause \in BOOLEAN
  PROVE  /\ NextAllowed(t, pause) \in 0..Horizon /\ NextAllowed(t, pause) # Never
         /\ pause => ~IsNight(NextAllowed(t, pause))
         /\ NextAllowed(t, pause) <= FirstAllowed(t)
<1>1. zone \in Zones /\ t \in Nat /\ LastHour \in Nat /\ Never \notin Nat
  BY NightPauseAssumption
<1>2. /\ NextAllowed(t, TRUE) = FirstAllowed(t)
      /\ FirstAllowed(t) \in t..(t + 11) /\ ~IsNight(FirstAllowed(t))
  BY <1>1, NextIsFirst
<1>3. CASE pause
  <2>1. NextAllowed(t, pause) = FirstAllowed(t)
    BY <1>2, <1>3
  <2> QED BY <1>1, <1>2, <2>1 DEF Horizon
<1>4. CASE ~pause
  <2>1. NextAllowed(t, pause) = t
    BY <1>4 DEF NextAllowed
  <2> QED BY <1>1, <1>2, <1>4, <2>1 DEF Horizon
<1> QED BY <1>3, <1>4

(* The first occurrence is set by the interval.                             *)
LEMMA NightBegin == NightInit => NightInv
<1> SUFFICES ASSUME NightInit PROVE NightInv
  OBVIOUS
<1>1. /\ zone \in Zones /\ clock = 0 /\ enabled \in BOOLEAN /\ pausing = enabled
      /\ every \in Intervals /\ nextAt = NextAllowed(every, enabled) /\ occurrence = "none"
      /\ every \in 1..24 /\ every \in 0..(LastHour + 24) /\ every \in Nat
  BY NightPauseAssumption DEF NightInit
<1>4. nextAt \in 0..Horizon /\ nextAt # Never /\ (enabled => ~IsNight(nextAt))
  BY <1>1, NextFits
<1>5. NightTypeOK
  BY <1>1, <1>4, NightPauseAssumption DEF NightTypeOK
<1> QED BY <1>1, <1>4, <1>5 DEF NightInv, NothingDueAtNight, DeferredForOneNight

(* The night is the same after a step that leaves the zone alone.           *)
LEMMA NightStays ==
  ASSUME UNCHANGED zone
  PROVE  \A t : /\ (IsNight(t))' = IsNight(t)
                /\ (FirstAllowed(t))' = FirstAllowed(t)
BY DEF FirstAllowed, IsNight, HourOf, Madrid

(* The steps that leave the clock alone and set next_run_at, if anything,   *)
(* for an hour from now on.                                                 *)
LEMMA NightSet ==
  ASSUME NightInv, UNCHANGED <<zone, clock>>,
         every' \in Intervals \cup {0}, enabled' \in BOOLEAN, pausing' \in BOOLEAN,
         occurrence' \in {"none", "claimed", "open"},
         \/ every' = 0 /\ nextAt' = Never
         \/ /\ every' # 0
            /\ \E t \in {clock, clock + every'}, pause \in BOOLEAN :
                 /\ nextAt' = NextAllowed(t, pause)
                 /\ enabled' => pause
                 /\ occurrence' = "open" => t = clock
  PROVE  NightInv'
<1>1. /\ zone \in Zones /\ clock \in 0..LastHour /\ LastHour \in Nat /\ 0 \notin Intervals
      /\ Intervals \subseteq 1..24
  BY NightPauseAssumption DEF NightInv, NightTypeOK
<1>2. CASE every' = 0 /\ nextAt' = Never
  BY <1>1, <1>2 DEF NightInv, NightTypeOK, NothingDueAtNight, DeferredForOneNight
<1>3. ASSUME every' # 0, NEW t \in {clock, clock + every'}, NEW pause \in BOOLEAN,
             nextAt' = NextAllowed(t, pause), enabled' => pause,
             occurrence' = "open" => t = clock
      PROVE  NightInv'
  <2>1. t \in 0..(LastHour + 24) /\ t \in Nat
    <3>1. PICK i \in 0..24 : i = every'
      BY <1>1
    <3>2. clock + i \in 0..(LastHour + 24) /\ clock \in 0..(LastHour + 24)
      BY <1>1
    <3>3. t \in 0..(LastHour + 24)
      BY <3>1, <3>2
    <3> QED BY <1>1, <3>3
  <2>2. /\ nextAt' \in 0..Horizon /\ nextAt' # Never
        /\ pause => ~IsNight(NextAllowed(t, pause))
        /\ nextAt' <= FirstAllowed(t)
    BY <1>1, <1>3, <2>1, NextFits
  <2>3. NightTypeOK'
    BY <1>1, <1>3, <2>2 DEF NightTypeOK, Horizon
  <2>4. PICK n : n = nextAt'
    OBVIOUS
  <2>5. enabled' => ~IsNight(n)
    BY <1>3, <2>2, <2>4
  <2>6. (IsNight(n))' = IsNight(n)
    BY NightStays
  <2>7. NothingDueAtNight'
    BY <2>4, <2>5, <2>6 DEF NothingDueAtNight
  <2>8. occurrence' = "open" => nextAt' <= (FirstAllowed(t))'
    BY <2>2, NightStays
  <2>9. DeferredForOneNight'
    BY <1>3, <2>8 DEF DeferredForOneNight
  <2> QED BY <2>3, <2>7, <2>9 DEF NightInv
<1> QED BY <1>2, <1>3

(* An hour passes: who waits for a morning still waits for it.              *)
LEMMA HourKept ==
  ASSUME NightInv, AnHourPasses
  PROVE  NightInv'
<1>1. /\ zone \in Zones /\ clock \in Nat /\ clock' = clock + 1 /\ clock' \in Nat
      /\ UNCHANGED <<zone, enabled, every, nextAt, occurrence, pausing>>
      /\ clock' \in 0..LastHour
  BY NightPauseAssumption DEF NightInv, NightTypeOK, AnHourPasses
<1>2. NightTypeOK'
  BY <1>1 DEF NightInv, NightTypeOK, Horizon
<1>3. PICK n : n = nextAt
  OBVIOUS
<1>4. NothingDueAtNight'
  <2>1. (IsNight(n))' = IsNight(n)
    BY <1>1, NightStays
  <2> QED BY <1>1, <1>3, <2>1 DEF NightInv, NothingDueAtNight
<1>5. PICK c \in Nat : c = clock
  BY <1>1
<1>6. FirstAllowed(c) <= FirstAllowed(c + 1) /\ FirstAllowed(c) \in Nat /\ FirstAllowed(c + 1) \in Nat
  <2>1. /\ FirstAllowed(c) \in c..(c + 11)
        /\ \A v \in c..(FirstAllowed(c) - 1) : IsNight(v)
    BY <1>1, <1>5, NextIsFirst
  <2>2. PICK d \in Nat : d = c + 1
    BY <1>5
  <2>3. FirstAllowed(d) \in d..(d + 11) /\ ~IsNight(FirstAllowed(d))
    BY <1>1, NextIsFirst
  <2> QED BY <2>1, <2>2, <2>3
<1>7. (FirstAllowed(c + 1))' = FirstAllowed(c + 1)
  BY <1>1, NightStays
<1>8. DeferredForOneNight'
  <2>1. ASSUME occurrence = "open", nextAt # Never PROVE nextAt <= FirstAllowed(c + 1)
    <3>1. nextAt <= FirstAllowed(c)
      BY <1>5, <2>1 DEF NightInv, DeferredForOneNight
    <3>2. nextAt \in Nat
      BY <2>1, NightPauseAssumption DEF NightInv, NightTypeOK, Horizon
    <3> QED BY <1>6, <3>1, <3>2
  <2>2. clock' = c + 1
    BY <1>1, <1>5
  <2> QED BY <1>1, <1>7, <2>1, <2>2 DEF DeferredForOneNight
<1> QED BY <1>2, <1>4, <1>8 DEF NightInv

(* Every step of the schedule keeps it.                                     *)
LEMMA NightKeep == NightInv /\ [NightNext]_nightVars => NightInv'
<1> SUFFICES ASSUME NightInv, [NightNext]_nightVars PROVE NightInv'
  OBVIOUS
<1>1. /\ zone \in Zones /\ clock \in 0..LastHour /\ enabled \in BOOLEAN /\ pausing \in BOOLEAN
      /\ every \in Intervals \cup {0} /\ (every = 0) = (nextAt = Never)
      /\ occurrence \in {"none", "claimed", "open"}
      /\ clock \in Nat
  BY NightPauseAssumption DEF NightInv, NightTypeOK
<1>2. CASE UNCHANGED nightVars
  <2>1. NightTypeOK'
    BY <1>2 DEF nightVars, NightInv, NightTypeOK, Horizon
  <2>2. NothingDueAtNight' /\ DeferredForOneNight'
    BY <1>2 DEF nightVars, NightInv, NothingDueAtNight, DeferredForOneNight, FirstAllowed,
                IsNight, HourOf, Madrid
  <2> QED BY <2>1, <2>2 DEF NightInv
<1>3. CASE AnHourPasses
  BY <1>3, HourKept
<1>4. CASE MoveDueToMorning
  <2>1. /\ UNCHANGED <<zone, clock>> /\ UNCHANGED <<enabled, every, occurrence, pausing>>
        /\ nextAt' = IF every = 0 THEN Never ELSE NextAllowed(clock, TRUE)
    BY <1>4 DEF MoveDueToMorning, SetNext
  <2> QED BY <1>1, <2>1, NightSet
<1>5. CASE ClaimDue
  <2>1. /\ UNCHANGED <<zone, clock, enabled, every, nextAt>> /\ occurrence' = "claimed"
        /\ pausing' \in BOOLEAN
    BY <1>1, <1>5 DEF ClaimDue
  <2>2. NightTypeOK'
    BY <1>1, <2>1 DEF NightInv, NightTypeOK, Horizon
  <2>3. NothingDueAtNight'
    BY <2>1 DEF NightInv, NothingDueAtNight, IsNight, HourOf, Madrid
  <2> QED BY <2>1, <2>2, <2>3 DEF NightInv, DeferredForOneNight
<1>6. CASE DeferOccurrence
  <2>1. /\ UNCHANGED <<zone, clock>> /\ UNCHANGED <<enabled, every, pausing>>
        /\ occurrence' = "open"
        /\ nextAt' = IF every = 0 THEN Never ELSE NextAllowed(clock, TRUE)
    BY <1>6 DEF DeferOccurrence, SetNext
  <2> QED BY <1>1, <2>1, NightSet
<1>7. CASE FinishOccurrence
  <2>1. /\ UNCHANGED <<zone, clock>> /\ UNCHANGED <<enabled, every, pausing>>
        /\ occurrence' = "none"
        /\ nextAt' = IF every = 0 THEN Never ELSE NextAllowed(clock + every, enabled)
    BY <1>7 DEF FinishOccurrence, SetNext
  <2> QED BY <1>1, <2>1, NightSet
<1>8. CASE PauseNewsScheduleUnresolved
  <2>1. /\ UNCHANGED <<zone, clock>> /\ UNCHANGED <<enabled, pausing>>
        /\ occurrence' = "open" /\ every' = 0 /\ nextAt' = Never
    BY <1>8 DEF PauseNewsScheduleUnresolved
  <2> QED BY <1>1, <2>1, NightSet
<1>9. ASSUME NEW i \in Intervals \cup {0}, NEW pause \in BOOLEAN, UpdateSchedule(i, pause)
      PROVE  NightInv'
  <2>1. /\ UNCHANGED <<zone, clock>> /\ UNCHANGED <<occurrence, pausing>>
        /\ every' = i /\ enabled' = pause
        /\ nextAt' = IF i = 0 THEN Never
                     ELSE IF occurrence = "none" THEN NextAllowed(clock + i, pause)
                     ELSE NextAllowed(clock, pause)
    BY <1>9 DEF UpdateSchedule, DueAfter
  <2> QED BY <1>1, <2>1, NightSet
<1> QED BY <1>2, <1>3, <1>4, <1>5, <1>6, <1>7, <1>8, <1>9 DEF NightNext

(* The pause ends with the very night.                                      *)
LEMMA NightMeans == NightInv => /\ NightTypeOK /\ PauseEndsWithTheNight
                                /\ NothingDueAtNight /\ DeferredForOneNight
<1> SUFFICES ASSUME NightInv PROVE PauseEndsWithTheNight
  BY DEF NightInv
<1>1. zone \in Zones
  BY DEF NightInv, NightTypeOK
<1>2. \A t \in 0..(LastHour + 24) : t \in Nat
  BY NightPauseAssumption
<1> QED BY <1>1, <1>2, NextIsFirst DEF PauseEndsWithTheNight

(* A due time leaves the night it is in by the first hour after it, over a  *)
(* night that is an hour short or long too, nothing is due at night while   *)
(* the pause is on, and an occurrence that was deferred waits for one night *)
(* (next_allowed_news_schedule_at), for any clock, intervals and changes.   *)
THEOREM NightPromiseHolds ==
  NightSpec => [](PauseEndsWithTheNight /\ NothingDueAtNight /\ DeferredForOneNight)
<1>1. NightSpec => []NightInv
  BY NightBegin, NightKeep, PTL DEF NightSpec
<1> QED BY <1>1, NightMeans, PTL
-----------------------------------------------------------------------------
(* Updates, reviews, panels and hours side by side                         *)

(* The invariants of all of them, one beside the other.                     *)
SideBySideInv == LedgerInv /\ ReviewInv /\ SettingsInv /\ LabsInv /\ NightInv

(* Whichever moves, each takes a step of its own or stays.                  *)
LEMMA EachConverses ==
  [ConversationNext]_conversationVars =>
    /\ [UpdatesNext]_updateVars /\ [ReviewNext]_reviewVars /\ [SettingsNext]_settingsVars
    /\ [LabsNext]_labsVars /\ [NightNext]_nightVars
BY Zenon DEF ConversationNext, conversationVars

(* Each begins as it would alone.                                           *)
LEMMA EachBegins ==
  ConversationInit => UpdatesInit /\ ReviewInit /\ SettingsInit /\ LabsInit /\ NightInit
BY DEF ConversationInit

(* And so each behaves as its own specification says.                       *)
LEMMA EachIsItself ==
  ConversationSpec => UpdatesSpec /\ ReviewSpec /\ SettingsSpec /\ LabsSpec /\ NightSpec
<1>1. ConversationSpec => UpdatesSpec
  BY EachBegins, EachConverses, PTL DEF ConversationSpec, UpdatesSpec
<1>2. ConversationSpec => ReviewSpec
  BY EachBegins, EachConverses, PTL DEF ConversationSpec, ReviewSpec
<1>3. ConversationSpec => SettingsSpec
  BY EachBegins, EachConverses, PTL DEF ConversationSpec, SettingsSpec
<1>4. ConversationSpec => LabsSpec
  BY EachBegins, EachConverses, PTL DEF ConversationSpec, LabsSpec
<1>5. ConversationSpec => NightSpec
  BY EachBegins, EachConverses, PTL DEF ConversationSpec, NightSpec
<1> QED BY <1>1, <1>2, <1>3, <1>4, <1>5

(* The updates, the reviews, the settings, the Labs and the hours of the    *)
(* schedule keep their types together, for any values of their constants.   *)
THEOREM ConversationIsTyped == ConversationSpec => []ConversationTypeOK
<1>1. ConversationInit => SideBySideInv
  BY EachBegins, LedgerInductive, ReviewInductive, SettingsBegin, LabsBegin, NightBegin
  DEF SideBySideInv
<1>2. SideBySideInv /\ [ConversationNext]_conversationVars => SideBySideInv'
  <2> SUFFICES ASSUME SideBySideInv, [ConversationNext]_conversationVars
               PROVE  SideBySideInv'
    OBVIOUS
  <2>1. /\ [UpdatesNext]_updateVars /\ [ReviewNext]_reviewVars /\ [SettingsNext]_settingsVars
        /\ [LabsNext]_labsVars /\ [NightNext]_nightVars
    BY EachConverses
  <2>2. LedgerInv' /\ ReviewInv' /\ SettingsInv' /\ LabsInv' /\ NightInv'
    BY <2>1, LedgerInductive, ReviewInductive, SettingsKeep, LabsKeep, NightKeep
    DEF SideBySideInv
  <2> QED BY <2>2 DEF SideBySideInv
<1>3. SideBySideInv => ConversationTypeOK
  <2> SUFFICES ASSUME SideBySideInv PROVE ConversationTypeOK
    OBVIOUS
  <2>1. UpdatesTypeOK
    BY DEF SideBySideInv, LedgerInv, CursorsInv
  <2>2. ReviewTypeOK
    BY DEF SideBySideInv, ReviewInv
  <2>3. SettingsTypeOK /\ LabsTypeOK /\ NightTypeOK
    BY SettingsMean, LabsMean, NightMeans DEF SideBySideInv
  <2> QED BY <2>1, <2>2, <2>3 DEF ConversationTypeOK
<1> QED BY <1>1, <1>2, <1>3, PTL DEF ConversationSpec

(* Every panel of the bot keeps the promise of its page: a press does what  *)
(* its own page showed (telegram-settings.js, telegram-labs.js), and the    *)
(* hour it schedules is one the night pause allows, beside every update and *)
(* review that goes on.                                                     *)
THEOREM PanelsKeepTheirPromise == ConversationSpec => PanelsPromise
<1>1. ConversationSpec => LabsPromise
  BY EachIsItself, LabsPromiseHolds
<1>2. ConversationSpec => SettingsPromise
  BY EachIsItself, SettingsPromiseHolds
<1>3. ConversationSpec => [](PauseEndsWithTheNight /\ NothingDueAtNight /\ DeferredForOneNight)
  BY EachIsItself, NightPromiseHolds
<1> QED BY <1>1, <1>2, <1>3 DEF PanelsPromise

(* The ledger of updates and the reviews keep theirs beside the panels.     *)
THEOREM ConversationKeepsItsPromises == ConversationSpec => UpdatesPromise /\ ReviewPromise
BY EachIsItself, UpdatesPromiseHolds, ReviewPromiseHolds
=============================================================================
