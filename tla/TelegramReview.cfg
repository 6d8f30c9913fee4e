\* Two presses on the buttons of a draft, taken by two pollers that are the
\* handlers too; one thing that goes wrong.  The preview is already delivered.
CONSTANTS
  Pollers = {p1, p2}
  Handlers = {p1, p2}
  None = None
  Dead = Dead
  LastUpdate = 2
  Kind <- Presses
  MaxAttempts = 2
  MaxLedgerAttempts = 2
  MaxFaults = 1
  Deliverers = {}
  MaxPreviews = 1
  MaxMishaps = 0
SPECIFICATION FairSpec
INVARIANTS TypeOK PressPromise
PROPERTIES ApprovalIsActedOn EveryUpdateIsClosed
