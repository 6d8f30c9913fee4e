\* Two requests of a channel, two workers that stall and crash.  Nothing the
\* queue does depends on a draft, so research finds none.
CONSTANTS
  c1 = c1
  Jobs = {j1, j2}
  Channel <- OneChannel
  Workers = {w1, w2}
  Drafts = {}
  None = None
  Other = Other
  MaxExecutions = 2
  MaxDeliveries = 2
  MaxFaults = 1
  Stalls = TRUE
SPECIFICATION Spec
SYMMETRY RequestSymmetry
INVARIANT TypeOK
PROPERTY KeepsRequestPromise
