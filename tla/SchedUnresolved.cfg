\* A crash between the publication claim and the receipt.
CONSTANTS
  Drafts = {d1}
  Workers = {w1, w2}
  None = None
  Other = Other
  MaxRuns = 1
  MaxFaults = 1
  MaxChanges = 0
  NewsReviews = FALSE
  Stalls = FALSE
  SkewedClock = FALSE
SPECIFICATION Spec
SYMMETRY Symmetry
PROPERTY UnresolvedPauses
