\* One occurrence, two workers that may stall and clocks that disagree.
CONSTANTS
  Drafts = {d1, d2}
  Workers = {w1, w2}
  None = None
  Other = Other
  MaxRuns = 1
  MaxFaults = 1
  MaxChanges = 1
  NewsReviews = FALSE
  Stalls = TRUE
  SkewedClock = TRUE
SPECIFICATION Spec
SYMMETRY Symmetry
INVARIANTS TypeOK OneArticlePerRun
PROPERTIES OccurrenceImmutable HonestStatus
