\* Two occurrences in a row, resumed by a worker that is restarted.  No symmetry.
CONSTANTS
  Drafts = {d1, d2}
  Workers = {w1}
  None = None
  Other = Other
  MaxRuns = 2
  MaxFaults = 1
  MaxChanges = 1
  NewsReviews = TRUE
  Stalls = FALSE
  SkewedClock = FALSE
SPECIFICATION FairSpec
INVARIANT OneReviewAtATime
PROPERTY RunsEnd
