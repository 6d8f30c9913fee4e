\* Four publishers, two of them strong, for a draft whose evidence is found
\* wanting; the editorial pass is in collect mode in some behaviours.
CONSTANTS
  Publishers = {o, s1, s2, w}
  Origin = o
  Strong = {s1, s2}
  RequiredPublishers = 2
  MaxSearches = 2
  MaxRequests = 3
SPECIFICATION DraftSpec
INVARIANT CollectKeepsBaseline
CHECK_DEADLOCK FALSE
