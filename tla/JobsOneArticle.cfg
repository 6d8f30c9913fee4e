\* One request executed again and again by workers that crash.
CONSTANTS
  c1 = c1
  Jobs = {j1}
  Channel <- OneChannel
  Workers = {w1, w2}
  Drafts = {d1, d2}
  None = None
  Other = Other
  MaxExecutions = 3
  MaxDeliveries = 2
  MaxFaults = 2
  Stalls = FALSE
SPECIFICATION FairSpec
INVARIANTS OneArticlePerRequest OutcomeIsCheckpointed ToldTheTruth
PROPERTIES RequestsAreClosed
