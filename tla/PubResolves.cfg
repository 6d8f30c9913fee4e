\* Two drafts of one story, two executions, every reply readable.  Liveness: no
\* symmetry.
CONSTANTS
  s1 = s1
  None = None
  Drafts = {d1, d2}
  Publishers = {p1, p2}
  Stories = {s1}
  Story <- OneStory
  MaxVersion = 1
  GarbledReplies = FALSE
  OperatorWaits = TRUE
SPECIFICATION FairSpec
INVARIANTS AtMostOnce ApprovedMeansUnsent OneHolder BlockedNeverSent
PROPERTIES PublicationResolves KeepsPromise
