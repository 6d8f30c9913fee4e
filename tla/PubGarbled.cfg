\* A success reply cut off mid-body is read as a rejection.
CONSTANTS
  s1 = s1
  None = None
  Drafts = {d1}
  Publishers = {p1, p2}
  Stories = {s1}
  Story <- OneStory
  MaxVersion = 1
  GarbledReplies = TRUE
  OperatorWaits = TRUE
SPECIFICATION Spec
INVARIANTS AtMostOnce
