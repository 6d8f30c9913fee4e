\* Success replies cut off mid-body and an operator who does not wait.
CONSTANTS
  s1 = s1
  None = None
  Drafts = {d1}
  Publishers = {p1, p2}
  Stories = {s1}
  Story <- OneStory
  MaxVersion = 3
  GarbledReplies = TRUE
  OperatorWaits = FALSE
SPECIFICATION Spec
SYMMETRY ExecutionSymmetry
INVARIANTS TypeOK ReceiptsTruthful AnswersTruthful
PROPERTIES PolicyCurrentAtClaim
