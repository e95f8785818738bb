SPECIFICATION Spec
CONSTANTS
  MaxHistory = 6
  MaxSize = 2
  MaxBudget = 5
INVARIANTS TrimKeepsTheMostThatFits SummaryFoldsEachRowOnce OnlyWhatIsBeingFoldedIsMissing
