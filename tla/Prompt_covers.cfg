SPECIFICATION Spec
CONSTANTS
  MaxHistory = 6
  MaxSize = 2
  MaxBudget = 5
INVARIANT PromptCoversHistory
