SPECIFICATION Spec
CONSTANTS
  x1 = x1
  x2 = x2
  Turns = {t1, t2}
  Tools = {x1, x2}
  MaxCalls = 2
  Requests <- MCRequests
  Callers = {"buffered", "whatsapp"}
  NoOne = NoOne
INVARIANTS BudgetBoundsATurn  CountsOnlyLoggedFailures
PROPERTY EveryTurnEnds
