SPECIFICATION Spec
CONSTANTS
  Records = {1, 2, 3, 4, 5}
  PageSize = 2
  MaxPages = 3
  MaxRecords = 9
  MaxLength = 4
  MaxChanges = 0
INVARIANT EveryRecordOnce
