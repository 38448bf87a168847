SPECIFICATION Spec
CONSTANTS
  Task = {t1, t2}
  Object = {"small", "large"}
  SizeOf <- MCSizeOf
  Ranges <- MCRanges
  PartSize = 2
  ChunkSize = 2
  Threshold = 1
  MaxEntries = 2
  SizeEntries = 1
  Budgets = {2, 3}
  Usize = 4
  MaxFault = 2
SYMMETRY Calls
INVARIANTS
  BudgetHeld AnswersExact
