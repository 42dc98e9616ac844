SPECIFICATION Spec
CONSTANTS
  ThreadNum = 2
  MinRegion = 2
  UIntModulus = 64
  FieldCount = 2
  IntLimit = 4
  MaxQueries = 2
  MaxBatch = 2
  Tasks <- MCTasks
  Requests <- RaisingQueries
  InitialTables <- ShortTables
INVARIANTS
  NoStrayTask
\* A task without its query may kill the process.
CHECK_DEADLOCK FALSE
