SPECIFICATION Spec
CONSTANTS
  ThreadNum = 1
  MinRegion = 2
  UIntModulus = 64
  FieldCount = 2
  IntLimit = 4
  MaxQueries = 3
  MaxBatch = 2
  Tasks <- MCTasks
  Requests <- RaisingQueries
  InitialTables <- ShortTables
INVARIANTS
  NeverCrashes
PROPERTIES
  ImplementsSerialQueries
\* The input ends.
CHECK_DEADLOCK FALSE
