SPECIFICATION FairSpec
CONSTANTS
  ThreadNum = 3
  MinRegion = 2
  UIntModulus = 64
  FieldCount = 2
  IntLimit = 4
  MaxQueries = 2
  MaxBatch = 3
  Tasks <- MCTasks
  Requests <- GuardedQueries
  InitialTables <- FourRows
INVARIANTS
  RegionsApart
  BatchHasThreads
  NeverCrashes
PROPERTIES
  ImplementsSerialQueries
  QueryReturns
\* The input ends.
CHECK_DEADLOCK FALSE
