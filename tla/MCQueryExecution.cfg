SPECIFICATION Spec
CONSTANTS
  ThreadNum = 2
  MinRegion = 2
  UIntModulus = 64
  FieldCount = 2
  IntLimit = 4
  MaxQueries = 2
  MaxBatch = 2
  Tasks <- MCTasks
  Requests <- AllQueries
  InitialTables <- FullTables
INVARIANTS
  TypeOK
  KeysUnique
  NoStrayTask
  RegionsApart
  BatchHasThreads
PROPERTIES
  IteratorsStayValid
  ImplementsSerialQueries
\* The input ends, and DELETE with no idle thread kills the process.
CHECK_DEADLOCK FALSE
