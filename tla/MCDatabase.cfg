SPECIFICATION Spec
CONSTANTS
  Names = {"a", "b"}
  Files = {"f", "g"}
  ReadOnly = {"g"}
  Keys <- InsertedKeys
  Tuples <- InsertedTuples
  Memory = {1}
  InitialDisks <- Disks
  LongFields = {"long"}
  LongValues <- WideNumbers
  IntMin <- Least
  IntMax = 9
INVARIANTS TypeOK TablesExact RowsFitFields NamesRemembered
PROPERTIES ImplementsArchive ReportsLoadedTable
