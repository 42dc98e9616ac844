SPECIFICATION Spec
CONSTANTS
  Stems = {1, 2}
  CopyBound = 1
  Values = {v1, v2}
  UniqueRenames = TRUE
INVARIANTS
  TypeOK
  KeysUnique
  NoFault
PROPERTIES
  ImplementsKeyedRows
