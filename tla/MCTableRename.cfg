SPECIFICATION Spec
CONSTANTS
  Stems = {1, 2}
  CopyBound = 1
  Values = {v1, v2}
  UniqueRenames = FALSE
INVARIANTS
  KeysUnique
CHECK_DEADLOCK FALSE
