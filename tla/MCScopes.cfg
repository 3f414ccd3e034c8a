SPECIFICATION MCSpec
CONSTANTS
  Name = {x, y}
  Node = {n1, n2, n3, n4}
  NULL = NULL
  MaxBlocks = 3
INVARIANTS
  ScopesTypeOK
  MangledNamesUnique
  TablesExact
PROPERTY ImplementsLexicalScope
CHECK_DEADLOCK FALSE
