SPECIFICATION Spec
CONSTANTS
  foo = foo
  bar = bar
  x = x
  y = y
  Name = {foo, bar, x, y}
  Node <- Nodes40
  NULL = NULL
  Programs <- NamePrograms
INVARIANTS
  SemanticsTypeOK
  ScopesMatchCalls
  BindingsAreLexical
  CrashOnlyAfterError
  CallsMatchDefinitions
  ReturnsMatchDefinitions
  OneDefinition
  OnlyRedefinitionsUnready
PROPERTIES
  ObeysScopes
  Terminates
CHECK_DEADLOCK FALSE
