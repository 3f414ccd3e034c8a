SPECIFICATION Spec
CONSTANTS
  foo = foo
  bar = bar
  x = x
  y = y
  Name = {foo, bar, x, y}
  Node <- Nodes40
  NULL = NULL
  Programs <- FunctionPrograms
INVARIANT EmitReady
CHECK_DEADLOCK FALSE
