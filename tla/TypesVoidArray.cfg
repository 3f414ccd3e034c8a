SPECIFICATION Spec
CONSTANTS
  foo = foo
  bar = bar
  vint = vint
  vchar = vchar
  vbool = vbool
  vstring = vstring
  vstruct = vstruct
  vints = vints
  vstructs = vstructs
  Pair = vstruct
  Quad = vstructs
  left = vint
  rest = vints
  Name = {foo, bar, vint, vchar, vbool, vstring, vstruct, vints, vstructs}
  Node <- Nodes60
  NULL = NULL
  Programs <- TypePrograms
INVARIANT NoVoidArray
CHECK_DEADLOCK FALSE
