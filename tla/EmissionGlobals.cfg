SPECIFICATION EmitSpec
CONSTANTS
  foo = foo
  bar = bar
  vint = vint
  vchar = vchar
  vbool = vbool
  vstring = vstring
  vstruct = vstruct
  vints = vints
  vstructs = vstructs
  Pair = vstruct
  Quad = vstructs
  left = vint
  rest = vints
  ocmain = vstructs
  Name = {foo, bar, vint, vchar, vbool, vstring, vstruct, vints, vstructs}
  Node <- Nodes90
  NULL = NULL
  Programs <- EmissionPrograms
INVARIANT GlobalsAtTop
CHECK_DEADLOCK FALSE
