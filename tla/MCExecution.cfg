SPECIFICATION ExecutionSpec
CONSTANTS
  x = x
  y = y
  z = z
  foo = foo
  bar = bar
  puti = puti
  getc = getc
  getw = getw
  exit = exit
  assert_fail = assert_fail
  ocmain = ocmain
  Name = {x, y, z, foo, bar, puti, getc, getw, exit, assert_fail}
  Node <- Nodes80
  NULL = NULL
  MaxInt = 4
  CharSize = 3
  MaxDepth = 4
  MaxHeap = 4
  SizeMax = 15
  Programs <- ExecutionPrograms
PROPERTY ImplementsSource
CHECK_DEADLOCK FALSE
