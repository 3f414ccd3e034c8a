SPECIFICATION OclibSpec
CONSTANTS
  NULL = NULL
  space = space
  nl = nl
  nul = nul
  letter = letter
  Byte = {space, nl, nul, letter}
  Size = 4
  MaxInput = 6
INVARIANTS
  OclibTypeOK
  GetwReadsWord
  GetlnReadsLine
  AbortsOnlyWhenLong
CHECK_DEADLOCK FALSE
