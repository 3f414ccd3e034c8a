SPECIFICATION ScannerSpec
CONSTANTS
  FileName = {f, g}
  MarkerLine = {0, 1, 2}
  Length = {1, 2}
  MaxText = 7
  MaxErrors = 1
INVARIANTS
  ScannerTypeOK
  LinesTrue
  OffsetsTrue
  PlacesGrow
CHECK_DEADLOCK FALSE
