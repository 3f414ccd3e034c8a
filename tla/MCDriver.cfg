SPECIFICATION DriverSpec
CONSTANT MaxErrors = 2
INVARIANTS
  DriverTypeOK
  ExitZeroCompiled
  RejectedIsEmpty
  FailureKeepsOil
