SPECIFICATION DriverSpec
CONSTANT MaxErrors = 2
INVARIANT ExitStatusReported
