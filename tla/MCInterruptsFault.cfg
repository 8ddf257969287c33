SPECIFICATION Spec
CONSTANTS
  Lines <- MCLines
  Faults <- MCFaults
  MaxKeys = 1
  TickModulus = 2
INVARIANT
  FaultPanics
