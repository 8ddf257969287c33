SPECIFICATION FairSpec
CONSTANTS
  Lines <- MCLines
  Faults <- MCFaults
  MaxKeys = 3
  TickModulus = 2
INVARIANTS
  TypeOK
  IrqsHandled
  ServiceMatches
PROPERTIES
  KeysRead
  TimerServed
