CONSTANTS
  ByteMax = 3
  SByteMax = 1
  MaxDepth = 3
  MaxElements = 6
  MaxStringBytes = 2
  MaxBundleSize = 2
  Payloads <- MCPayloads
  Programs <- MCPrograms
SPECIFICATION Spec
CHECK_DEADLOCK FALSE
INVARIANT ProgramKept
INVARIANT AcceptedIsInRange
INVARIANT OperandsUnpack
INVARIANT NamesFindTheirPlan
PROPERTY NeverRefusedLater
