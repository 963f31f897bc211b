SPECIFICATION Spec
CONSTANTS
  WordBits = 8
  MaxText = 3
  MaxWhole = 12
  Calls <- MCCalls
INVARIANT RemainderIsExact
