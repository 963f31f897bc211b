SPECIFICATION Spec
CONSTANTS
  Scalars = {x, y}
  Counts = {2}
  MaxCalls = 7
INVARIANTS BuiltAsRead
