SPECIFICATION FairSpec
CONSTANTS
  Locals <- MCLocals
  Terms <- AllTerms
  Bodies <- AllBodies
  Universe <- AllUniverse
  Outer <- MCOuter
INVARIANTS OrderedBeforeUse NoneSkipped SolutionsPreserved CaptureNeverAssigned BoundOnce
PROPERTY Terminates
