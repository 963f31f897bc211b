CONSTANTS
  Bundles <- AllBundles
  Inputs <- CoreInputs
  StmtLimit = 400
  MaxCallDepth = 4
  MaxBlockDepth = 14
  SizeMax = 7
  Merge <- MergeObjects
  KeyText <- MCKeyText
SPECIFICATION TraceSpec
INVARIANT TypeOK
INVARIANT CountersMatchStack
INVARIANT ErrorsRecorded
INVARIANT DocumentsRestored
INVARIANT AgreesWithReference
INVARIANT CompiledMeans
PROPERTY DocumentsKept
PROPERTY CallKeepsCallerLocals
PROPERTY CachedResultsFrozen
