CONSTANTS
  Bundles <- EdgeBundles
  Inputs <- CoreInputs
  StmtLimit = 14
  MaxCallDepth = 3
  MaxBlockDepth = 4
  SizeMax = 7
  Merge <- MergeObjects
  KeyText <- MCKeyText
SPECIFICATION FairTraceSpec
INVARIANT LimitsRespected
PROPERTY FrozenAtLimit
PROPERTY Terminates
