SPECIFICATION Spec
CONSTANTS
  Documents <- MCDocuments
  Patches <- MCPatches
INVARIANTS TypeOK PatchIsSequential
