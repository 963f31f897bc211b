CONSTANTS
  Procs = {p1, p2}
  Versions <- MCVersions
  Pieces <- MCPieces
  MaxPieces = 2
  MaxOps = 5
SPECIFICATION Spec
CHECK_DEADLOCK FALSE
INVARIANT DirectoryNeverMixes
PROPERTY KeepsPromise
PROPERTY AnswersComeFromHandle
PROPERTY SaveDirOkStores
