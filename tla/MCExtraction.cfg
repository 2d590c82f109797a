SPECIFICATION Spec
CONSTANTS
  Workers <- One
  Selections <- TreeOrChain
  Contents <- Evidence
  Clean <- HostName
  Modes <- AllModes
  Existing <- OldFiles
  MaxDepth = 2
  Chunk = 2
INVARIANTS
  TypeOK
  WorklistInOrder
  NothingLeftOut
  ResultsAreOnDisk
  AnswerIsWhole
PROPERTIES
  NothingOverwritten
  CancelledWritesNoMore
  RunEnds
CHECK_DEADLOCK FALSE
