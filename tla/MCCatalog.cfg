SPECIFICATION Spec
CONSTANTS
  A = A
  B = B
  None = None
  Images <- TwoImages
  Numbers <- OneNumber
  Folders <- OneFolder
  Operations <- Keeping
  MaxAdapters = 2
  MaxTasks = 2
  MaxRuns = 1
INVARIANTS
  KeptUnderItsSource
