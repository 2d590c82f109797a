SPECIFICATION Spec
CONSTANTS
  A = A
  B = B
  None = None
  Images <- OneImage
  Numbers <- AfterMeta
  Folders <- OneFolder
  Operations <- Browsing
  MaxAdapters = 1
  MaxTasks = 1
  MaxRuns = 1
INVARIANTS
  ListsShownPartition
