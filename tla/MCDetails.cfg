SPECIFICATION Spec
CONSTANTS
  A = A
  B = B
  None = None
  Images <- OneImage
  Numbers <- TwoNumbers
  Folders <- NoFolder
  Operations <- Mix
  MaxAdapters = 1
  MaxTasks = 2
  MaxRuns = 1
INVARIANTS
  AnalysisStaysWithItsPartition
PROPERTIES
  DetailsShownAreTheRows
  BusyEnds
