SPECIFICATION Spec
CONSTANTS
  A = A
  B = B
  None = None
  Images <- OneImage
  Numbers <- OneNumber
  Folders <- OneFolder
  Operations <- Everything
  MaxAdapters = 1
  MaxTasks = 2
  MaxRuns = 1
INVARIANTS
  TypeOK
  StopButtonLive
PROPERTIES
  TimelineFollows
