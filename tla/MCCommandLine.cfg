SPECIFICATION Spec
CONSTANTS
  Workers <- ManyDisks
  Cases <- AllCases
INVARIANTS
  ReportIsComplete
  FailedFoldersWarned
  ExitTellsTheFaults
  SegmentsAreTheSet
PROPERTIES
  CommandEnds
CHECK_DEADLOCK FALSE
