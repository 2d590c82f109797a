SPECIFICATION Spec
CONSTANTS
  Workers <- ManyDisks
  Cases <- AllCases
INVARIANTS
  ZeroMeansNoWarning
CHECK_DEADLOCK FALSE
