SPECIFICATION Spec
CONSTANTS
  Worlds <- SharedWorlds
  SelectFrom = 2
  MaxLoads = 2
  Alphabet <- Names
  RecordCap = 4
  RowLimit = 2
INVARIANTS
  AnalysisIsComplete
