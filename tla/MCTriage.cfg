SPECIFICATION Spec
CONSTANTS
  Worlds <- AllWorlds
  SelectFrom = 2
  MaxLoads = 2
  Alphabet <- Names
  RecordCap = 4
  RowLimit = 2
INVARIANTS
  AnalysisCoversTheScan
  PanelIsTheRows
  TimelineInOrder
  TroubleIsOnTheTimeline
  TimesComeFromTheFile
  ActiveSetIsRead
  DamageHidesOnlyItself
  RecentFirst
  ChainIsTheStream
  KeysAreTheirOwn
  ParsedIsWhole
