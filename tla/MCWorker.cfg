SPECIFICATION Spec
CONSTANTS
  Kinds = {"ImageOpen", "PartitionScan", "DirectoryList", "ArtifactScan",
           "ArtifactDetail", "ArtifactAnalysis", "Extraction"}
  MaxArtifacts = 2
  Deliveries = {"direct", "queued"}
\* a finished worker is deleted and does nothing more
CHECK_DEADLOCK FALSE
INVARIANTS
  CompletesOnce
  DirectCancelStops
  QueuedCancelComesTooLate
  OutcomeIsTruthful
  BackendIsTruthful
PROPERTIES
  ThreadFinishes
