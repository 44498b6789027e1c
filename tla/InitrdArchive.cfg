SPECIFICATION Spec
CONSTANTS
  Segments <- MCSegments
  Edits <- MCEdits
  MaxSegments = 4
  MaxRuns = 2
INVARIANTS
  EarlySegmentsKept
  BootSeesEdit
PROPERTY FailuresKeepArchive
