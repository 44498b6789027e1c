SPECIFICATION FairSpec
CONSTANTS
  Jobs <- MCJobs
  MaxTries = 2
  MaxLabels = 2
  MaxUnwiped = 0
  MaxMeddling = 2
  MaxRuns = 2
CHECK_DEADLOCK FALSE
INVARIANTS
  HeldFilesystemsSurvive
  PassphrasesFirst
  FinishedStick
  NothingLeftBehind
PROPERTY UnattendedEnds
