SPECIFICATION Spec
CONSTANTS
  Jobs <- MCUpdates
  MaxTries = 1
  MaxLabels = 1
  MaxUnwiped = 0
  MaxMeddling = 0
  MaxRuns = 1
CHECK_DEADLOCK FALSE
INVARIANT UpdateKeepsPartitions
