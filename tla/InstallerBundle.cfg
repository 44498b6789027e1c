SPECIFICATION Spec
CONSTANTS
  Inputs <- MCInputs
  Requests <- MCRequests
  MaxRuns = 2
  MaxChanges = 2
CHECK_DEADLOCK FALSE
INVARIANTS
  TypeOK
  AcceptedIsWhole
  FlavorsIsolated
  AbisAgree
