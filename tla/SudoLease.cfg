SPECIFICATION FairSpec
CONSTANTS
  Interval = 2
  Lag = 1
  Timeout = 5
  MaxPhases = 3
  MaxShocks = 1
INVARIANTS
  TypeOK
  OnePrompt
  CredentialKept
PROPERTIES
  LeaseEnds
