SPECIFICATION Spec
CONSTANTS
  Procs = {p, q}
  Urls <- MCUrls
  Alias = "current"
  Moving <- MCMoving
  ReleaseAt <- MCReleaseAt
  NameOf <- MCNameOf
  Configs <- MCConfigs
  MaxVersion = 1
  MaxFaults = 1
SYMMETRY Symmetry
INVARIANTS
  OnlyWholePayloads
  ReviewedCallsHonoured
