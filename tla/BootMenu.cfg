CONSTANTS
  Files <- MCFiles
  Candidates <- MCCandidates
  Config <- MCConfig
  Plans <- MCPlans
  MediumInfo <- MCMediumInfo
  MenuSpec <- MCMenuSpec
  LegacyTitle <- MCLegacyTitle
SPECIFICATION Spec
INVARIANTS
  EntriesBootStagedFiles
  OneSourceEach
  PersistencePlaces
  MenuKeepsEveryEntry
