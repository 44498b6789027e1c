SPECIFICATION FairSpec
CONSTANTS
  Jobs <- MCJobs
  Members <- MCMembers
  Versions <- MCVersions
INVARIANTS
  UnitsGuarded
  PublishedImageSound
  MountsKeepWorkspace
PROPERTIES
  ImplementsPublication
