SPECIFICATION FairSpec
CONSTANTS
  Plans <- AllPlans
  Disks <- MCDisks
  NoDisk = NoDisk
  Identities <- MCIdentities
  NoIdentity = NoIdentity
  Ident <- MCIdent
  Eligible <- MCEligible
INVARIANTS
  TypeOK
  OnlyReviewedDisk
  PreparedAsReviewed
PROPERTIES
  ImplementsReviewedWrite
