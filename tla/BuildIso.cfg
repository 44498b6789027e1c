\* Two Build ISO runs, the second over what the first left.
SPECIFICATION Spec
CONSTANTS
    Catalog <- MCCatalog
    Requirements <- MCRequirements
    Showsrc <- MCShowsrc
    Upstream <- MCUpstream
    Overlays <- MCOverlays
    Candidates <- MCCandidates
    Provides <- MCProvides
    Host <- MCHost
    Index <- MCIndex
    Plans <- MCPlans
INVARIANTS
    PublishedImageChecked
    PlanHonoured
    KernelHonoured
    ExportMatchesMedia
    OfferedModulesFound
CHECK_DEADLOCK FALSE
