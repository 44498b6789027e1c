SPECIFICATION RebuildSpec
CONSTANTS
  Jobs <- MCJobs
  Kernels <- MCKernels
  Initrds <- MCInitrds
  Abis <- MCAbis
INVARIANTS
  RebuiltEntriesBoot
  ScopeHonoured
  ImageDescribesItself
