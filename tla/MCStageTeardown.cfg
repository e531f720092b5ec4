SPECIFICATION FairSpec
CONSTANTS
  setup = setup
  x = x
  y = y
  z = z
  teardown = teardown
  Jobs <- PairJobs
  Setup = setup
  Next_ <- PairNext
  Teardown = teardown
  VirtualTeardown = TRUE
  NoOne = NoOne
CHECK_DEADLOCK FALSE
INVARIANT AfterSuccess
PROPERTY TeardownRuns
