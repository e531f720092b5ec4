SPECIFICATION Spec
CONSTANTS
  setup = setup
  x = x
  y = y
  z = z
  teardown = teardown
  Jobs <- ForkJobs
  Setup = setup
  Next_ <- ForkNext
  Teardown = teardown
  VirtualTeardown = FALSE
  NoOne = NoOne
CHECK_DEADLOCK FALSE
INVARIANT TeardownLast
