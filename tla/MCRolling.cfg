SPECIFICATION MCSpec
CONSTANTS
  Jobs = {j1, j2}
  Old = old
  Plans = {"checked", "unchecked", "ports"}
  Retries = 1
  Faults = {"command", "crash", "effects"}
SYMMETRY SymJobs
INVARIANT TypeOK
INVARIANT Served
INVARIANT OneVersion
INVARIANT HelperStopped
INVARIANT CurrentIsKept
PROPERTY FinishedIsUp
PROPERTY ImplementsRelease
CHECK_DEADLOCK FALSE
