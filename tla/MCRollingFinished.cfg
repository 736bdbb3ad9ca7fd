SPECIFICATION Spec
CONSTANTS
  Jobs = {j1, j2}
  Old = old
  Plans = {"checked"}
  Retries = 1
  Faults = {"crash"}
INVARIANT FinishedStays
CHECK_DEADLOCK FALSE
