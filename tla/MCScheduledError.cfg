SPECIFICATION Spec
CONSTANTS
  m1 = m1
  m2 = m2
  NoOne = NoOne
  Managers = {m1, m2}
  Order <- ThreeItems
  Kind <- KindOf
  Period <- PeriodOf
  Punctual = TRUE
  MaxTime = 4
  MaxFaults = 0
INVARIANT HandleSurvives
CHECK_DEADLOCK FALSE
