SPECIFICATION FairSpec
CONSTANTS
  m1 = m1
  m2 = m2
  NoOne = NoOne
  Managers = {m1, m2}
  Order <- ThreeItems
  Kind <- KindOf
  Period <- PeriodOf
  Punctual = TRUE
  MaxTime = 10
  MaxFaults = 2
INVARIANT TypeOK
 
 
 
 
PROPERTY StaleLockCleared
CHECK_DEADLOCK FALSE
