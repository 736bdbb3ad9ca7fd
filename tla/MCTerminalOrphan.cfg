SPECIFICATION Spec
CONSTANTS
  MaxFaults = 0
  MaxCommands = 2
  MaxHides = 0
  CanFreeze = FALSE
  MaxKills = 2
  MaxReconnectAttempts = 1
PROPERTY SpawnedForOpenSession
CHECK_DEADLOCK FALSE
