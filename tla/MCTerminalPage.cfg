SPECIFICATION Spec
CONSTANTS
  MaxFaults = 2
  MaxCommands = 1
  MaxHides = 1
  CanFreeze = TRUE
  MaxKills = 1
  MaxReconnectAttempts = 2
INVARIANT TypeOK
INVARIANT OneSocket
INVARIANT ConnectedIffOpen
INVARIANT NeverStuck
INVARIANT BufferFlushed
CHECK_DEADLOCK FALSE
