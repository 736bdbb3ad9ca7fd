SPECIFICATION FairSpec
CONSTANTS
  MaxFaults = 1
  MaxCommands = 2
  MaxHides = 0
  CanFreeze = FALSE
  MaxKills = 2
  MaxReconnectAttempts = 1
INVARIANT OnePty
INVARIANT ActiveIsAlive
INVARIANT ActiveIsShown
INVARIANT ClosedIsSwept
 
PROPERTY SessionsRemoved
PROPERTY CommandsAnswered
CHECK_DEADLOCK FALSE
