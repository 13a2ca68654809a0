SPECIFICATION Spec
CONSTANTS
  LastSocket = 1  MaxCommands = 1  MaxSent = 1  LastSurrender = 0  NoSocket = NoSocket
PROPERTY CancelledIsHeard
CHECK_DEADLOCK FALSE
