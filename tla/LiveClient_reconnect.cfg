SPECIFICATION FairSpec
CONSTANTS
  LastSocket = 2  MaxCommands = 1  MaxSent = 1  LastSurrender = 0  NoSocket = NoSocket
 
PROPERTIES EndedStaysEnded 
CHECK_DEADLOCK FALSE
