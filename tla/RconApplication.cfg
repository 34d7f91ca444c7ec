\* Commands as the interface issues them.
CONSTANTS
  Commands = {c1, c2, c3}
  NoCommand = NoCommand
  MaxConnects = 2
SPECIFICATION AppSpec
PROPERTY
  CommandsAreAttempted
CHECK_DEADLOCK FALSE
