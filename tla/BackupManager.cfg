\* Two files, so that a copy can be torn; two seconds, so that paths may collide or not.
CONSTANTS
  Files = {level, players}
  MaxClock = 1
  MaxVersion = 1
  MaxBackups = 2
SPECIFICATION FairSpec
INVARIANTS
  RecordedIsFaithful
PROPERTY
  StopReturns
CHECK_DEADLOCK FALSE
