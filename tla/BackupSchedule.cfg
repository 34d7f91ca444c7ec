\* One backup is enough: the clean-up that follows it reads its row.
CONSTANTS
  Files = {level, players}
  MaxClock = 1
  MaxVersion = 1
  MaxBackups = 2
SPECIFICATION FairSpec
PROPERTY
  ScheduleGoesOn
CHECK_DEADLOCK FALSE
