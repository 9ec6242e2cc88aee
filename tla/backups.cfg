CONSTANTS
  DayLen = 2
  AutoTime = 0
  ReadsOld <- BeforeEvening
  Retention = 1
  ToolRetention = 1
  Horizon = 5
  MaxSnapshots = 3
SPECIFICATION Spec
INVARIANTS TypeOK AppliesOverBackup
PROPERTIES NightlyKeptForWindow NewestByHandKept
CHECK_DEADLOCK FALSE
