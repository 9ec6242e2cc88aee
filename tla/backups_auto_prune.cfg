CONSTANTS
  DayLen = 2
  AutoTime = 0
  ReadsOld <- BeforeEvening
  Retention = 1
  ToolRetention = 1
  Horizon = 4
  MaxSnapshots = 1
SPECIFICATION Spec
PROPERTY AutoPrunesOnlyOld
CHECK_DEADLOCK FALSE
