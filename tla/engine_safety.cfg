CONSTANTS
  u1 = u1
  e1 = e1
  None = None
  Global = Global
  Users = {u1}
  Events = {e1}
  Rules = {1, 2}
  Tracks = {"primary"}
  Dates = {0, 1}
  Owner <- OneOwner
  RuleUser <- OneUser
  RuleScope <- OneScope
  MinuteRules = {}
  RuleOffset <- OneOffset
  RuleAt <- Midnight
  Timed = {}
  Tz <- Utc
  NextOcc <- MCNextOcc
  StartDates <- OneStart
  StartOff = {}
  Kinds = {"date", "trash", "rule"}
  Period = 2
  DayLen = 2
  Grace = 1
  Upcoming = 3
  LastDay = 4
  Horizon = 3
  MaxFaults = 1
  MaxEdits = 1
SPECIFICATION Spec
INVARIANTS TypeOK AtMostOncePerOutcome OccurrenceFitsDate
PROPERTIES KeepsLedger FinishedRowsStay SendsAreDueAndPending QuietStaysQuiet NothingDroppedByAdvance
