CONSTANTS
  u1 = u1
  e1 = e1
  None = None
  Global = Global
  Users = {u1}
  Events = {e1}
  Rules = {1}
  Tracks = {"primary"}
  Dates = {0}
  Owner <- OneOwner
  RuleUser <- OneRule
  RuleScope <- OneGlobal
  MinuteRules = {}
  RuleOffset <- Zero
  RuleAt <- Zero
  Timed = {}
  Tz <- Utc
  NextOcc <- MCNextOcc
  StartDates <- OneStart
  StartOff = {}
  Kinds = {"rule", "date"}
  Period = 4
  DayLen = 1
  Grace = 1
  Upcoming = 0
  LastDay = 4
  Horizon = 3
  MaxFaults = 1
  MaxEdits = 1
SPECIFICATION FairSpec
PROPERTIES PendingIsResolved OccurrenceCatchesUp TickReturns
