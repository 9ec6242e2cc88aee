CONSTANTS
  u1 = u1
  e1 = e1
  None = None
  Global = Global
  Users = {u1}
  Events = {e1}
  Rules = {1, 2}
  Tracks = {"primary", "secondary"}
  Dates = {0, 1}
  Owner <- OneOwner
  RuleUser <- OneUser
  RuleScope <- BothGlobal
  MinuteRules = {2}
  RuleOffset <- DayOf
  RuleAt <- Noon
  Timed = {e1}
  Tz <- East
  NextOcc <- MCNextOcc
  StartDates <- TwoTracks
  StartOff = {}
  Kinds = {"mute", "field", "user", "admin", "wipe"}
  Period = 2
  DayLen = 2
  Grace = 1
  Upcoming = 3
  LastDay = 4
  Horizon = 3
  MaxFaults = 1
  MaxEdits = 1
SPECIFICATION Spec
INVARIANTS OneMessagePerMinute HeldIsOpen
