CONSTANTS
  Updates = {g1, g2}
  NoState = NoState
  None = None
  category = category
  notes = notes
  Photo = Photo
  Settings <- Toggled
  Events = {1, 2}
  Pickers <- Picked
  Texts <- Typed
  Retention = 1
  LastDay = 2
  Keys <- People
  Refused <- Unfit
  Initial <- Known
  MaxEvents = 3
  RaceUntil = 1
  MaxTexts = 2
  FewEvents = {1}
  Tones = {1, 2}
  TemplateLimit = 1
  MaxTemplates = 3
  RuleIds = {1, 2, 3}
  RuleLimit = 1
  Window = 2
  LastMoment = 5
  ann = ann
  ben = ben
  odd = odd
  Files <- OddFirst
  Global = Global
  Users = {u1, u2}
  Signatures = {s1, s2}
SPECIFICATION ImportSpec
SYMMETRY Symmetry
INVARIANT BadRowsDoNotAbort
CHECK_DEADLOCK FALSE
