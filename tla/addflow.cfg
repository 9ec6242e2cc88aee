CONSTANTS
  NoState = NoState
  Nothing = Nothing
  Updates = {u1, u2}
  DataKeys <- Keys
  Cap = 1
  MaxFlows = 2
  UnreadFrom = 2
  RaceUntil = 1
SPECIFICATION Spec
SYMMETRY Symmetry
INVARIANTS TypeOK SavedIsOnePerson LimitOvershoot
PROPERTY EndedSavesNothing
