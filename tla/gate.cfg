CONSTANTS
  Users = {u1}
  Updates = {g1, g2}
  Kinds = {"callback"}
  Rate <- Rates
  Minute = 2
  Silence = 1
  Grace = 1
  Idle = 2
  Debounce = 1
  Horizon = 6
  None = None
SPECIFICATION Spec
INVARIANTS WindowBound TapsApart
PROPERTIES ImplementsLimiter HeardAfterSilence
CHECK_DEADLOCK FALSE
SYMMETRY Symmetry
