CONSTANTS
  Inputs <- StoredDays
  FirstYear = 2023
  LastYear = 2028
SPECIFICATION Spec
INVARIANTS TypeOK TodayWhenItFalls
PROPERTIES StableUntilPassed OncePerYear
CHECK_DEADLOCK FALSE
