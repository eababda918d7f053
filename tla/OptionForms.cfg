CONSTANTS
  MaxClicks = 4
  MaxFaults = 1
SPECIFICATION Spec
INVARIANTS TypeOK BaselineTrue SavedIsShown
PROPERTIES ListEditsSurvive
CHECK_DEADLOCK FALSE
