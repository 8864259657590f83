SPECIFICATION NodeSpec
CONSTANTS
  Releases = {1, 2}
  MaxDeaths = 1
INVARIANTS OnlyWhatWasAsked
PROPERTIES NodeGoesOn
CHECK_DEADLOCK FALSE
