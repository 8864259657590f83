SPECIFICATION NodeSpec
CONSTANTS
  Releases = {1, 2}
  MaxDeaths = 1
PROPERTIES InstallIsTold
CHECK_DEADLOCK FALSE
