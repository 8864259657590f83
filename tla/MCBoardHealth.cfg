SPECIFICATION Spec
CONSTANTS
  c6 = c6
  s3 = s3
  k1 = k1
  k2 = k2
  k3 = k3
  Boards <- MCBoards
  Runs <- MCRuns
  Enabled = TRUE
  AfterFailures = 2
SYMMETRY Interchangeable
INVARIANTS HoldsFollowVerdicts
PROPERTIES SeenReservationsKept FarmWidePauses
