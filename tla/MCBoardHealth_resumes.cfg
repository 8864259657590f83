SPECIFICATION FairSpec
CONSTANTS
  c6 = c6
  s3 = s3
  k1 = k1
  k2 = k2
  k3 = k3
  Boards <- OneBoard
  Runs <- TwoRuns
  Enabled = TRUE
  AfterFailures = 2
PROPERTIES FixedFarmResumes
