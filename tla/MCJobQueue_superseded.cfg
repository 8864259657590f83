SPECIFICATION QueueSpec
CONSTANTS
  a = a
  b = b
  x = x
  y = y
  Jobs <- MCJobs
  Callers <- Two
  Submits <- TwoSubmit
  Stops <- TwoStop
  RefOf <- MCRef
  ShaOf <- MCSha
  NoSha = NoSha
  NoJob = NoJob
  Limit = 2
INVARIANTS SupersededByNewer
