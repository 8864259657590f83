SPECIFICATION FairSpec
CONSTANTS
  Jobs = {1, 2}
  MaxRuns = 2
  MaxLeases = 2
  NoJob = NoJob
INVARIANTS HeldUntilReported TellsTheVerdict PlacesGivenBack
PROPERTIES NothingDropped EveryLeaseEnds
