SPECIFICATION FairSpec
CONSTANTS
  Jobs <- MCJobs
  DemandOf <- MCDemands
  Bank <- MCBank
  Limit = 2
  Workers <- NoWorkers
  Limits <- NoSettings
  Profiles <- NoSettings
  Holdable <- OneHoldable
  Pluggable <- OnePluggable
  Promotable <- OnePromotable
PROPERTIES GrantsHold QueueIsServed
