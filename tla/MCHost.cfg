SPECIFICATION Spec
CONSTANTS
  Nobody = Nobody
  Things = {1, 2, 3}
  Removers = {1, 2}
  Names = {"a", "b"}
  NameCalls = {1, 2, 3, 4, 5}
  KindOf <- FiveKinds
  NameOf <- FiveNames
  PortalCommands = {"d", "k", "r"}
  ByScript = {"k", "r"}
  Restarting = {"r"}
  Numbers = {1, 2}
  KeptRun = 1
  MaxCuts = 1
  Bundles <- ThreeBundles
  Jobs <- TwoJobs
  Sent = {"b2", "b3"}
  Content <- TwoContents
  Named <- NoneNamed
  FitFor <- AllFit
  BuiltHere <- OneBuiltHere
  NoBundle = "no bundle"
  RunBoards = {1, 2}
  Revisions = {"r1", "r2"}
  MaxRuns = 2
  Ran = {1, 2}
  Builds = {"b"}
  LinkOf <- OneBuilt
  Leased = {2}
  MaxExports = 2
  Callers = {1, 2}
  Keys = {"k"}
  Sessions = {"c"}
  RoleOf <- UserRole
  Tried = {"hello", "notify_delete"}
  FailureLimit = 1
  MaxWrites = 1
  Visitors = {1, 2}
  MaxVisits = 4
  Emails = {"e"}
  Browsers = {"b", "x"}
  States = {"s"}
  People <- TwoOfOne
  EmailOf <- OneAddress
  Owned = {"rig"}
  Joining = {"r"}
  MaxGuesses = 2
  Admins = {1, 2}
  MaxCommands = 2
  ChannelIds = {1, 2}
  SealedOnes = {2}
  Editors = {1, 2}
  ProjectNames = {"health", "s", "o"}
  ShippedOnes = {"health", "s"}
  HealthCheck = "health"
  AskedOnes = {"s", "o"}
  MaxChanges = 2
  MaxEdits = 1
  Turned = {"runner", "gateway", "channel", "service", "public", "provider", "backup", "power"}
  Faults = {"disk full", "boards away", "hot", "no AP", "no route", "backup old"}
  Channels = {1}
  Persists = 2
  MaxTime = 3
  MaxChecks = 3
  Takers = {"run", "check"}
  Operators = {"check"}
  Days = {1, 2}
  MaxPerDay = 2
  MaxTakes = 6
  Offered = {1, 2}
  BuiltWith <- TwoFirmwares
  Stagers = {1}
  MaxUpgrades = 3
  Tested = {"a"}
  WiredUp = {"i", "j"}
  TestCount = 2
  ProvesWhat <- TwoProofs
  MaxBreaks = 1
  PortalJobs <- FiveRuns
  PortalDemands <- FiveDemands
  PortalBank <- FourBoards
  PortalLimit = 2
  PortalWorkers <- TwoWorkers
  PortalLimits <- OneAndTwo
  PortalProfiles <- OneHasBoth
  PortalHoldable = {}
  PortalPluggable = {}
  PortalPromotable = {"bank"}
INVARIANTS
  WithinLimit FreshCountsNoGhosts OneOwnerPerName CarriedOutOnce VerdictsAreShown PageAddsUp LinkTellsTrue BroughtWhole ChangesAnswered PeopleAreKept SessionIsTold SettledIsWhole HostIsTold ProjectsAreKept NoticesAddUp UpgradeWhole
PROPERTIES BundlesAreKept SweepSparesTheLiving RestoredWhole
CHECK_DEADLOCK FALSE
