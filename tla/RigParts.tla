------------------------------- MODULE RigParts -------------------------------
(***************************************************************************)
(* Components a run meets on its rig, each an instance over the variables  *)
(* of HostState, and with parameters, for RigProofs: the grants of a       *)
(* portal, its bundles and what the sweep and the figures make of the      *)
(* disk, the projects it may be of, its stages, the session of its tests   *)
(* and the history it leaves.                                              *)
(***************************************************************************)
EXTENDS HostState, Integers, Sequences, FiniteSets

CONSTANTS
  PortalJobs, PortalDemands, PortalBank, PortalLimit, PortalWorkers, \* Dispatcher, as a portal has it
  PortalLimits, PortalProfiles, PortalHoldable, PortalPluggable, PortalPromotable,
  Things, Removers,                                                  \* StorageFigures
  Numbers, KeptRun, MaxCuts,                                         \* Retention
  Editors, ProjectNames, ShippedOnes, HealthCheck, AskedOnes,        \* Projects
  MaxChanges, MaxEdits,
  Bundles, Jobs, Sent, Content, Named, FitFor, BuiltHere, NoBundle,  \* ArtifactStore
  RunBoards, Revisions, MaxRuns,                                     \* RunStages
  Ran, Builds, LinkOf, Leased, MaxExports,                           \* HistoryExport
  Tested, WiredUp, TestCount, ProvesWhat, MaxBreaks                  \* TestSession

ASSUME PortalAssumption ==
  /\ \A j \in PortalJobs :
       LET d == PortalDemands[j] IN
       /\ d.job = j /\ d.whole \in BOOLEAN /\ d.resources \subseteq {"gateway", "mqtt"}
       /\ d.needs \in Seq({d.needs[i] : i \in DOMAIN d.needs})
       /\ \A i \in DOMAIN d.needs : d.needs[i].count \in Nat
  /\ PortalBank \in Seq({PortalBank[i] : i \in DOMAIN PortalBank})
  /\ PortalWorkers \in Seq({PortalWorkers[i] : i \in DOMAIN PortalWorkers})
  /\ PortalLimit \in Int /\ \A i \in DOMAIN PortalWorkers : PortalLimits[PortalWorkers[i]] \in Int
  /\ PortalPromotable \subseteq PortalJobs
  /\ PortalHoldable \cup PortalPluggable \subseteq {PortalBank[i].id : i \in DOMAIN PortalBank}
ASSUME RetentionAssumption == MaxCuts \in Nat
ASSUME ProjectsAssumption ==
  /\ ShippedOnes \subseteq ProjectNames /\ HealthCheck \in ShippedOnes
  /\ AskedOnes \subseteq ProjectNames /\ MaxChanges \in Nat
ASSUME RunStagesAssumption == MaxRuns \in Nat
ASSUME ArtifactStoreAssumption ==
  /\ {"free", "store"} \cap Jobs = {} /\ NoBundle \notin Bundles /\ Sent \subseteq Bundles
  /\ Named \in [Jobs -> Bundles \cup {NoBundle}] /\ FitFor \in [Jobs -> SUBSET Bundles]
  /\ BuiltHere \in [Jobs -> (Bundles \ Sent) \cup {NoBundle}]
ASSUME HistoryExportAssumption == Leased \subseteq Ran /\ Nobody \notin Ran
ASSUME TestSessionAssumption == IsFiniteSet(WiredUp) /\ TestCount \in Nat \ {0}

Portal == INSTANCE Dispatcher WITH
  Jobs <- PortalJobs, DemandOf <- PortalDemands, Bank <- PortalBank, Limit <- PortalLimit,
  Workers <- PortalWorkers, Limits <- PortalLimits, Profiles <- PortalProfiles,
  Holdable <- PortalHoldable, Pluggable <- PortalPluggable, Promotable <- PortalPromotable,
  queue <- v1, grants <- v2, holds <- v3, connected <- v4, paused <- v5

Store == INSTANCE ArtifactStore WITH
  Bundles <- Bundles, Jobs <- Jobs, Sent <- Sent, Content <- Content, Names <- Named,
  Fits <- FitFor, BuiltHere <- BuiltHere, NoBundle <- NoBundle,
  disk <- v1, link <- v2, pinned <- v3, told <- v4, row <- v5, pick <- v6, artlock <- v7,
  up <- v8, rpc <- v9, todo <- v10, cur <- v11, links <- v12, dangling <- v13,
  taken <- v14, dpc <- v15, lost <- v16

Sweep == INSTANCE Retention WITH
  Runs <- Numbers, Newest <- KeptRun, MaxCuts <- MaxCuts,
  job <- v1, aged <- v2, files <- v3, noted <- v4, spc <- v5, plan <- v6, at <- v7,
  erasing <- v8, cuts <- v9

Figures == INSTANCE StorageFigures WITH
  Items <- Things, Removers <- Removers,
  there <- v1, removing <- v2, generation <- v3, measuring <- v4, walk <- v5,
  measured <- v6, fresh <- v7, hushed <- v8

Catalogue == INSTANCE Projects WITH
  Callers <- Editors, Names <- ProjectNames, Shipped <- ShippedOnes, Canary <- HealthCheck,
  Asked <- AskedOnes, MaxCalls <- MaxChanges, MaxEdits <- MaxEdits,
  docs <- v1, stones <- v2, profiles <- v3, hidden <- v4, over <- v5, up <- v6, call <- v7,
  begun <- v8, edits <- v9, said <- v10, doubt <- v11, apart <- v12

Stages == INSTANCE RunStages WITH
  Boards <- RunBoards, Revisions <- Revisions, MaxRuns <- MaxRuns,
  runs <- v1, request <- v2, at <- v3, stages <- v4, image <- v5, cancel <- v6,
  failure <- v7, verdict <- v8, stopped <- v9, tested <- v10

History == INSTANCE HistoryExport WITH
  Jobs <- Ran, Bundles <- Builds, LinkOf <- LinkOf, Leased <- Leased, MaxExports <- MaxExports,
  None <- Nobody,
  runs <- v1, files <- v2, bundles <- v3, pjobs <- v4, pfiles <- v5, pbundles <- v6,
  at <- v7, list <- v8, left <- v9, brought <- v10, hand <- v11, failed <- v12,
  absent <- v13, bare <- v14, said <- v15, exports <- v16

Session == INSTANCE TestSession WITH
  Boards <- Tested, Instruments <- WiredUp, Tests <- TestCount, Proves <- ProvesWhat,
  MaxFaults <- MaxBreaks,
  device <- v1, faults <- v2, image <- v3, phase <- v4, todo <- v5, wedged <- v6, bank <- v7,
  instruments <- v8, driven <- v9, test <- v10, when <- v11, passed <- v12, records <- v13,
  exit <- v14, went <- v15, unplugged <- v16
=============================================================================
