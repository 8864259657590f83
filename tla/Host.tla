--------------------------------- MODULE Host ---------------------------------
(***************************************************************************)
(* The components of a farm that share no variable, in one run: a          *)
(* behaviour is one of one component, the part, and what the part has no   *)
(* use for stays 0.  The parts there are proofs about have parameters; of  *)
(* the others each is an instance of one small size.                       *)
(***************************************************************************)
EXTENDS RigParts, ServiceParts

VARIABLE part

-----------------------------------------------------------------------------
(* The components nothing is proved about, of one small size.              *)

Registry == INSTANCE BoardRegistry WITH
  Devices <- 1 .. 3, Ports <- {"p", "q"}, GivenNames <- {<<"x-1">>}, Wired <- {<<"x-2">>},
  FamilyOf <- <<"x", "x", "y">>, Suggested <- <<<<"x-1">>, <<"x-2">>, <<"y-3">>>>,
  Instruments <- {3}, None <- Nobody,
  ByPort <- {[id |-> <<"old">>, mac |-> Nobody, port |-> "p", family |-> "y"]},
  port <- v1, registry <- v2, op <- v3, found <- v4, map <- v5, snapshot <- v6, torn <- v7

Wiring == INSTANCE InstrumentRegistry WITH
  Callers <- {1, 2}, BoardIds <- {"a", "i"}, InstrumentIds <- {"i", "j"}, Macs <- {1, 2},
  SelfNames <- <<{"a"}, {"i"}>>, MaxCalls <- 2,
  Asked <- {<<"add", "a", 1>>, <<"add", "i", 2>>, <<"remove", "a", 0>>, <<"register", "a", 2>>,
            <<"register", "i", 1>>, <<"unregister", "a", 0>>, <<"discover", 0, 0>>,
            <<"instrument", "j", 2>>, <<"replace", "i", 1>>, <<"drop", "j", 0>>,
            <<"wire", "j", <<1, "a", 1>>>>, <<"unwire", "j", 1>>},
  boards <- v1, instruments <- v2, rig <- v3, call <- v4, begun <- v5, said <- v6, spoilt <- v7

Link == INSTANCE SerialLink WITH
  Commands <- 1 .. 2, Repeatable <- {2}, MaxFrames <- 3, MaxOpens <- 2,
  inbox <- v1, wrote <- v2, owed <- v3, wire <- v4, partial <- v5, carry <- v6,
  events <- v7, pending <- v8, current <- v9, sender <- v10, answer <- v11, ran <- v12,
  heard <- v13, spoilt <- v14, since <- v15, opened <- v16

Lines == INSTANCE Console WITH
  Pages <- {"a"}, Rigs <- {"r", "q"}, Everyone <- "all", Keep <- 2, PruneEvery <- 2, Limit <- 2,
  MaxLines <- 5,
  rigOf <- v1, lines <- v2, oldest <- v3, ask <- v4, cursor <- v5, since <- v6, shown <- v7,
  missed <- v8, slipped <- v9

Hooks == INSTANCE Webhooks WITH
  Subs <- {"s", "t"}, Scopes <- {"r"}, Rigs <- {"r", "q"}, Deliveries <- {1, 2},
  Retries <- {1, 2}, Kept <- 2,
  sub <- v1, log <- v2, delivery <- v3, arrived <- v4, answered <- v5, cut <- v6, removed <- v7

Archive == INSTANCE Backup WITH
  Bundles <- {1}, Keep <- 1, MaxWrites <- 2, MaxTime <- 2,
  up <- v1, db <- v2, disk <- v3, now <- v4, step <- v5, work <- v6, archives <- v7,
  restore <- v8

-----------------------------------------------------------------------------
\* What a part of n variables has no use for.
Blank(n) ==
  /\ IF n < 6 THEN v6 = 0 ELSE TRUE
  /\ IF n < 7 THEN v7 = 0 ELSE TRUE
  /\ IF n < 8 THEN v8 = 0 ELSE TRUE
  /\ IF n < 9 THEN v9 = 0 ELSE TRUE
  /\ IF n < 10 THEN v10 = 0 ELSE TRUE
  /\ IF n < 11 THEN v11 = 0 ELSE TRUE
  /\ IF n < 12 THEN v12 = 0 ELSE TRUE
  /\ IF n < 13 THEN v13 = 0 ELSE TRUE
  /\ IF n < 14 THEN v14 = 0 ELSE TRUE
  /\ IF n < 15 THEN v15 = 0 ELSE TRUE
  /\ IF n < 16 THEN v16 = 0 ELSE TRUE

Init ==
  \/ part = "grants" /\ Portal!Init /\ Blank(5)
  \/ part = "bundles" /\ Store!Init /\ Blank(16)
  \/ part = "sweep" /\ Sweep!Init /\ Blank(9)
  \/ part = "figures" /\ Figures!Init /\ Blank(8)
  \/ part = "backup" /\ Archive!Init /\ Blank(8)
  \/ part = "keys" /\ KeyOwners!Init /\ Blank(10)
  \/ part = "commands" /\ Control!Init /\ Blank(11)
  \/ part = "stages" /\ Stages!Init /\ Blank(10)
  \/ part = "registry" /\ Registry!Init /\ Blank(7)
  \/ part = "link" /\ Link!Init /\ Blank(16)
  \/ part = "history" /\ History!Init /\ Blank(16)
  \/ part = "requests" /\ Api!Init /\ Blank(10)
  \/ part = "people" /\ Door!Init /\ Blank(12)
  \/ part = "session" /\ Session!Init /\ Blank(16)
  \/ part = "settings" /\ Settings!Init /\ Blank(15)
  \/ part = "health" /\ Reporter!Init /\ Blank(9)
  \/ part = "projects" /\ Catalogue!Init /\ Blank(12)
  \/ part = "console" /\ Lines!Init /\ Blank(9)
  \/ part = "deliveries" /\ Hooks!Init /\ Blank(7)
  \/ part = "budget" /\ Allowance!Init /\ Blank(9)
  \/ part = "upgrade" /\ Upgrade!Init /\ Blank(13)
  \/ part = "wiring" /\ Wiring!Init /\ Blank(7)

PortalNext ==
  /\ part = "grants" /\ Portal!Next
  /\ UNCHANGED <<part, v6, v7, v8, v9, v10, v11, v12, v13, v14, v15, v16>>
StoreNext ==
  /\ part = "bundles" /\ Store!Next
  /\ UNCHANGED <<part>>
SweepNext ==
  /\ part = "sweep" /\ Sweep!Next
  /\ UNCHANGED <<part, v10, v11, v12, v13, v14, v15, v16>>
FiguresNext ==
  /\ part = "figures" /\ Figures!Next
  /\ UNCHANGED <<part, v9, v10, v11, v12, v13, v14, v15, v16>>
ArchiveNext ==
  /\ part = "backup" /\ Archive!Next
  /\ UNCHANGED <<part, v9, v10, v11, v12, v13, v14, v15, v16>>
KeysNext ==
  /\ part = "keys" /\ KeyOwners!Next
  /\ UNCHANGED <<part, v11, v12, v13, v14, v15, v16>>
ControlNext ==
  /\ part = "commands" /\ Control!Next
  /\ UNCHANGED <<part, v12, v13, v14, v15, v16>>
StagesNext ==
  /\ part = "stages" /\ Stages!Next
  /\ UNCHANGED <<part, v11, v12, v13, v14, v15, v16>>
RegistryNext ==
  /\ part = "registry" /\ Registry!Next
  /\ UNCHANGED <<part, v8, v9, v10, v11, v12, v13, v14, v15, v16>>
LinkNext ==
  /\ part = "link" /\ Link!Next
  /\ UNCHANGED <<part>>
HistoryNext ==
  /\ part = "history" /\ History!Next
  /\ UNCHANGED <<part>>
ApiNext ==
  /\ part = "requests" /\ Api!Next
  /\ UNCHANGED <<part, v11, v12, v13, v14, v15, v16>>
DoorNext ==
  /\ part = "people" /\ Door!Next
  /\ UNCHANGED <<part, v13, v14, v15, v16>>
SessionNext ==
  /\ part = "session" /\ Session!Next
  /\ UNCHANGED <<part>>
SettingsNext ==
  /\ part = "settings" /\ Settings!Next
  /\ UNCHANGED <<part, v16>>
ReporterNext ==
  /\ part = "health" /\ Reporter!Next
  /\ UNCHANGED <<part, v10, v11, v12, v13, v14, v15, v16>>
CatalogueNext ==
  /\ part = "projects" /\ Catalogue!Next
  /\ UNCHANGED <<part, v13, v14, v15, v16>>
LinesNext ==
  /\ part = "console" /\ Lines!Next
  /\ UNCHANGED <<part, v10, v11, v12, v13, v14, v15, v16>>
HooksNext ==
  /\ part = "deliveries" /\ Hooks!Next
  /\ UNCHANGED <<part, v8, v9, v10, v11, v12, v13, v14, v15, v16>>
AllowanceNext ==
  /\ part = "budget" /\ Allowance!Next
  /\ UNCHANGED <<part, v10, v11, v12, v13, v14, v15, v16>>
UpgradeNext ==
  /\ part = "upgrade" /\ Upgrade!Next
  /\ UNCHANGED <<part, v14, v15, v16>>
WiringNext ==
  /\ part = "wiring" /\ Wiring!Next
  /\ UNCHANGED <<part, v8, v9, v10, v11, v12, v13, v14, v15, v16>>

Next ==
  \/ PortalNext
  \/ StoreNext
  \/ SweepNext
  \/ FiguresNext
  \/ ArchiveNext
  \/ KeysNext
  \/ ControlNext
  \/ StagesNext
  \/ RegistryNext
  \/ LinkNext
  \/ HistoryNext
  \/ ApiNext
  \/ DoorNext
  \/ SessionNext
  \/ SettingsNext
  \/ ReporterNext
  \/ CatalogueNext
  \/ LinesNext
  \/ HooksNext
  \/ AllowanceNext
  \/ UpgradeNext
  \/ WiringNext

values ==
  <<part,
    v1, v2, v3, v4, v5, v6, v7, v8, v9, v10, v11, v12, v13, v14, v15, v16>>
Spec == Init /\ [][Next]_values

-----------------------------------------------------------------------------

\* A worker with a limit of its own never has more runs than that, and no two runs of a
\* portal's workers share a board or a resource (Dispatcher).
WithinLimit == part = "grants" => Portal!TypeOK /\ Portal!NothingShared /\ Portal!WithinLimit

\* The bundle a run flashes stays in its place until it has done so; no run's artifacts entry,
\* nor its choice, is of a bundle that is gone (ArtifactStore).
BundlesAreKept ==
  /\ [][part = "bundles" => Store!FlashingKeepsItsBundle]_values
  /\ [](part = "bundles" => Store!TypeOK /\ Store!NothingPointsNowhere)

\* The sweep takes nothing of a run that waits or works (Retention).
SweepSparesTheLiving == [][part = "sweep" => Sweep!SweepSparesTheLiving]_values

\* Storage figures that count as fresh count nothing that is gone (StorageFigures).
FreshCountsNoGhosts == part = "figures" => Figures!TypeOK /\ Figures!FreshCountsNoGhosts

\* A restore brings back every bundle its store says is pinned, whole (Backup).
RestoredWhole == [][part = "backup" => Archive!RestoredWhole]_values

\* A name is either one person's key or one account's (KeyNames).
OneOwnerPerName == part = "keys" => KeyOwners!TypeOK /\ KeyOwners!OneOwnerPerName

\* A command is carried out once at most, and is said to be done if it was (NodeControl).
CarriedOutOnce == part = "commands" => Control!TypeOK /\ Control!CarriedOutOnce

\* A run that passed tested its own revision on every board; one that ended shows where,
\* and leaves no stage under way (RunStages).
VerdictsAreShown ==
  part = "stages" => Stages!TypeOK /\ Stages!PassedMeansShown /\ Stages!EndsAreTold

\* The page and the runs' map agree on the boards that are there (BoardRegistry), and the
\* registries of boards and of instruments go together (InstrumentRegistry).
PageAddsUp ==
  /\ part = "registry" => Registry!TypeOK /\ Registry!PageAddsUp
  /\ part = "wiring" => Wiring!TypeOK /\ Wiring!RegistriesAgree

\* What the board wrote reaches the test once and in order, and a command is run once and
\* answered by its own reply (SerialLink).
LinkTellsTrue ==
  part = "link" => Link!TypeOK /\ Link!FramesArrive /\ Link!RunOnceAnsweredOwn

\* A run a rig brought to its portal is there with all it had (HistoryExport).
BroughtWhole == part = "history" => History!TypeOK /\ History!BroughtWhole

\* What was changed had a key that may, and is in the audit as it was answered (Requests).
ChangesAnswered == part = "requests" => Api!TypeOK /\ Api!ChangesAnswered

\* A secret lets somebody in once, guesses are counted, and a merge strands nobody (Accounts).
PeopleAreKept ==
  part = "people" => Door!TypeOK /\ Door!UsedOnce /\ Door!CapHolds /\ Door!NobodyStranded

\* The records tell how the session went, and it lets the instruments go (TestSession).
SessionIsTold ==
  part = "session" => Session!TypeOK /\ Session!SessionIsTold /\ Session!InstrumentsLetGo

\* What is acknowledged of a host's configuration is in force (HostConfig).
SettledIsWhole == part = "settings" => Settings!TypeOK /\ Settings!SettledIsWhole

\* Whoever is to be told of the host's health is told of every change, and a supply is judged
\* by what it did since (HostHealth).
HostIsTold ==
  part = "health" => Reporter!TypeOK /\ Reporter!TransitionsTold /\ Reporter!SupplyJudged

\* What was answered of a project is what the next start finds, and what the rig runs is what
\* its files say (Projects).
ProjectsAreKept ==
  part = "projects" =>
    Catalogue!TypeOK /\ Catalogue!AnswersAreKept /\ Catalogue!RunsWhatIsWritten

\* A page is shown every line or told that it missed some (Console), the log of a subscription
\* tells how its deliveries went (Webhooks), and no day has more messages than it may
\* (MessageBudget).
NoticesAddUp ==
  /\ part = "console" => Lines!TypeOK /\ Lines!NothingUntold
  /\ part = "deliveries" => Hooks!TypeOK /\ Hooks!LogTells
  /\ part = "budget" => Allowance!TypeOK /\ Allowance!BudgetHolds

\* An upgrade that says it is done leaves the host whole, of its release (HostUpgrade).
UpgradeWhole == part = "upgrade" => Upgrade!TypeOK /\ Upgrade!UpgradedWhole
=============================================================================
