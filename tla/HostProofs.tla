------------------------------- MODULE HostProofs -------------------------------
(***************************************************************************)
(* What the parts of a host keep, for every value of their parameters: of  *)
(* each part, from what RigProofs and ServiceProofs show of its steps.     *)
(***************************************************************************)
EXTENDS Host, RigProofs, ServiceProofs

(* A step of the host is one of the part that the behaviour is of.         *)
LEMMA PartStep ==
  ASSUME [Next]_values
  PROVE  /\ part' = part
         /\ part = "keys" => [KeyOwners!Next]_(KeyOwners!vars)
         /\ part = "commands" => [Control!Next]_(Control!vars)
         /\ part = "figures" => [Figures!Next]_(Figures!vars)
         /\ part = "sweep" => [Sweep!Next]_(Sweep!vars)
         /\ part = "stages" => [Stages!Next]_(Stages!vars)
         /\ part = "bundles" => [Store!Next]_(Store!vars)
         /\ part = "history" => [History!Next]_(History!vars)
         /\ part = "requests" => [Api!Next]_(Api!vars)
         /\ part = "settings" => [Settings!Next]_(Settings!vars)
         /\ part = "health" => [Reporter!Next]_(Reporter!vars)
         /\ part = "budget" => [Allowance!Next]_(Allowance!vars)
         /\ part = "session" => [Session!Next]_(Session!vars)
         /\ part = "upgrade" => [Upgrade!Next]_(Upgrade!vars)
         /\ part = "grants" => [Portal!Next]_(Portal!vars)
         /\ part = "projects" => [Catalogue!Next]_(Catalogue!vars)
         /\ part = "people" => [Door!Next]_(Door!vars)
<1>1. CASE Next
  BY <1>1 DEF Next, PortalNext, StoreNext, SweepNext, FiguresNext, ArchiveNext, KeysNext,
     ControlNext, StagesNext, RegistryNext, LinkNext, HistoryNext, ApiNext, DoorNext, SessionNext,
     SettingsNext, ReporterNext, CatalogueNext, LinesNext, HooksNext, AllowanceNext, UpgradeNext,
     WiringNext
<1>2. CASE UNCHANGED values
  BY <1>2 DEF values, KeyOwners!vars, Control!vars, Figures!vars, Sweep!vars, Stages!vars,
              Store!vars, History!vars, Api!vars, Settings!vars,
              Reporter!vars, Portal!vars, Door!vars, Catalogue!vars, Allowance!vars,
              Upgrade!vars, Session!vars
<1> QED BY <1>1, <1>2

LEMMA PartInit ==
  ASSUME Init
  PROVE  /\ part = "keys" => KeyOwners!Init
         /\ part = "commands" => Control!Init
         /\ part = "figures" => Figures!Init
         /\ part = "sweep" => Sweep!Init
         /\ part = "stages" => Stages!Init
         /\ part = "bundles" => Store!Init
         /\ part = "history" => History!Init
         /\ part = "requests" => Api!Init
         /\ part = "settings" => Settings!Init
         /\ part = "health" => Reporter!Init
         /\ part = "budget" => Allowance!Init
         /\ part = "session" => Session!Init
         /\ part = "upgrade" => Upgrade!Init
         /\ part = "grants" => Portal!Init
         /\ part = "projects" => Catalogue!Init
         /\ part = "people" => Door!Init
  BY DEF Init

(* A run that passed tested its own revision on every board, and one that ended shows where  *)
(* (_execute, _run_job), whatever images the runs before it left and whenever it is          *)
(* cancelled, fails or its service dies.                                                     *)
THEOREM VerdictShown == Spec => []VerdictsAreShown
<1> DEFINE Inv == part = "stages" => Stages!Inductive
<1>1. Init => Inv
  BY PartInit, StagesStart
<1>2. Inv /\ [Next]_values => Inv'
  BY PartStep, StagesTypes, StagesKnown, StagesEnd DEF Stages!Inductive
<1>3. Inv => VerdictsAreShown
  BY DEF VerdictsAreShown, Stages!Inductive
<1> QED BY <1>1, <1>2, <1>3, PTL DEF Spec

(* The bundle a run flashes stays in its place until it has done so, and no run's artifacts   *)
(* entry, nor its choice, is of a bundle that is gone (_link_artifact, delete_artifact,       *)
(* prune_artifacts), however deletes, prunes, failures of either and restarts interleave.     *)
THEOREM BundlesKept == Spec => BundlesAreKept
<1> DEFINE Inv == part = "bundles" => Store!Inductive
<1>1. Init => Inv
  BY PartInit, StoreStarts
<1>2. Inv /\ [Next]_values => Inv'
  BY PartStep, StoreTypes, StoreLock, StoreNew, StoreNoLink, StoreScan, StoreLinksFirst,
     StorePoints DEF Store!Inductive
<1>3. Inv /\ [Next]_values => [part = "bundles" => Store!FlashingKeepsItsBundle]_values
  BY PartStep, StoreKeeps
<1>4. Inv => (part = "bundles" => Store!TypeOK /\ Store!NothingPointsNowhere)
  BY DEF Store!Inductive
<1> QED BY <1>1, <1>2, <1>3, <1>4, PTL DEF Spec, BundlesAreKept

(* Storage figures that count as fresh (_measure_disk, _storage_changed) count nothing  *)
(* that is gone, whatever is deleted, told of and measured beside each other, but for   *)
(* what a deletion has yet to tell of.                                                  *)
THEOREM FreshFigures == Spec => []FreshCountsNoGhosts
<1> DEFINE Inv == part = "figures" => Figures!Inductive
<1>1. Init => Inv
  BY PartInit, FiguresStart
<1>2. Inv /\ [Next]_values => Inv'
  BY PartStep, FiguresInductive
<1>3. Inv => FreshCountsNoGhosts
  BY DEF FreshCountsNoGhosts, Figures!Inductive
<1> QED BY <1>1, <1>2, <1>3, PTL DEF Spec

(* A sweep takes no file of a run that waits or works (_sweep, plan_sweep), however long ago  *)
(* it made its plan: a run it names has ended, and does not begin again.                      *)
THEOREM LivingSpared == Spec => SweepSparesTheLiving
<1> DEFINE Inv == part = "sweep" => Sweep!Inductive
<1>1. Init => Inv
  BY PartInit, SweepStarts
<1>2. Inv /\ [Next]_values => Inv'
  BY PartStep, SweepInductive
<1>3. Inv /\ [Next]_values => [part = "sweep" => Sweep!SweepSparesTheLiving]_values
  BY PartStep, SweepSpares
<1> QED BY <1>1, <1>2, <1>3, PTL DEF Spec, SweepSparesTheLiving

(* A run an export brought is on the portal with its evidence, its log and its link, or they  *)
(* were not there to send, whatever calls are lost and whatever the rig removes meanwhile     *)
(* (export_history), and an export that said everything was brought had brought it.           *)
THEOREM HistoryBrought == Spec => []BroughtWhole
<1> DEFINE Inv == part = "history" => History!Inductive
<1>1. Init => Inv
  BY PartInit, HistoryStarts
<1>2. Inv /\ [Next]_values => Inv'
  BY PartStep, HistoryInductive
<1>3. Inv => BroughtWhole
  BY DEF BroughtWhole, History!Inductive
<1> QED BY <1>1, <1>2, <1>3, PTL DEF Spec

(* A name is one person's key or one account's, whoever creates keys, signs people up and  *)
(* revokes at once (namespace_lock, create_key, revoke_key), until a revoke that does not  *)
(* take the file lock overlaps another call.                                               *)
THEOREM OneOwner == Spec => []OneOwnerPerName
<1> DEFINE Inv == part = "keys" => KeyOwners!Inductive
<1>1. Init => Inv
  BY PartInit, KeysStart
<1>2. Inv /\ [Next]_values => Inv'
  BY PartStep, KeysInductive
<1>3. Inv => OneOwnerPerName
  BY DEF OneOwnerPerName, KeyOwners!Inductive
<1> QED BY <1>1, <1>2, <1>3, PTL DEF Spec

(* A command is carried out once at most and is said to be done if it was, whatever is      *)
(* lost, late or restarted between the portal (take_commands), the node (_control_command)  *)
(* and the host's script.                                                                   *)
THEOREM OnceOnly == Spec => []CarriedOutOnce
<1> DEFINE Inv == part = "commands" => Control!Inductive
<1>1. Init => Inv
  BY PartInit, ControlStarts
<1>2. Inv /\ [Next]_values => Inv'
  BY PartStep, ControlInductive
<1>3. Inv => CarriedOutOnce
  BY DEF CarriedOutOnce, Control!Inductive, Control!OnePlace
<1> QED BY <1>1, <1>2, <1>3, PTL DEF Spec

(* Whatever a request changed had a key that may since it arrived, in the keys file as it is    *)
(* written and goes out of reach, or a session (_refresh, _mutate); and the audit has it once,  *)
(* with the status of its answer (_record_audit), however requests meet.                         *)
THEOREM RequestsAudited == Spec => []ChangesAnswered
<1> DEFINE Inv == part = "requests" => Api!Inductive
<1>1. Init => Inv
  BY PartInit, RequestsStart
<1>2. Inv /\ [Next]_values => Inv'
  BY PartStep, RequestsInductive
<1>3. Inv => ChangesAnswered
  BY DEF ChangesAnswered, Api!Inductive
<1> QED BY <1>1, <1>2, <1>3, PTL DEF Spec

(* No more messages go out on a day's account than a day may have, however many processes take  *)
(* them and however they meet (messaging_budget's take under its lock), unless one was killed    *)
(* within the rewrite of the file or wrote for a day that was over.                              *)
THEOREM BudgetKept == Spec => [](part = "budget" => Allowance!TypeOK /\ Allowance!BudgetHolds)
<1> DEFINE Inv == part = "budget" => Allowance!Inductive
<1>1. Init => Inv
  BY PartInit, BudgetStarts
<1>2. Inv /\ [Next]_values => Inv'
  BY PartStep, BudgetInductive
<1>3. Inv => (part = "budget" => Allowance!TypeOK /\ Allowance!BudgetHolds)
  BY DEF Allowance!Inductive
<1> QED BY <1>1, <1>2, <1>3, PTL DEF Spec

(* Whoever got every message of a channel knows whether the host is healthy and was told   *)
(* it once, and the supply is called unhealthy exactly if every check of so long a time    *)
(* saw it fail (notify_transition, power_fault_since, classify_throttling), however long   *)
(* and often the host is checked, until two checks overlap or one is cut off.              *)
THEOREM HealthIsTold == Spec => []HostIsTold
<1> DEFINE Inv == part = "health" => Reporter!Inductive
<1>1. Init => Inv
  BY PartInit, HealthStarts
<1>2. Inv /\ [Next]_values => Inv'
  BY PartStep, HealthInductive
<1>3. Inv => HostIsTold
  BY ToldRight, JudgedRight DEF HostIsTold, Reporter!Inductive
<1> QED BY <1>1, <1>2, <1>3, PTL DEF Spec

(* What is acknowledged of a host's configuration is in the file and in the environment, a   *)
(* service behind it is one somebody was told to restart, channels have their credentials    *)
(* and the seal key its public half (command_config_set, command_notify_set, apply,          *)
(* restart_sending_service, generate_seal_key), however often each command is given; and     *)
(* both files stay valid even when commands meet or are cut off (require_valid).             *)
THEOREM Settled == Spec => []SettledIsWhole
<1> DEFINE Inv == part = "settings" => Settings!Inductive
<1>1. Init => Inv
  BY PartInit, SettingsStart
<1>2. Inv /\ [Next]_values => Inv'
  BY PartStep, SettingsInductive
<1>3. Inv => SettledIsWhole
  BY SettledRight DEF SettledIsWhole, Settings!Inductive
<1> QED BY <1>1, <1>2, <1>3, PTL DEF Spec

(* A code, a state and a token let somebody in once, guesses are counted, a session is of    *)
(* who signed in, and nothing is left to an account that is gone (consume_signin_code,       *)
(* consume_oauth_state, claim_enrollment, merge_accounts, set_rig_owner), however many       *)
(* requests there are and however their reads and writes meet.                               *)
THEOREM PeopleKept == Spec => []PeopleAreKept
<1> DEFINE Inv == part = "people" => Door!Inductive
<1>1. Init => Inv
  BY PartInit, DoorStarts
<1>2. Inv /\ [Next]_values => Inv'
  BY PartStep, DoorInductive
<1>3. Inv => PeopleAreKept
  BY CapRight DEF PeopleAreKept, Door!Inductive
<1> QED BY <1>1, <1>2, <1>3, PTL DEF Spec

(* What was answered of a project is what the next start finds, and the rig runs what its    *)
(* files say (create_project, delete_project, reload_profiles), however many requests write, *)
(* list and read those files without a lock, fail, or are cut off.                           *)
THEOREM ProjectsKept == Spec => []ProjectsAreKept
<1> DEFINE Inv == part = "projects" => Catalogue!Inductive
<1>1. Init => Inv
  BY PartInit, CatalogueStarts
<1>2. Inv /\ [Next]_values => Inv'
  BY PartStep, CatalogueInductive
<1>3. Inv => ProjectsAreKept
  BY CatalogueRight DEF ProjectsAreKept, Catalogue!Inductive
<1> QED BY <1>1, <1>2, <1>3, PTL DEF Spec

(* Runs that work at one time share no board and no resource of a rig, a run that has a rig  *)
(* to itself is alone on it, and a rig never runs more than its limit, whichever rigs, banks *)
(* and demands there are (plan, _free_bank, taken_resources, _worker_limit) and in whichever *)
(* order runs are queued, promoted, dispatched and ended.                                    *)
THEOREM GrantsKept == Spec => []WithinLimit
<1> DEFINE Inv == part = "grants" => Portal!Inductive
<1>1. Init => Inv
  BY PartInit, PortalStarts
<1>2. Inv /\ [Next]_values => Inv'
  BY PartStep, PortalInductive
<1>3. Inv => WithinLimit
  BY DEF WithinLimit, Portal!Inductive, Portal!NothingShared
<1> QED BY <1>1, <1>2, <1>3, PTL DEF Spec

(* An upgrade of the host that says it is done (command_upgrade, the update unit), and had no  *)
(* other beside it and nobody at its firmware, leaves the packages, the dashboard and the      *)
(* current health check of its release, and by the unit the code that runs and the version     *)
(* that is stamped: whatever is staged, restarted, refused or killed meanwhile.                *)
THEOREM UpgradesWhole == Spec => []UpgradeWhole
<1> DEFINE Inv == part = "upgrade" => Upgrade!Inductive
<1>1. Init => Inv
  BY PartInit, UpgradeStarts
<1>2. Inv /\ [Next]_values => Inv'
  BY PartStep, UpgradeInductive
<1>3. Inv => UpgradeWhole
  BY UpgradeRight DEF UpgradeWhole, Upgrade!Inductive
<1> QED BY <1>1, <1>2, <1>3, PTL DEF Spec

(* A session of a run's tests tells what happened, whatever the devices did (_emit,           *)
(* summarize): it ends well only with one record of each test that is no failure, on boards   *)
(* that showed the run's image, and if it fails or stops every test that failed has a record  *)
(* that says so.  While no device has left the bus it also lets go of what its instruments    *)
(* drove (_release_instruments), unless it is killed or one does not answer.                  *)
THEOREM SessionsTold == Spec => []SessionIsTold
<1> DEFINE Inv == part = "session" => Session!Inductive
<1>1. Init => Inv
  BY PartInit, SessionStarts
<1>2. Inv /\ [Next]_values => Inv'
  BY PartStep, SessionInductive
<1>3. Inv => SessionIsTold
  BY DEF SessionIsTold, Session!Inductive
<1> QED BY <1>1, <1>2, <1>3, PTL DEF Spec
=============================================================================
