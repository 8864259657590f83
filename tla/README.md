# esp32-rig: specifications, checks and proofs

TLA+ specifications of the rig service of this repository: the queue of runs and
the allocator that decides which run starts on which boards; the locks that keep
two processes off one serial port; the health check that takes bad boards out of
the pool; the agent of a rig that works for a portal, with its releases, its
commands and the history it brings; what happens inside a run, down to the serial
link and the session of a test; the requests that reach the service and the people
who send them; how a host is configured, upgraded and watched; and the files and
tables a rig keeps, bundles, evidence, backups, keys, projects, the registries of
boards and instruments. TLC checks them on small farms; TLAPS proves most of their
safety for every size. All source paths are relative to the repository root.

## 1. The system

A rig is a Linux host with ESP32 boards on serial ports. A service queues *runs*
(flash boards, run a test suite, report), starts what may start, and keeps every
verdict. It is one program in three modes: `standalone`; `node`, which takes its
runs from a portal; and `portal`, whose own half is not in this repository.

| Component | State it keeps | Operations | Code |
|---|---|---|---|
| Allocator | none: a decision | `plan`, `coverage` | `core/alteriom_hil/allocation.py` |
| Queue and dispatcher | grants, cancel requests, `paused` (in memory) | `submit`, `_supersede`, `cancel`, `promote`, `pause`, `resume`, `_dispatch`, `_release` | `core/alteriom_hil/service.py` |
| Job store | SQLite: runs, holds, verdicts, commands, pins, accounts | one transaction per call: `create`, `claim`, `update`, `cancel_if_queued`, `recover_incomplete`, `set_hold`, ... | `core/alteriom_hil/jobstore.py` |
| Run thread | the run's phase and stages, its child processes; the boards' images | `_run_job`, `_execute`, `_wait_for`, `_discover_for` | `rig/alteriom_hil/rig_manager.py` |
| Serial link of a test | frames in pieces, events queued and held back | reader thread, `send_cmd_awaiting`, `reattach` | `serial_capture.py`, `protocol.py` |
| Rig and board locks | flocks under `/run/lock` | taken by runs, chip probes, registration, `boards discover`, deploys, the notifier restart | `farm_shared.py`, `admin_cli.py`, `rig/update-runner.sh` |
| Test session | devices, instruments, a record per test, the report's matrix | `flash_all`, `preflight`, the pytest hooks, the report | `pytest_plugin.py`, `instrument.py`, `report.py`, `suites/painlessmesh/` |
| Inventory, board registry | registry, active board map, published snapshot; the registry of instruments | `publish_inventory`, `reconcile`, `register_device`, `unregister_device`; `boards` and `instruments` commands | `inventory.py`, `board_registry.py`, `instrument_registry.py`, `admin_cli.py` |
| Board health | holds, verdict history, the farm's own pause | `health_check`, `_record_board_health`, `_apply_quarantine`, operators' holds | `service.py`, `rig_manager.py` |
| Node agent | outbox directory, leased and running sets | heartbeat, lease, report and command threads; `export_history` | `rig/alteriom_hil/farm_node.py` |
| Releases of a node | an update in memory, `status.json`, `request.json` | `_consider_release`, `_stage_release`, `install_offered`; the host's unit | `farm_node.py`, `rig/node-update.sh` |
| Portal commands | a row each, the node's queue, `control.json`, result files | `add_command` to `finish_command`, `_carry_out`; the host's script | `jobstore.py`, `farm_node.py`, `rig/node-control.sh` |
| Artifact store | bundles on disk, records, pins, links of runs | supply, reuse, link, pin, delete, prune | `artifact_store.py`, `service.py` |
| Retention, storage figures | what runs left on disk; a cached measurement | `retention_sweep`, `delete_run`, `_measure_disk` | `service.py` |
| Backup and restore | archives beside a live store | `create_backup`, `restore_backup`, prune | `backup.py`, `admin_cli.py` |
| Keys, requests, accounts | a keys file and tables, one namespace; the file as the service remembers it; sessions, codes, the audit | create, revoke, sign up, by service, container and host; `KeyStore`, `_mutate`; sign in, merge, join | `api_keys.py`, `service.py`, `jobstore.py` |
| Configuration of a host | the file, the environment made of it, credential files, a key pair | `config set`, `notify`, `providers`, `restart_sending_service` | `hil_config.py`, `admin_cli.py`, `providers.py`, `rig/node-control.sh` |
| Upgrade of a host | a staged release, the packages, the dashboard, the pinned firmware | `stage`, `command_upgrade`; the update unit | `updates.py`, `release.py`, `admin_cli.py`, `rig/node-update.sh` |
| Health of a host | the last report | `collect_health`, `classify_throttling`, `notify_transition` | `rig/alteriom_hil/health_check.py` |
| Projects | documents, tombstones, the loaded profiles | `create_project`, `update_project`, `delete_project`, `restore_project`, `reload_profiles` | `rig_manager.py`, `service.py`, `profiles.py` |
| Notices | console lines, webhook subscriptions and logs, a day's budget of messages | `record_event`, `events_since`; `deliver`; `consume_budget` | `jobstore.py`, `webhooks.py`, `providers.py` |
| The rest | files, HTTP, hardware | see section 7 | |

How they interact. HTTP request threads call `submit` and `cancel`; each
reads and writes the store in transactions of its own and puts a token on the
dispatcher's queue. One dispatcher thread wakes on a token or every half minute,
reads the queue, the holds, the inventory and its own table of grants, asks
`plan`, and for every grant claims the row, records the grant and starts a
thread. That thread takes the rig lock (exclusively, or shared with its boards'
locks), chooses and links a bundle, works through its stages, writes the verdict,
drops the grant and puts a token. Health check runs write verdicts and holds at
their end, and those holds are what the next decision reads. Daily threads sweep
what old runs left, prune bundles and back the farm up, beside all of that.
Administrators' commands, deploys, installs and a portal's commands are other
processes: only lock files and files with one place stand between them and a run.

What is hard here, and what correctness means for each part:

- **Allocator and dispatcher.** Grants are decided turns apart, from different
  inventories and hold tables. Boards and resources must never be shared, what
  is held out must stay out, the queue's order must mean something, and neither
  a stream of small runs nor a run nothing can meet may stop the queue.
- **Queue, store and run threads.** Every statement can be overtaken: a cancel
  against a claim, two submissions superseding each other, a store call that
  raises between two steps, the process dying between any two. A run must be
  worked on at most once, only while its row says so, and be settled in the end.
- **Stages of a run.** A flash is skipped for boards that say they carry the
  revision already; a command fails, is cancelled or dies with the service
  half way. A run that reads passed must have shown its own revision.
- **Serial link.** A frame comes in two halves, or damaged, or late; a command is
  sent again. No event may be lost or doubled, no command run twice that may not.
- **Locks.** Two processes on one serial port reset a board in the middle of a
  test. Locks are taken one by one, some without waiting, some with a time
  limit; nobody may wait in a circle and every refusal must let go.
- **Registries.** Registry, map and snapshot are three files written one
  after another; boards move and change chips in between. Instruments are a file of
  their own, whose wires end on boards, and commands change both without a lock.
- **Board health.** Checks of several boards side by side, operators between any
  two store calls, restarts in the middle: a good board must not be quarantined
  for the farm's fault, a clean check must release.
- **Node agent.** A portal that is unreachable, answers that are lost after the
  portal acted, a node that restarts between a verdict and its outbox: what was
  written to the outbox must be delivered or refused, and no lease may be kept
  for ever. A release must not be installed unasked nor keep the node from work,
  a command not be carried out twice, a history not be filed in part.
- **Files and tables.** A bundle deleted between a run's choice of it and the
  link that makes the run hold it; a sweep that acts on an old plan; a
  measurement filed after what it counted is gone; a backup beside a writing
  service; a name given to a key and to an account at once; two requests that write
  documents of projects and each read all of them again.
- **Requests and people.** A key revoked while a request is on its way, or while the
  file is out of reach; a code presented twice at once; two accounts of one person
  merged from rows read before.
- **Test session.** A device hangs, dies or leaves the bus within any hook: the
  records must still tell what happened, and the instruments let go.
- **A host.** Commands that rewrite its configuration meet, or are cut off, and a
  service restarts on half a change; an upgrade is made of packages, files and
  firmware, of which the later steps can find another release's; two health checks
  tell one change twice, or nobody does.

`PROJECT.json` lists every such hazard at its line, with the property that would
catch it going wrong, or the reason there is none.

## 2. The plan

Written in this order, the most important behaviour first; all of it is done but
what the last point names:

1. `Allocation` (pure operators), `Dispatcher` (the farm over time, on top of it).
2. `RunLifecycle` (the abstract promise), `JobQueue` (the statements, refining
   it), `JobQueueProofs`.
3. `RigLocks`, which takes `Dispatcher`'s `NothingShared` as what a grant means;
   `RigLocksProofs`.
4. `BoardHealth`, `BoardHealthProofs`.
5. `NodeAgent`, leases, runs and the outbox against a portal that loses calls,
   and `NodeAgentProofs`; beside it `NodeUpdates`, `NodeControl`, `HistoryExport`.
6. `RunStages` and `SerialLink`: what a run does between its locks and its verdict.
7. What a rig keeps: `ArtifactStore`, `Retention`, `StorageFigures`, `Backup`,
   `KeyNames`, `BoardRegistry`, `InstrumentRegistry`.
8. Who asks, and what is told: `Requests`, `Accounts`, `Console`, `Webhooks`,
   `MessageBudget`.
9. The host: `HostConfig`, `HostUpgrade`, `HostHealth`, `Projects`; and
   `TestSession`, a suite's own commands on it.
10. `HostProofs`, over `RigProofs` and `ServiceProofs`: the parts of a host, one by
   one, each with the inductive invariant its module ends in.
11. *Left:* proofs of `PageAddsUp`, `LinkTellsTrue`, `RestoredWhole` and the console's and
   the deliveries' half of `NoticesAddUp`, which are model-checked; and to model the
   simulation and details stages, the rig's enrolment beyond its token, and the MQTT
   and power sides of the suites' runtime.

Parameters are CONSTANTS, with named assumptions in the modules that are proved
about; each operation is an action; invariants are conjunctions of named parts; no
module declares a RECURSIVE operator. Where a property has a line or two that only
a defect would change, the module has a *Variant* next to the original: an
operator of the same shape with a plausible mistake, which the mutants of
`PROJECT.json` put in its place to show that the property notices.

## 3. The modules

**`Allocation`** is `allocation.py`: needs and tags (`Matches`, `Take`), the
greedy fit (`FitsIdle`), choosing boards (`Choose`), one rig in one plan (`Rig`,
`Eligible`, `Block`, `Attempt`), the loop over the queue (`PlanOne`, `Plan`) and
the report's shortfall (`Coverage`). Python's loops over boards and needs are
recursive functions in the same order (`Only`, `Taken`, `Turns`), for the first match wins. The
prose reasons a run waits are left out.

**`Dispatcher`** EXTENDS it with the farm over time. `queue` is the store's queued
rows in order, `grants` the grant table, `holds` the holds table, `connected` the
published inventory. `Submit`, `Promote`, `Cancel`, `Finish`, `Reserve`,
`Quarantine`, `Release`, `Rediscover`, `Pause`, `Resume` change them, and
`Dispatch` is one whole turn under the dispatch lock.

**`JobQueue`** is the same queue at the grain of single statements. `status` and
`by` are the store; everything else is memory and is gone after `Crash`. The
dispatcher is `DispatchPlan`, `DispatchClaim`, `DispatchGrant`, `DispatchLaunch`; a
run's thread `RunEnds` or `RunNotices` (a cancel request), `RunSettles`, `RunTells`
(the event emitted inside the same `try`), `RunLeaves`; a request thread `Submit`,
`Scan`, `SupersedeNext`, `AskCancel`, `CancelRequest`, `CancelQueued`, `ReadAgain`.
`DispatchFails`, `RunCannotSettle` and `Refuse` are a store call that raises
(SQLite locked beyond its timeout, disk full). Which runs a turn starts is any
subset of the queue within a limit, so its results hold for every allocator.

**`RunLifecycle`** is what the store promises of a run: it waits, is taken or
withdrawn, is worked on at most once and only while taken, and is over for good.
`JobQueue` implements it under `Stage`, which maps `queued` to `waiting`, `running`
to `taken` and the three verdicts to `over`.

**`RigLocks`** is the lock files and everybody who takes them: runs (alone, or
beside others), a chip probe that refuses to wait, administrators rewriting the
inventory, the deploy script, the restart after a change of notifications or for a
staged release; and hands that move boards between ports. Locks are flocks: a dead process's are gone.

**`BoardHealth`** is the canary check from its start to the farm-wide decision, at
the grain of store calls: verdicts, the streak, quarantine, release, the farm's
own pause, operators and restarts. A check is judged from what was wrong while it
ran: the access point, some boards, the instrument behind the wires.

**`NodeAgent`** is a rig that works for a portal. The lease loop is `LeaseAsk`,
`LeaseTaken`, `SayTaken`, `BundleHere` or `BundleFails`, `TakeCreate`, `TakeClaim`,
`TakeLaunch`; a run's thread, which `JobQueue` has in detail, is `RunEnds` and
`Finished`; the report loop is `Deliver`, `EvidenceSent` and `Marked`, `ResultSent` or `Refused`,
`Drop`. `store` and `outbox` are disk; `Crash` clears the rest and `ComesBack` is
recovery and the agent's constructor. Each call may be lost before the portal acts
(`PostLost`) or after (`EvidenceAnswerLost`, `ResultAnswerLost`, `LeaseAnswerLost`),
and a local write may raise (`TakeRaises`, `FinishedRaises`, `MarkRaises`). The portal is external:
it leases, takes an unacknowledged lease back, closes a run, accepts what is
running here and refuses the rest.

**`NodeUpdates`** is a node's releases. The portal names one in every answer
(`Names`, `Heartbeat` with `ConsiderRelease`), the owner asks for it or turns
automatic installs on (`InstallOffered`, `SetAuto`), the node drains its runs, a
thread fetches (`StageSays`, `StageRequests`, `StageFails`), the host's unit takes the request and
installs (`UnitTakes` to `UnitEnds`, `UnitCut` when a step outside its checks fails).
Node and unit both write `status.json`, the node also remembers: the later counts.

**`NodeControl`** is a portal's command to a rig: its row (`AddCommand`,
`TakeCommands`, `ExpireCommands`, `Finished`), the node's queue and command thread
(`Begins`, `CarriesOut`, `HandsOver`, `ReportsCommand`), the host's script that takes it from
the one place of `control.json` (`ScriptTakes` to `RestartsNode`, `ScriptDies`), the result file
and its late report (`ReportsResult`), and the death of the node at any point.

**`HistoryExport`** is the history a rig brings to the portal it joined: rows and
bundles are read, the portal is asked what it has, then come the bundles and run by
run the evidence, the log, the link and the row. Any call is lost before or after
the portal acted; the export is interrupted and run again; meanwhile runs end, are
swept and are pruned on the rig.

**`RunStages`** is a suite run between its locks and its verdict, a step for a
command: the stages it shows, the images on the boards, the flash that is skipped
when every board says it carries the revision, and each way it stops (`Raises`, a
cancellation, `Interrupted`). Runs follow each other on the same boards.

**`SerialLink`** is a test's line to a board. The board writes a frame in one
piece or two (`Writes`, `WritesTail`), some damaged; the reader judges what it has
(`ReadLine`, `Judge`); the client sends, takes events, holds others back, sends again, gives
up or reattaches (`Calls`, `TakesEvent`, `TimesOut`, `Reattach`). `SendCmd` is `send_cmd` with
`write_line`: a writing that raises has the port opened anew (`Reopened`), with what was
queued or half read dropped, and the whole command written again, or it raises to the test
(`ReopenRaises`, when the device does not come back).

**`ArtifactStore`** is the bundles on disk. Producers hand them over, a run chooses one
under the artifact lock and links it (`Picks`, `Links`), operators pin, delete and
prune: choose, scan the links, remove the tree, record (`Chooses` to `LetsGo`, with the
failure of each). `DeletesFiles` and `DeletesRow` are `delete_run`, which takes no lock.

**`Retention`** is the sweep of what runs left, working through a plan it made
earlier (`Plans`, `Takes`, `Notes`) while runs start, end and are deleted.
**`StorageFigures`** is the measurement behind the storage page: it walks the disk,
item by item, while others delete first and say so afterwards.

**`Backup`** is `create_backup` in its steps (copy the store, list the bundles it
pins, pack, rename, prune) beside a service that goes on writing, and
`restore_backup` member by member; both may be killed anywhere, and neither looks
whether the other is under way. The list can be empty because it could not be read, or
because the archive is made without bundles (`ListsBundles`). One backup is made at a
time, and nobody starts the service before a restore is over.

**`KeyNames`** is the one namespace of keys and accounts: calls of the service, the
container's command and the host's, each checking, reading and replacing the whole
file, and the portal's sign-up (external).

**`BoardRegistry`** is `reconcile`, registering and unregistering, and the board map
and the snapshot written one after the other. `View` is what the page makes of them.

**`InstrumentRegistry`** is the files of boards and of instruments. The service's
register, unregister and every discovery read both and write the boards under the rig
lock (`Takes`, `Reads...`, `WritesBoards`); the administrator's `boards` and
`instruments` commands do the same without it, then publish (`Publishes`).

**`Requests`** is a request for a change from its key to its line in the audit: the
keys file as the service remembers it (`Looks`, `Reads`), the role (`Checks`), the
handler, the row and the answer in their order, beside a file that is written or out of
reach. **`Accounts`** is the store's statements about people: codes and states spent,
sessions made and ended, accounts merged, rigs joined, with reads outside the
transactions that act on them. In what order they are called is the portal's, external.

**`TestSession`** is a suite's commands: flashing, the preflight and the pytest session,
whose hooks sample, stop, collect and record (`SetupPasses` to `Teardown`) while devices
hang, die or leave the bus (`Fault`); the session closes with the instruments let go.

**`HostConfig`** is the configuration file, the environment rendered from it, the
service that read that at its start, the channels' credential files and the key pair of
the sealed ones, under the administrator's commands, which meet and are cut off. A channel is
changed by `notify set`, `tune` and `remove`, which restart the service or say that it has to
be, and by `config set notify.*`, or an editor and `config apply`, which rewrite the
environment and tell nobody (`ByHand`, `RestartsAfter`).
**`HostUpgrade`** is a release of packages: staged file by file, checked and asked for
by the service, installed by the unit or by hand (`PipStarts` to `Pins`), stamped,
restarted. **`HostHealth`** is the report: read the last, collect, tell, replace it.
**`Projects`** is the documents and tombstones over the shipped profiles: each request
writes its file and then reads them all (`CallStep`, in the order of the code).

**`Console`** is the console's table, pruned in blocks, and pages that ask in three
statements. **`Webhooks`** is deliveries with their retries and the log of each
subscription. **`MessageBudget`** is the day's count in a file: opened, locked, read,
cut off and written again (`Opens` to `LetsGo`) by a run and by root.

**What TLC runs.** `MCDispatcher`, `MCRigLocks` and `MCBoardHealth` give one module's
constants small values; `NodeAgent` has a configuration of its own. `MCJobQueue` takes
`JobQueue` twice: two request threads for the safety properties, one thread with
fairness for the liveness ones. `MCNode` has `NodeUpdates` and `NodeControl` side by
side, a behaviour being one of either (`side`). `MCHost` holds the components that
share no variable with another: a behaviour is one of one `part`, whose variables are
`v1`, `v2`, ... (`HostState`) in the order of its module. Nothing is composed there; it
is the way to check twenty-two small models in one run, and each property names its
part. `RigParts` and `ServiceParts` instantiate the parts that are proved about, with
their constants as parameters and an assumption each; `Host` adds the others, of a fixed
small size, and the next-state relation; `MCHost` gives the parameters values.

## 4. The runs

| Run | Shows | Bounds, and why they are enough |
|---|---|---|
| `dispatcher_rig` | `GrantsHold`: boards and resources never shared, needs met; `QueueIsServed`: queue order as far as the code keeps it, every run served | three boards of two families, five kinds of run (one board, two families with an optional one and a tag, whole rig, named boards, discovery): every path of `attempt` and `_choose`; one board may be held, another unplugged, one run promoted |
| `dispatcher_jumps` | *finding 1* | as `dispatcher_rig` |
| `jobqueue` | safety of every interleaving of submit, supersede, cancel, dispatch, settle, failing calls and crashes; refinement of `RunLifecycle` (`KeepsLifecycle`); `RunsAndCallsEnd`: a running run is settled or was stranded by a call that raised, and every request is answered | two runs of one branch at different commits; two request threads, one of which may also cancel: each pair of actors meets at each statement. For liveness one thread making every call. Crashes and failures are unbounded. The proofs lift the safety part to any number |
| `jobqueue_superseded` | *finding 2* | as `jobqueue` |
| `riglocks` | one opener per port; the inventory stands still beside working runs; a deploy ends no work; every run gets its locks | two boards on two ports, two runs beside each other and one alone, one probe, one administrator, one deploy, one restart: every pair of holders. Replugging is unbounded |
| `riglocks_install` | *finding 3* | two runs |
| `boardhealth` | `HoldsFollowVerdicts`: good boards stay in, a clean check releases; reservations the check saw are kept; the farm pauses for the farm's fault and only then | two boards, three checks and a streak of two: a streak, its end, and a check beside it. Boards and runs are interchangeable (symmetry; no liveness is checked there) |
| `boardhealth_resumes` | *finding 4* | one board, two checks |
| `nodeagent` | what is running is in the agent's hands until reported; no report is dropped; the portal is told the row's verdict; places and leases are given back | two leases: two runs side by side, or one leased again while the node has it. Crashes, lost calls, failing writes and entries cut short are unbounded |
| `node` | nothing is installed unasked; the node takes runs again after every release; the outcome of a command of the host's script arrives | two releases, the second named at any moment of the first's install; one death of the node; one command the node does itself and one that restarts it |
| `node_stuck` | *finding 5* | as `node` |
| `host` | one or two properties for each part below | the parts, one by one |

The parts of `host`:

| Part | Shows | Bounds |
|---|---|---|
| grants (`Dispatcher`) | `WithinLimit`: a worker's own limit, over turns | two workers, one of which takes one run at a time and not every profile; small runs compete for a limit of two |
| bundles (`ArtifactStore`) | `BundlesAreKept` (`FlashingKeepsItsBundle`, `NothingPointsNowhere`) | three bundles, two of which are handed over with the same content, two runs that reuse: a chooser, a second holder and a remover meet |
| sweep (`Retention`) | `SweepSparesTheLiving` | two runs of which the newest is protected, one death or failing write |
| figures (`StorageFigures`) | `FreshCountsNoGhosts` | three items, two threads that delete: two deletions across one walk. Proved for any number |
| backup (`Backup`) | `RestoredWhole` | one bundle of two files, one archive kept, two writes of the store, backups at two times, a restore beside any of them |
| keys (`KeyNames`) | `OneOwnerPerName` | five calls over two names: the service's create and revoke, the container's and the host's revoke, and a sign-up |
| commands (`NodeControl`) | `CarriedOutOnce` | a command the node does, one of the script, one that restarts the node: two commands for the one place of `control.json` |
| stages (`RunStages`) | `VerdictsAreShown` | two runs of two revisions on two boards: a flash that stops half way, then a run that may skip it |
| registry (`BoardRegistry`) | `PageAddsUp` | three devices of two families, one an instrument, on two ports, one entry by port |
| link (`SerialLink`) | `LinkTellsTrue` (`FramesArrive`, `RunOnceAnsweredOwn`) | two commands, one repeatable, three frames, the port opened anew twice: a reply that comes late, after the next command is sent, and a write that raises within a wait and again |
| history (`HistoryExport`) | `BroughtWhole` | a run of the rig, one of the portal, a bundle both link, two exports |
| wiring (`InstrumentRegistry`) | `PageAddsUp` (`RegistriesAgree`) | two callers, two calls out of twelve, two ids of boards and of instruments of which one is both, two devices, from every valid pair of files: each pair of commands meets |
| requests (`Requests`) | `ChangesAnswered` | two requests, a key and a session, the keys file written once: a revocation at each step of a request, a second request that finds what the first cached |
| people (`Accounts`) | `PeopleAreKept` (`UsedOnce`, `CapHolds`, `NobodyStranded`) | four calls in two threads, two accounts of one person, two guesses: one more guess than the cap, a merge beside each other call |
| session (`TestSession`) | `SessionIsTold` (and `InstrumentsLetGo`) | a board, two instruments, two tests, one fault at any point |
| settings (`HostConfig`) | `SettledIsWhole` | two commands at once, two channels that may be of one kind, one of them sealed; every change by its own command, by `config set` or by hand |
| health (`HostHealth`) | `HostIsTold` (`TransitionsTold`, `SupplyJudged`) | three checks over three moments, a supply that must fail two of them: a fault, its pause and its return |
| projects (`Projects`) | `ProjectsAreKept` (`AnswersAreKept`, `RunsWhatIsWritten`) | two requests at once about a shipped project and one of the operator's, one edit by hand, crashes at any point |
| console (`Console`) | `NoticesAddUp` (`NothingUntold`) | five lines of two rigs, two kept, pruned every second, two shown at a time: a page falls behind the pruning and catches up |
| deliveries (`Webhooks`) | `NoticesAddUp` (`LogTells`) | two subscriptions, two deliveries of one attempt or two, two rows kept: a log that is full in the middle of a delivery |
| budget (`MessageBudget`) | `NoticesAddUp` (`BudgetHolds`) | a run and root, two messages a day, six asked for, midnight at any point |
| upgrade (`HostUpgrade`) | `UpgradeWhole` | two releases with firmware of their own, three upgrades begun by the unit or by hand |

A module's type invariant is a conjunct of its first safety invariant or of the
part's invariant. No state or action constraint is used; state spaces are finite by
the constants. `CHECK_DEADLOCK FALSE` stands in `MCNode`, `MCNode_stuck` and `MCHost`
only, where a part has nothing left to do at its bounds (every command closed, every
run over); everywhere else a step can always be taken. In `BoardHealth` and
`RigLocks` each run, probe or request is made once; in `Dispatcher` a finished run
may be submitted again, which keeps the stream of small runs endless for
`EveryRunServed` (a part of `QueueIsServed`).

### Findings

Where a document or a comment and the code disagree, a run shows it.

1. `allocation.py` says nothing jumps a run queued first. A run that needs the rig
   to itself chooses its boards without looking at what earlier waiting runs keep
   back, so behind an earlier run whose named board was reserved since it takes
   boards that one wants. `NothingJumpsUnreserved` is what does hold.
2. `_supersede` says it cancels older commits. It cancels every other commit: of
   two submissions in flight at once the older can cancel the newer.
3. `install_update` refuses while runs are in progress, because the install's restart
   would end them. It looks once; the release is then fetched for minutes while the
   queue goes on, and the restart looks at nothing: a run that started in between is
   ended. (`restart_sending_service`, which restarts if nothing is running, tests the
   rig lock and lets it go first: the same race, with a window of milliseconds.)
4. The documents say a passing health check resumes the queue the farm paused.
   Nothing but an operator resumes it, and a check submitted to a paused queue is
   never started.

5. `node-update.sh` says that what happened is left in `status.json`. Between
   *installing* and its checks it runs `mktemp`, `git fetch` and `git archive` under
   `set -e`: when one fails, or the host goes down, the file says *installing* for good, the
   node waits on it without a limit and takes no run.

### What the properties except

Each exception is a history variable of its module and a gap a reader should know.

- `NodeAgent`: a run cut off between the store's verdict and the
outbox (`cut`) is in nobody's hands after a restart, though `farm_node.py` opens with
"a node that restarts, loses no verdict"; one whose `_take` or `_finished` raised
(`stuck`) keeps its place among `max_runs` until a restart, though the comments there
say its failure is reported; one leased again (`twice`) because the first stage
report was lost is started a second time, beside the first. An entry of the outbox is
  marked by writing it over in its place: one that a death or a full disk cuts short
  (`torn`) raises at every turn from then on, and with it every report listed after it
  stays on the rig, while the heartbeat says the rig still has those runs (`Stopped`).
- `NodeUpdates` (`cut`): an install that ended without a word, finding 5.
- `ArtifactStore` (`lost`): `delete_run` takes the bundle a run of old built under its
  id with the run's files, whoever pinned, links or flashes it, without the artifact lock.
- `StorageFigures` (`hushed`): what a thread deleted before it raised, and told nobody of.
- `Backup` (`gone`): bundles unpinned, deleted or not whole while the backup was made; and
  all of them, when it is made without bundles, when `_pinned_bundles` could not read the
  store (it answers that nothing is pinned, and the backup succeeds), or when a restore put
  another store in place between the copy and the list.
- `KeyNames` (`beside`): revoking a key in the service or on the host does not take the
  namespace's file lock, so it can undo, or be undone by, another process's write.
- `BoardRegistry` (`torn`): an operation that stopped between its files.
- `InstrumentRegistry` (`spoilt`): `instruments add --replace-board` takes a board out of
  the registry before it knows that the instrument may be added, and whatever is wired to
  that board: the very state that, a comment in `unregister_device` says, leaves every later
  discovery invalid. `boards add` takes an id or a MAC of an instrument. After either,
  discoveries, `unregister` and the `instruments` commands refuse until the board is added
  again or the files are edited. And commands write both files without the rig lock, so one
  that read before a discovery wrote takes back what it registered.
- `Requests`: a keys file that cannot be looked at answers from memory; three routes
  outside `_mutate`, and the enrolment, leave no line of a handler that raised.
- `Accounts` (`stale`): a merge or a gift acts on accounts as read before its transaction.
- `TestSession` (`unplugged`, a session killed): a board that has left the bus makes the
  sampling of its heap raise, though `_sample_board_heap` says a sample never fails a test; what is
  driven by an instrument that has gone stays driven.
- `HostConfig` (`wild`, `turned`): commands met or were cut off; the key pair was turned
  under a sealed credential. Two channels of one kind share a credential file, so the second
  replaces the first's, though a comment in `admin_cli.py` says that setting a channel no
  longer drops the one that was there; after `config set notify.*`, or an edit and
  `config apply`, the service goes on with the channels it had and nobody is told (`owed`
  is *untold*): the property says that this is the only way it may differ unsaid;
  `notify_set` of `node-control.sh` says nothing was changed after it stored an empty
  credential; `notify_remove` fails where `notify` is a list.
- `HostHealth` (`again`, `beside`, `lost`): a check cut off after it told and two checks at
  once tell a change twice; `Notifier.send` lets an HTTP protocol error through, though it
  says that it never raises.
- `Projects` (`doubt`, `apart`): requests for one project that met; a refused update whose
  reload failed loses the document that was there before it; a write that raised after the
  tombstone or the document had gone leaves what is loaded behind the files.
- `Console` (`slipped`): lines pruned between the statements of one question are not counted
  as missed.
- `Webhooks` (`cut`, `removed`): the service stopped, or recording raised, which ends the
  retries; rows written after the subscription was removed stay.
- `MessageBudget` (`torn`, `crossed`): whoever is killed between cutting the file off and
  writing it makes it forget the day; the day is asked for before the lock, so a message
  that waits over midnight sets the file back by a day.
- `HostUpgrade`: an upgrade beside another, pins changed or bundles deleted meanwhile. The
  unit unpacks the dashboard from the staged directory after the check of the files, and
  an upgrade by hand does not stamp the version.
- `SerialLink` (`spoilt`): after a wait was given up, or a repeatable command was sent
  again for noise, a late reply can be taken for the next command's of the same kind. A
  command written again behind a writing that raised and yet got through may run twice,
  repeatable or not. (`opened`): frames written before the port was last opened anew are
  lost with the queue, which `reopen` says of a board that has restarted and `write_line`
  does to one that has not.
- `HistoryExport` (`bare`, `absent`): the link of a run whose bundle had not been brought
  is not sent with it, and the run is known from then on, so no later export sends
  the link, though the export says to run it again for what failed; and files that
  the rig itself had removed before they were sent.

## 5. Fairness

- `Dispatcher`: the dispatcher looks at the queue at every token and every half
  minute (`_worker`), so it is weakly fair; that is written without ENABLED, as
  *infinitely often nothing to start, or infinitely often a dispatch*, since a
  dispatch changes the state exactly when the decision is not empty. A run ends
  by its own safety limit, so `Finish` is weakly fair. Nothing is assumed of
  users; `EveryRunServed` assumes, in its own premise, that the queue is
  eventually open for good, holds and inventory settle, and nobody promotes
  for ever.
- `JobQueue`: threads are scheduled, and a restarted process recovers its rows and
  comes up. Nobody has to submit, no call has to raise, the process need not die.
  It is stated for the behaviours with one request thread, the ones the liveness
  properties are about. A service may crash for ever; `RunsAndCallsEnd` holds all the same, since every
  recovery settles what was running.
- `RigLocks`: a holder of a lock comes to its end (a run by its safety limit, a
  probe by its timeout, a deploy by its script), and a waiter that can have its lock
  gets it. `flock` promises no order between shared and exclusive waiters; here
  every actor makes one request, so the starvation of an exclusive waiter by an
  endless stream of shared ones cannot occur, and is not claimed.
- `NodeAgent`: the loops turn, runs end, a restarted node comes up. Delivery is
  strongly fair: a network that fails now and then lets a call through now and then;
  calls may still fail for any stretch. Nothing makes the portal lease or a write
  raise, and `EveryLeaseEnds` supposes that the node stays up in the end.
- `BoardHealth`: somebody asks for each check and what is started goes on. Only
  `boardhealth_resumes` uses it.
- `NodeUpdates`: heartbeats go on and answers to the lease loop come (its requests have
  time limits), time passes, runs end, the download thread and a unit that has begun
  come to an end, or are cut. Nobody has to ask for a release, and a portal may
  name a new one at any time.
- `NodeControl`: the command thread goes on (weakly fair); the report of a result file
  is strongly fair, as the portal is away now and then (`PortalAway`) and each heartbeat
  tries again. The script need not run.
- The other parts of `host`: safety only, no fairness.

## 6. Proofs

Thirty-three theorems, each for every value of the constants that the named assumption
admits: six in `JobQueueProofs`, three in `RigLocksProofs`, four in `NodeAgentProofs`,
three in `BoardHealthProofs`, one in `NodeUpdates`, and sixteen in `HostProofs`, which
rest on the lemmas of `RigProofs` and `ServiceProofs`.

**`JobQueueProofs`**, for any sets of runs and callers, any branches and commits
and any limit, from `JobQueueAssumption` alone (the id that stands for no run
is not a run; what callers may do is about runs; the limit is a number), proves:

| Theorem | States |
|---|---|
| `Typing` | `Spec => []TypeOK` |
| `Works` | a thread works only under a running row and a recorded reservation |
| `NothingForgotten` | a running row or a reservation without a thread was left by a call that raised |
| `Forward` | statuses only move forward |
| `Implements` | `Spec => Lifecycle!Spec`, under the refinement mapping |
| `Superseding` | an accepted submission leaves no older run of its branch waiting or unasked |

The argument. None of these is inductive as it stands. Three invariants carry
them, each proved with the ones before at hand:

- `Typed`: the types, and that where a thread stands says which run it has in hand
  (the dispatcher between claim and launch has one; a request thread inside
  `cancel` has one). Without it a step that records `dcur` says nothing.
- `RunInv`: the run the dispatcher is starting is fresh (never given a thread, its
  row running), a thread's phase matches its row, and whatever is running has a
  thread, is being started or was stranded. The claim being conditional on the
  row is what makes a cancel and a claim exclude each other here.
- `SubmitInv`: what a submission in progress still *owes*: an older run of its
  branch is either stopped already, still on its list, in its hand, or the list
  is not made yet. `RowsStay` and `StoppedStays` say that nothing undoes a stop.

`RowChanges` lists once which actions move a row and how; `Forward` and the
refinement rest on it. `LifecycleStep` maps each action of `JobQueue` to a step or a
stutter of `RunLifecycle`: the claim to `Take`, the launch to `Work`, the end of
execution and the crash to `Stop`, a verdict or a recovery to `Settle`; turning a
told `passed` into `failed` is a stutter, as both are over.

**`RigLocksProofs`**, for any boards, ports, runs, probes, administrators and grants
(`RigLocksAssumption`): `Exclusive` (`PortExclusive`),
`StandsStill` (`InventoryStandsStill`), `DeployPatient` (`DeployEndsNoWork`). The
invariant ties what an actor may do to the locks it holds: `RigHeld` and `BoardsHeld`
(at which step who holds which lock), `MapApart` (no two boards share a port in the
map), `Knows` (the port a probe looked up is the map's, unless the inventory was
rewritten since) and `OpensOwn` (a port is open only while its opener works). The
lemma `PortsApart` draws the exclusion from them; `AloneAtWork` and `LettingGoKeeps` are
what every actor's end needs; the steps go actor by actor.

**`NodeAgentProofs`**, for any runs, places and number of leases
(`NodeAgentAssumption`): `Held` (`HeldUntilReported`), `Tells` (`TellsTheVerdict`),
`Places` (`PlacesGivenBack`), `NothingLost` (`NothingDropped`). That a run is in the
agent's hands is not inductive: hands are a lease in the loop, a thread or an
entry of the outbox, and a step passes the run from one to the next. `Hands`, `Taking`
and `Threads` say which there is where; `Arrived` and `Reported` tie an entry to what
the portal has; `Ended` and `Kept` say what is left on disk across a death.

**`BoardHealthProofs`**: `Reservations` (`SeenReservationsKept`), `FarmPauses`
(`FarmWidePauses`) and `HoldsTellTrue` (`HoldsFollowVerdicts`), from `Inside`: who is at a
step between taking and dropping the state file's lock holds it; the last also from what
each check has still to say of each board. **`NodeUpdates`** ends in `OnlyAsked`
(`OnlyWhatWasAsked`).

**`HostProofs`** is about the parts of `Host`. A behaviour is one of one part and of no
other (`PartInit`, `PartStep`), so a property of a part is proved of that part's
own initial states and steps, and the last step puts it together with the rest. For each,
the module of the part ends in an `Inductive` that TLC checks as well:

| Theorem | Property | What makes it inductive |
|---|---|---|
| `GrantsKept` | `WithinLimit` | `NothingShared` of the grants. That a plan never goes beyond a worker's limit is proved along the loop of `Plan`, by induction over the queue's positions: the least turn that broke it would have one before it (`WFMin` over the numbers, which needs no operator as a parameter) |
| `BundlesKept` | `BundlesAreKept` | the artifact lock is held by whoever is within it, what a prune scanned still stands, links go before the tree |
| `LivingSpared` | `SweepSparesTheLiving` | a plan names items of runs that were over when it was made, and what is over stays so |
| `FreshFigures` | `FreshCountsNoGhosts` | `WalkIsCurrent`: while nobody has bumped the generation, all that the walk counted and is gone is still to be told of |
| `OneOwner` | `OneOwnerPerName` | one process at a time within the namespace's lock, and what it was told and read stands while it is |
| `OnceOnly` | `CarriedOutOnce` | a command is in one place at a time: row, queue, `control.json`, script, result file |
| `VerdictShown` | `VerdictsAreShown` | the stages so far, and the revision each board's image is of |
| `HistoryBrought` | `BroughtWhole` | what is in hand is of the run under way, and what the portal knows of a run is all it had then |
| `RequestsAudited` | `ChangesAnswered` | what is remembered under the file's stamp is what the file says; no change before the handler, no row before the answer |
| `PeopleKept` | `PeopleAreKept` | codes, states and join tokens presented once are spent; sessions are of accounts that are there |
| `Settled` | `SettledIsWhole` | both files are valid always; at rest what is owed, told or untold, accounts for every difference between file, environment and service, and no credential is in two kinds' files |
| `HealthIsTold` | `HostIsTold` | checks come one at a time unless they overlapped; what was told so far, and since when the supply fails |
| `ProjectsKept` | `ProjectsAreKept` | what a request has made of its project at each step, and what one that met no other has read |
| `BudgetKept` | `BudgetHolds`, of `NoticesAddUp` | who is inside holds the lock, and what it read is the count |
| `UpgradesWhole` | `UpgradeWhole` | `InOrder`: what an upgrade that met no other has put in place by each of its steps |
| `SessionsTold` | `SessionIsTold` | records follow the tests, instruments opened are on the bus, boards shown carry the run's image |

The assumptions are about the parameters alone: what stands for nobody is nobody, bounds are
numbers, ids are of the kind the code gives them. Limits, numbers of actors, runs, boards,
projects and tests are any.

Only model-checked: that a grant covers its needs (of `GrantsHold`), `PageAddsUp`, `LinkTellsTrue`, `RestoredWhole` and the rest of
`NoticesAddUp` (the plan's last point); and, for good, every liveness property, which needs
fairness and ENABLED. What a recursive definition returns for every input is proved only
where an induction over numbers suffices, as for `GrantsKept`.

## 7. Not modelled, and why

- The portal's half (leasing to workers, sweeping silent ones, its page) is not in this
  repository: where a model needs it, it is external, as little as the node's calls
  tell of it. `Dispatcher` models the allocator over several workers, which is here.
- Of a run: the simulation stage, the details stage of an inventory run, the metrics.
- Of the node: registration and enrolment, and the holds it copies from its portal.
- Providers: the calls to outside services, and what their answers mean.
- Profiles and configuration: parsing and validation, of which a model has *valid* or
  not. To the allocator a profile is the demand it makes.
- Of the suites' runtime: MQTT, power, the simulator, what a test itself does; of
  instruments their channels and probing. Which pins can be wired is left out.
- Of the health report: each reading, which is found bad or not, and its wording.
- The MCP server, the farm client, the dashboard, the firmware of instruments,
  drawings: readers, clients, or not software.
- The loss of a direct command's answer is modelled, and the code accepts it. Two uploads of
  one bundle may store it twice: modelled in `ArtifactStore` (`AcceptChecks`, `AcceptStores`), harmless to its properties.
- Smaller things: that reconciling raises for an instrument whose target is wrong; a
  heap sampled when a test skips in its call (`pytest_plugin.py`); the dashboard's files
  one by one; releases without firmware; in `Accounts`, the look at a join token apart from
  its claim; whether a page is told once more of what it missed when nothing is new.
- `fetch_project_bundle`, the reading of manifests and the making of archives.

Abstractions worth knowing when reading a result: in `JobQueue` the waiting for
locks and the work are one phase, `executing`; in `BoardHealth` every board runs
every check; in `RigLocks` a run alone is a discovery, whose grant names no
board, and one that knows its boards but runs alone takes the same lock; in
`ArtifactStore` which of the fitting or prunable bundles is taken, and in `Retention`
how old a run is, is left open; in `SerialLink` every reply is of one kind; in
`HistoryExport` the portal files what it is sent at once; a store call either happens
or raises, never both.
