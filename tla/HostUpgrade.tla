------------------------------ MODULE HostUpgrade ------------------------------
(***************************************************************************)
(* A release of packages on a host: staged by the service, file by file,   *)
(* into a directory of its own and asked for when it was checked;          *)
(* installed from there by the update unit, or by hand from elsewhere:     *)
(* the wheels, the dashboard, and the health check's firmware, which goes  *)
(* to the bundle store and is pinned.  The unit also stamps the version    *)
(* and restarts the service.  What a restart leaves of running runs is     *)
(* RigLocks', what the owner is told of an update NodeUpdates'.            *)
(***************************************************************************)
EXTENDS Naturals, Sequences

CONSTANTS
  Releases,   \* numbers above 0, by version; the host starts with release 1
  Carries,    \* [Releases -> the firmware it was built with]
  Stagers,    \* threads that stage a release
  MaxCalls    \* bound: stagings, upgrades and changes of a pin together

Upgraders == {"unit", "hand"}
Files == <<"packages", "dashboard", "firmware">>  \* packages: the wheels, and the document
FileNames == {"packages", "dashboard", "firmware"}
Mixed == 0  \* no release: parts of two, or of a damaged one

VARIABLES
  newest,    \* the release GitHub offers
  dir,       \* [Releases -> [FileNames -> "none", "whole" or "damaged"]]
  staging,   \* _update_staging
  stager,    \* [Stagers -> what it stages, or Idle]
  request,   \* the release in request.json, or 0
  upgrade,   \* [Upgraders -> the upgrade under way, or Idle]
  venv, web, \* the release of the packages and of the dashboard, or Mixed
  stamped, running,  \* version.json; the code the service was started with
  listed,    \* firmwares in the bundle store
  pins,      \* those pinned, in the order they last were
  calls      \* how many were begun

vars == <<newest, dir, staging, stager, request, upgrade, venv, web, stamped, running, listed,
          pins, calls>>
disk == <<venv, web, stamped>>
store == <<listed, pins>>

Idle == [at |-> "idle"]
Is(u, at) == upgrade[u].at = at
Other(u) == IF u = "unit" THEN "hand" ELSE "unit"
Firmwares == {Carries[r] : r \in Releases}
Counted == calls < MaxCalls /\ calls' = calls + 1

Init ==
  /\ newest = 1 /\ request = 0 /\ staging = FALSE
  /\ dir = [r \in Releases |-> [f \in FileNames |-> "none"]]
  /\ stager = [s \in Stagers |-> Idle] /\ upgrade = [u \in Upgraders |-> Idle]
  /\ venv = 1 /\ web = 1 /\ stamped = 1 /\ running = 1
  /\ listed = {Carries[1]} /\ pins = <<Carries[1]>>
  /\ calls = 0

-----------------------------------------------------------------------------
(* Staging. *)

Published(r) ==
  /\ r > newest /\ newest' = r
  /\ UNCHANGED <<dir, staging, stager, request, upgrade, disk, running, store, calls>>

\* install_update, or the watch of an owner who wants them on their own, of a host that runs
\* something older by its version.json.
Looks(s) ==
  /\ stager[s] = Idle /\ ~staging /\ newest > stamped
  /\ stager' = [stager EXCEPT ![s] = [at |-> "starts", release |-> newest, file |-> 1]]
  /\ Counted
  /\ UNCHANGED <<newest, dir, staging, request, upgrade, disk, running, store>>

Starts(s) ==
  /\ stager[s].at = "starts"
  /\ staging' = TRUE
  /\ stager' = [stager EXCEPT ![s].at = "fetches"]
  /\ UNCHANGED <<newest, dir, request, upgrade, disk, running, store, calls>>

\* An upgrade whose files are written while it is at them is met by that.
Met(r) == [u \in Upgraders |-> IF u = "unit" /\ upgrade[u] # Idle /\ upgrade[u].release = r
                               THEN [upgrade[u] EXCEPT !.restaged = TRUE] ELSE upgrade[u]]

\* A file that came is written over the one of that name, which begins with cutting it off.
Fetches(s) ==
  /\ stager[s].at = "fetches"
  /\ LET r == stager[s].release IN
     /\ dir' = [dir EXCEPT ![r][Files[stager[s].file]] = "damaged"]
     /\ upgrade' = Met(r)
  /\ stager' = [stager EXCEPT ![s].at = "writes"]
  /\ UNCHANGED <<newest, staging, request, disk, running, store, calls>>

\* What came may be something else.
Written(s) ==
  /\ stager[s].at = "writes"
  /\ LET r == stager[s].release  k == stager[s].file IN
     /\ \E what \in {"whole", "damaged"} : dir' = [dir EXCEPT ![r][Files[k]] = what]
     /\ upgrade' = Met(r)
     /\ stager' = [stager EXCEPT ![s] = IF k = Len(Files) THEN [@ EXCEPT !.at = "checks"]
                                        ELSE [@ EXCEPT !.at = "fetches", !.file = k + 1]]
  /\ UNCHANGED <<newest, staging, request, disk, running, store, calls>>

Whole(r) == \A f \in FileNames : dir[r][f] = "whole"

Checks(s) ==
  /\ stager[s].at = "checks" /\ Whole(stager[s].release)
  /\ stager' = [stager EXCEPT ![s].at = "asks"]
  /\ UNCHANGED <<newest, dir, staging, request, upgrade, disk, running, store, calls>>

\* Last: the path unit starts the install the moment the request exists.
Asks(s) ==
  /\ stager[s].at = "asks"
  /\ request' = stager[s].release
  /\ stager' = [stager EXCEPT ![s] = Idle] /\ staging' = FALSE
  /\ UNCHANGED <<newest, dir, upgrade, disk, running, store, calls>>

\* A download that fails, a file that is not what the document says, a directory taken away.
StagingFails(s) ==
  /\ stager[s].at = "fetches" \/ (stager[s].at = "checks" /\ ~Whole(stager[s].release))
  /\ stager' = [stager EXCEPT ![s] = Idle] /\ staging' = FALSE
  /\ UNCHANGED <<newest, dir, request, upgrade, disk, running, store, calls>>

-----------------------------------------------------------------------------
(* An upgrade. *)

Goes(u, at) == upgrade' = [upgrade EXCEPT ![u].at = at]
Begins(u, r, at) ==
  /\ upgrade[u] = Idle
  /\ upgrade' = [v \in Upgraders |->
       IF v = u THEN [at |-> at, release |-> r, file |-> 1, restaged |-> FALSE, pinning |-> FALSE,
                      alone |-> upgrade[Other(u)] = Idle]
       ELSE IF upgrade[v] = Idle THEN Idle ELSE [upgrade[v] EXCEPT !.alone = FALSE]]
  /\ Counted

UnitTakes ==
  /\ request # 0 /\ request' = 0
  /\ Begins("unit", request, "reads")
  /\ UNCHANGED <<newest, dir, staging, stager, disk, running, store>>

\* By hand, from a directory or from the portal, with a web root to unpack into.
HandBegins(r) ==
  /\ Begins("hand", r, "wheels")
  /\ UNCHANGED <<newest, dir, staging, stager, request, disk, running, store>>

\* Nothing is installed until every file is what the release says it is.
\* Variant: the document and the packages alone are looked at.
FitsPackages(r, k) == dir[r][Files[k]] = "whole" \/ k > 1
Fits(r, k) == dir[r][Files[k]] = "whole"

Reads ==
  LET k == upgrade["unit"].file  r == upgrade["unit"].release IN
  /\ Is("unit", "reads") /\ Fits(r, k)
  /\ upgrade' = [upgrade EXCEPT !["unit"] = IF k = Len(Files) THEN [@ EXCEPT !.at = "wheels"]
                                            ELSE [@ EXCEPT !.file = k + 1]]
  /\ UNCHANGED <<newest, dir, staging, stager, request, disk, running, store, calls>>

PipStarts(u) ==
  /\ Is(u, "wheels") /\ venv' = Mixed
  /\ Goes(u, "pip")
  /\ UNCHANGED <<newest, dir, staging, stager, request, web, stamped, running, store, calls>>

\* Beside another pip, either's packages or some of each.
PipEnds(u) ==
  /\ Is(u, "pip")
  /\ venv' \in {upgrade[u].release} \cup IF Is(Other(u), "pip") THEN {Mixed} ELSE {}
  /\ Goes(u, IF u = "hand" THEN "dashboard" ELSE "firmware")
  /\ UNCHANGED <<newest, dir, staging, stager, request, web, stamped, running, store, calls>>

\* By hand from what was read and checked; by the unit from the directory, as it is then.
Dashboard(u) ==
  /\ Is(u, "dashboard")
  /\ web' = IF u = "hand" \/ dir[upgrade[u].release]["dashboard"] = "whole"
              THEN upgrade[u].release ELSE Mixed
  /\ Goes(u, IF u = "hand" THEN "firmware" ELSE "stamps")
  /\ UNCHANGED <<newest, dir, staging, stager, request, venv, stamped, running, store, calls>>

Revision(u) == Carries[upgrade[u].release]
AfterFirmware(u) == IF u = "hand" THEN "ends" ELSE "dashboard"

\* Variant: firmware that is there already is left as it is.
FindsIt(u) ==
  /\ Is(u, "firmware") /\ Revision(u) \in listed
  /\ Goes(u, AfterFirmware(u))
  /\ UNCHANGED <<newest, dir, staging, stager, request, disk, running, store, calls>>
Finds(u) ==
  /\ Is(u, "firmware") /\ Revision(u) \in listed
  /\ upgrade' = [upgrade EXCEPT ![u].at = "pins", ![u].pinning = TRUE]
  /\ UNCHANGED <<newest, dir, staging, stager, request, disk, running, store, calls>>

\* Under a name the store does not list; then in its place in one step.
Unpacks(u) ==
  /\ Is(u, "firmware") /\ Revision(u) \notin listed
  /\ Goes(u, "places")
  /\ UNCHANGED <<newest, dir, staging, stager, request, disk, running, store, calls>>

Places(u) ==
  /\ Is(u, "places")
  /\ listed' = listed \cup {Revision(u)}
  /\ upgrade' = [upgrade EXCEPT ![u].at = "pins", ![u].pinning = TRUE]
  /\ UNCHANGED <<newest, dir, staging, stager, request, disk, running, pins, calls>>

Unpinned(f) ==
  IF \E i \in DOMAIN pins : pins[i] = f
    THEN LET i == CHOOSE i \in DOMAIN pins : pins[i] = f
         IN  [k \in 1 .. Len(pins) - 1 |-> pins[IF k < i THEN k ELSE k + 1]]
    ELSE pins
Pinned(f) == Append(Unpinned(f), f)

Pins(u) ==
  /\ Is(u, "pins")
  /\ pins' = Pinned(Revision(u))
  /\ Goes(u, AfterFirmware(u))
  /\ UNCHANGED <<newest, dir, staging, stager, request, disk, running, listed, calls>>

\* version.json, by the unit itself or the installer of the release's tag, which also puts
\* that release's dashboard in place.
Stamps ==
  /\ Is("unit", "stamps")
  /\ stamped' = upgrade["unit"].release
  /\ web' \in {web, upgrade["unit"].release}
  /\ Goes("unit", "restarts")
  /\ UNCHANGED <<newest, dir, staging, stager, request, venv, running, store, calls>>

\* A start of the service: what was being staged is not any more.
ServiceStarts ==
  /\ running' = venv
  /\ staging' = FALSE /\ stager' = [s \in Stagers |-> Idle]

UnitRestarts ==
  /\ Is("unit", "restarts") /\ ServiceStarts
  /\ Goes("unit", "cleans")
  /\ UNCHANGED <<newest, dir, request, disk, store, calls>>

\* The directories of other releases go.
Cleans ==
  /\ Is("unit", "cleans")
  /\ dir' = [r \in Releases |-> IF r = upgrade["unit"].release THEN dir[r]
                                ELSE [f \in FileNames |-> "none"]]
  /\ stager' = [s \in Stagers |->
       IF stager[s].at \in {"fetches", "writes", "checks"} /\ stager[s].release # upgrade["unit"].release
         THEN [stager[s] EXCEPT !.at = "checks"] ELSE stager[s]]
  /\ upgrade' = [upgrade EXCEPT !["unit"] = Idle]
  /\ UNCHANGED <<newest, staging, request, disk, running, store, calls>>

HandEnds ==
  /\ Is("hand", "ends")
  /\ upgrade' = [upgrade EXCEPT !["hand"] = Idle]
  /\ UNCHANGED <<newest, dir, staging, stager, request, disk, running, store, calls>>

\* Refused, failed or killed, wherever it is: what was done stays.
UpgradeStops(u) ==
  /\ upgrade[u] # Idle
  /\ upgrade' = [upgrade EXCEPT ![u] = Idle]
  /\ UNCHANGED <<newest, dir, staging, stager, request, disk, running, store, calls>>

-----------------------------------------------------------------------------
(* The service and its operator. *)

Restart ==
  /\ ServiceStarts
  /\ UNCHANGED <<newest, dir, request, upgrade, disk, store, calls>>

\* An upgrade that has its firmware in place, or found it there, is met by what is done to
\* the store until it ends.
Disturbed == [u \in Upgraders |-> IF upgrade[u] # Idle /\ upgrade[u].pinning
                                  THEN [upgrade[u] EXCEPT !.alone = FALSE] ELSE upgrade[u]]

Operator(f) ==
  /\ Counted
  /\ f \in listed
  /\ pins' \in {Pinned(f), Unpinned(f)}
  /\ upgrade' = Disturbed
  /\ UNCHANGED <<newest, dir, staging, stager, request, disk, running, listed>>

\* Pruned or deleted, which pinned bundles are not.
Deletes(f) ==
  /\ f \in listed \ {pins[i] : i \in DOMAIN pins}
  /\ listed' = listed \ {f}
  /\ upgrade' = Disturbed
  /\ UNCHANGED <<newest, dir, staging, stager, request, disk, running, pins, calls>>

Next ==
  \/ \E r \in Releases : Published(r) \/ HandBegins(r)
  \/ \E s \in Stagers : Looks(s) \/ Starts(s) \/ Fetches(s) \/ Written(s) \/ Checks(s) \/ Asks(s)
                        \/ StagingFails(s)
  \/ UnitTakes \/ Reads \/ Stamps \/ UnitRestarts \/ Cleans \/ HandEnds
  \/ \E u \in Upgraders : PipStarts(u) \/ PipEnds(u) \/ Dashboard(u) \/ Finds(u) \/ Unpacks(u)
                          \/ Places(u) \/ Pins(u) \/ UpgradeStops(u)
  \/ Restart
  \/ \E f \in Firmwares : Operator(f) \/ Deletes(f)

Spec == Init /\ [][Next]_vars

-----------------------------------------------------------------------------
\* current_canary: the newest pinned bundle of those there are.
Present == {i \in DOMAIN pins : pins[i] \in listed}
Current == IF Present = {} THEN "none" ELSE pins[CHOOSE i \in Present : \A k \in Present : k <= i]

Staging == [at : {"starts", "fetches", "writes", "checks", "asks"}, release : Releases, file : 1 .. Len(Files)]
Underway == [at : {"reads", "wheels", "pip", "dashboard", "firmware", "places", "pins", "stamps", "restarts",
                   "cleans", "ends"},
             release : Releases, file : 1 .. Len(Files), restaged : BOOLEAN, pinning : BOOLEAN, alone : BOOLEAN]

\* Every variable holds what the rest of the module takes it to hold.
TypeOK ==
  /\ newest \in Releases /\ request \in {0} \cup Releases
  /\ dir \in [Releases -> [FileNames -> {"none", "whole", "damaged"}]]
  /\ stager \in [Stagers -> {Idle} \cup Staging]
  /\ upgrade \in [Upgraders -> {Idle} \cup Underway]
  /\ {venv, web, running} \subseteq {Mixed} \cup Releases /\ stamped \in Releases
  /\ listed \subseteq Firmwares /\ pins \in Seq(Firmwares)
  /\ \A i, k \in DOMAIN pins : i # k => pins[i] # pins[k]

\* An upgrade that says it is done, with no other beside it, no pin changed and no bundle
\* deleted since it saw to the firmware, leaves a host whose packages, dashboard and current
\* health check are those of its release; the unit's also the code that runs and the version
\* that is stamped.  A release staged again meanwhile may spoil the dashboard, which the unit
\* unpacks from the directory.
UpgradedWhole ==
  \A u \in Upgraders : upgrade[u].at \in {"ends", "cleans"} /\ upgrade[u].alone =>
    LET r == upgrade[u].release IN
    /\ venv = r /\ Current = Carries[r]
    /\ web = r \/ upgrade[u].restaged
    /\ u = "unit" => stamped = r /\ running = r

\* What makes UpgradedWhole inductive: what an upgrade that met nothing has done when it is
\* at a step, in the order of the unit's or of the one by hand.
AfterPip == {"dashboard", "firmware", "places", "pins", "stamps", "restarts", "cleans", "ends"}
AfterPins(u) == IF u = "hand" THEN {"ends"} ELSE {"dashboard", "stamps", "restarts", "cleans"}
AfterWeb(u) == IF u = "hand" THEN {"firmware", "places", "pins", "ends"} ELSE {"stamps", "restarts", "cleans"}

Done(u) ==
  LET r == upgrade[u].release IN
  /\ upgrade[u].at \in AfterPip => venv = r
  /\ Is(u, "pins") => Revision(u) \in listed
  /\ upgrade[u].at \in AfterPins(u) => Revision(u) \in listed /\ pins # <<>> /\ pins[Len(pins)] = Revision(u)
  /\ upgrade[u].at \in AfterWeb(u) => web = r \/ upgrade[u].restaged
  /\ upgrade[u].at \in {"restarts", "cleans"} => stamped = r
  /\ Is(u, "cleans") => running = r

InOrder(u) ==
  /\ upgrade[u].at \notin (IF u = "unit" THEN {"ends"} ELSE {"reads", "stamps", "restarts", "cleans"})
  /\ upgrade[u].at \in {"pins"} \cup AfterPins(u) => upgrade[u].pinning
  /\ u = "unit" /\ ~upgrade[u].restaged /\ (~Is(u, "reads") \/ upgrade[u].file = Len(Files)) =>
       dir[upgrade[u].release]["dashboard"] = "whole"
  /\ upgrade[u].alone => upgrade[Other(u)] = Idle /\ Done(u)

Inductive == TypeOK /\ \A u \in Upgraders : upgrade[u] # Idle => InOrder(u)
=============================================================================
