------------------------------- MODULE RigLocks -------------------------------
(***************************************************************************)
(* The files of /run/lock and what they guard.  A run alone takes the rig  *)
(* lock exclusively; one beside others takes it shared and its boards'     *)
(* locks exclusively, in id order; a chip probe tries both and waits for   *)
(* neither; whoever rewrites the inventory, and a deploy, take the rig     *)
(* lock exclusively.  Locks are flocks: the kernel drops a dead process's. *)
(*                                                                         *)
(* The inventory says on which port a board is; boards are replugged       *)
(* between discoveries.  Grants are the allocator's: no two live ones      *)
(* share a board, and one alone has no other beside it (NothingShared of   *)
(* Dispatcher).  A run alone is a discovery, whose grant names no board.   *)
(* Every actor makes one request.                                          *)
(***************************************************************************)
EXTENDS Naturals, FiniteSets, FiniteSetsExt

CONSTANTS
  Boards,    \* board ids, numbers: their order is the locking order
  Ports,     \* serial ports
  Gone,      \* where a board is that has none
  Runs, Probes, Admins,
  Alone,     \* runs that have the rig to themselves
  BoardsOf,  \* [Runs -> boards granted], for a run beside others
  BoardOf,   \* [Probes -> board], whose silicon is asked for
  Deploy,    \* update-runner.sh, as a holder of the rig lock
  Free       \* of a lock nobody holds

ASSUME RigLocksAssumption ==
  /\ Boards \subseteq Nat
  /\ Gone \notin Ports
  /\ Runs \cap Probes = {} /\ Runs \cap Admins = {} /\ Probes \cap Admins = {}
  /\ {Deploy, Free} \cap (Runs \cup Probes \cup Admins) = {} /\ Deploy # Free
  /\ Alone \subseteq Runs
  /\ BoardsOf \in [Runs -> SUBSET Boards]
  /\ BoardOf \in [Probes -> Boards]

VARIABLES
  shared,      \* actors with the rig lock shared
  exclusive,   \* the actor with the rig lock exclusively, or Free
  boardLock,   \* [Boards -> run, probe or Free]
  stage,       \* [actors -> where it is]
  opens,       \* [actors -> ports it has open]
  map,         \* [Boards -> port or Gone], the published inventory
  plugged,     \* [Boards -> port], the hardware
  looked,      \* [Probes -> port the probe read, Gone before]
  moved,       \* probes that read a map rewritten since
  deploy,      \* update-runner.sh: "none", "installing", "restarted", "over"
  restart      \* a restart of an idle rig's service: "none", "notifier" or "install" (whoever found
               \* the rig idle), "over"

vars == <<shared, exclusive, boardLock, stage, opens, map, plugged, looked, moved, deploy, restart>>

Actors == Runs \cup Probes \cup Admins
locks == <<shared, exclusive, boardLock>>
inventory == <<map, looked, moved>>
host == <<plugged, deploy, restart>>

\* Every board on a port of its own.
Placements == {p \in [Boards -> Ports] : \A a, b \in Boards : p[a] = p[b] => a = b}

Live == {r \in Runs : stage[r] \in {"claimed", "locking", "working", "leaving"}}
HeldBy(a) == {b \in Boards : boardLock[b] = a}
RigFree == shared = {} /\ exclusive = Free

Drop(who) ==
  /\ shared' = shared \ who
  /\ exclusive' = IF exclusive \in who THEN Free ELSE exclusive
  /\ boardLock' = [b \in Boards |-> IF boardLock[b] \in who THEN Free ELSE boardLock[b]]
  /\ opens' = [a \in Actors |-> IF a \in who THEN {} ELSE opens[a]]

\* A discovery publishes the boards it finds that are registered, on their ports.  The
\* map and the snapshot are rewritten together; a probe may have read the old one.
Publish ==
  /\ \E missing \in SUBSET Boards : map' = [b \in Boards |-> IF b \in missing THEN Gone ELSE plugged[b]]
  /\ moved' = moved \cup {p \in Probes : stage[p] \in {"looked", "asking", "sharing"} /\ map' # map}
  /\ UNCHANGED looked

Init ==
  /\ shared = {}
  /\ exclusive = Free
  /\ boardLock = [b \in Boards |-> Free]
  /\ stage = [a \in Actors |-> "none"]
  /\ opens = [a \in Actors |-> {}]
  /\ plugged \in Placements
  /\ map = plugged
  /\ looked = [p \in Probes |-> Gone]
  /\ moved = {}
  /\ deploy = "none"
  /\ restart = "none"

-----------------------------------------------------------------------------
(* A run's thread: _hold around _execute.                                  *)

Grant(r) ==
  /\ stage[r] = "none"
  /\ \A b \in BoardsOf[r] : map[b] # Gone
  /\ \A s \in Live : r \notin Alone /\ s \notin Alone /\ BoardsOf[r] \cap BoardsOf[s] = {}
  /\ stage' = [stage EXCEPT ![r] = "claimed"]
  /\ UNCHANGED <<locks, opens, inventory, host>>

TakeRig(r) ==
  /\ stage[r] = "claimed"
  /\ exclusive = Free
  /\ IF r \in Alone THEN shared = {} /\ exclusive' = r /\ UNCHANGED shared
                    ELSE shared' = shared \cup {r} /\ UNCHANGED exclusive
  /\ stage' = [stage EXCEPT ![r] = "locking"]
  /\ UNCHANGED <<boardLock, opens, inventory, host>>

TakeBoard(r) ==
  /\ stage[r] = "locking" /\ r \notin Alone
  /\ HeldBy(r) # BoardsOf[r]
  /\ LET b == Min(BoardsOf[r] \ HeldBy(r))
     IN  boardLock[b] = Free /\ boardLock' = [boardLock EXCEPT ![b] = r]
  /\ UNCHANGED <<shared, exclusive, stage, opens, inventory, host>>

\* Alone it rediscovers, which opens every port.  Beside others it works from the map
\* as published, and fails when a board of its grant is no longer in it.
Work(r) ==
  /\ stage[r] = "locking"
  /\ \/ /\ r \in Alone
        /\ Publish
        /\ opens' = [opens EXCEPT ![r] = Ports]
        /\ stage' = [stage EXCEPT ![r] = "working"]
        /\ UNCHANGED locks
     \/ /\ r \notin Alone /\ HeldBy(r) = BoardsOf[r]
        /\ \A b \in BoardsOf[r] : map[b] # Gone
        /\ opens' = [opens EXCEPT ![r] = {map[b] : b \in BoardsOf[r]}]
        /\ stage' = [stage EXCEPT ![r] = "working"]
        /\ UNCHANGED <<locks, inventory>>
     \/ /\ r \notin Alone /\ HeldBy(r) = BoardsOf[r]
        /\ \E b \in BoardsOf[r] : map[b] = Gone
        /\ Drop({r})
        /\ stage' = [stage EXCEPT ![r] = "leaving"]
        /\ UNCHANGED inventory
  /\ UNCHANGED host

Finish(r) ==
  /\ stage[r] = "working"
  /\ Drop({r})
  /\ stage' = [stage EXCEPT ![r] = "leaving"]
  /\ UNCHANGED <<inventory, host>>

\* _release: its reservation goes after its locks.
Release(r) ==
  /\ stage[r] = "leaving"
  /\ stage' = [stage EXCEPT ![r] = "over"]
  /\ UNCHANGED <<locks, opens, inventory, host>>

RunStep(r) == Grant(r) \/ TakeRig(r) \/ TakeBoard(r) \/ Work(r) \/ Finish(r) \/ Release(r)

-----------------------------------------------------------------------------
(* device_details.                                                         *)

LookUp(p) ==
  /\ stage[p] = "none"
  /\ map[BoardOf[p]] # Gone
  /\ looked' = [looked EXCEPT ![p] = map[BoardOf[p]]]
  /\ stage' = [stage EXCEPT ![p] = "looked"]
  /\ UNCHANGED <<locks, opens, map, moved, host>>

Reserved(p) == \E r \in Live \ Alone : BoardOf[p] \in BoardsOf[r]

\* A reserved board is refused without a look at the locks.
Ask(p) ==
  /\ stage[p] = "looked"
  /\ stage' = [stage EXCEPT ![p] = IF Reserved(p) THEN "over" ELSE "asking"]
  /\ UNCHANGED <<locks, opens, inventory, host>>

ProbeRig(p) ==
  /\ stage[p] = "asking"
  /\ IF exclusive = Free THEN shared' = shared \cup {p} /\ stage' = [stage EXCEPT ![p] = "sharing"]
                         ELSE stage' = [stage EXCEPT ![p] = "over"] /\ UNCHANGED shared
  /\ UNCHANGED <<exclusive, boardLock, opens, inventory, host>>

\* Variant: the probe asks for the rig lock only.
ProbesUnlocked(p) ==
  /\ stage[p] = "sharing"
  /\ opens' = [opens EXCEPT ![p] = {looked[p]}]
  /\ stage' = [stage EXCEPT ![p] = "working"]
  /\ UNCHANGED <<locks, inventory, host>>

ProbeBoard(p) ==
  /\ stage[p] = "sharing"
  /\ \/ /\ boardLock[BoardOf[p]] = Free
        /\ boardLock' = [boardLock EXCEPT ![BoardOf[p]] = p]
        /\ opens' = [opens EXCEPT ![p] = {looked[p]}]
        /\ stage' = [stage EXCEPT ![p] = "working"]
        /\ UNCHANGED <<shared, exclusive>>
     \/ /\ boardLock[BoardOf[p]] # Free
        /\ Drop({p})
        /\ stage' = [stage EXCEPT ![p] = "over"]
  /\ UNCHANGED <<inventory, host>>

ProbeDone(p) ==
  /\ stage[p] = "working"
  /\ Drop({p})
  /\ stage' = [stage EXCEPT ![p] = "over"]
  /\ UNCHANGED <<inventory, host>>

ProbeStep(p) == LookUp(p) \/ Ask(p) \/ ProbeRig(p) \/ ProbeBoard(p) \/ ProbeDone(p)

-----------------------------------------------------------------------------
(* Registering, unregistering, boards discover: rewriting the inventory.   *)

\* Variant: the inventory is rewritten under the shared lock.
AdminShares(a) ==
  /\ stage[a] = "none" /\ exclusive = Free
  /\ shared' = shared \cup {a}
  /\ stage' = [stage EXCEPT ![a] = "working"]
  /\ UNCHANGED <<exclusive, boardLock, opens, inventory, host>>

AdminTake(a) ==
  /\ stage[a] = "none" /\ RigFree
  /\ exclusive' = a
  /\ opens' = [opens EXCEPT ![a] = Ports]
  /\ stage' = [stage EXCEPT ![a] = "working"]
  /\ UNCHANGED <<shared, boardLock, inventory, host>>

AdminPublish(a) ==
  /\ stage[a] = "working"
  /\ Publish
  /\ Drop({a})
  /\ stage' = [stage EXCEPT ![a] = "over"]
  /\ UNCHANGED host

\* Variant: the refusal leaves the lock held.
AdminForgets(a) ==
  /\ stage[a] = "working"
  /\ stage' = [stage EXCEPT ![a] = "over"]
  /\ UNCHANGED <<locks, opens, inventory, host>>

\* The id or the MAC was taken, the board wired, the device not found: nothing changes.
AdminRefused(a) ==
  /\ stage[a] = "working"
  /\ Drop({a})
  /\ stage' = [stage EXCEPT ![a] = "over"]
  /\ UNCHANGED <<inventory, host>>

AdminStep(a) == AdminTake(a) \/ AdminPublish(a) \/ AdminRefused(a)

-----------------------------------------------------------------------------
(* Deploys, restarts and hands on the bench.                               *)

\* The service's threads die, with some of the administrators' requests; the kernel
\* drops their locks.  Its runs are recorded as failed.
ServiceDies ==
  \E requests \in SUBSET Admins :
    LET dead == Runs \cup Probes \cup requests
    IN  /\ Drop(dead)
        /\ stage' = [a \in Actors |-> IF a \in dead /\ stage[a] # "none" THEN "over" ELSE stage[a]]

DeployTake ==
  /\ deploy = "none" /\ RigFree
  /\ exclusive' = Deploy
  /\ deploy' = "installing"
  /\ UNCHANGED <<shared, boardLock, opens, stage, inventory, plugged, restart>>

\* Variant: out of patience, it goes on without the lock.
DeployGoesOn ==
  /\ deploy = "none" /\ ~RigFree
  /\ deploy' = "installing"
  /\ UNCHANGED <<locks, opens, stage, inventory, plugged, restart>>

\* flock -w: it has waited its time out and dies, nothing installed.
DeployGivesUp ==
  /\ deploy = "none" /\ ~RigFree
  /\ deploy' = "over"
  /\ UNCHANGED <<locks, opens, stage, inventory, plugged, restart>>

\* The service restarts under the lock: what it starts next waits for the deploy.
DeployRestart ==
  /\ deploy = "installing"
  /\ ServiceDies
  /\ deploy' = "restarted"
  /\ UNCHANGED <<inventory, plugged, restart>>

DeployDone ==
  /\ deploy = "restarted"
  /\ exclusive' = IF exclusive = Deploy THEN Free ELSE exclusive
  /\ deploy' = "over"
  /\ UNCHANGED <<shared, boardLock, opens, stage, inventory, plugged, restart>>

\* restart_sending_service: the rig lock without waiting, let go at once.
NotifierAsks ==
  /\ restart = "none"
  /\ restart' = IF RigFree THEN "notifier" ELSE "over"
  /\ UNCHANGED <<locks, opens, stage, inventory, plugged, deploy>>

\* install_update and the watch: no run is in progress, so the release is fetched and
\* staged, which takes minutes.
InstallAsks ==
  /\ restart = "none"
  /\ restart' = IF Live = {} THEN "install" ELSE "over"
  /\ UNCHANGED <<locks, opens, stage, inventory, plugged, deploy>>

\* Neither the notifier's restart nor the staged release's asks again.
Restart ==
  /\ restart \in {"notifier", "install"}
  /\ ServiceDies
  /\ restart' = "over"
  /\ UNCHANGED <<inventory, plugged, deploy>>

\* Boards change ports; one pulled out altogether is one the next discovery misses.
Replug ==
  /\ plugged' \in Placements \ {plugged}
  /\ UNCHANGED <<locks, opens, stage, inventory, deploy, restart>>

DeployStep == DeployTake \/ DeployGivesUp \/ DeployRestart \/ DeployDone
RestartStep == NotifierAsks \/ InstallAsks \/ Restart

Next ==
  \/ \E r \in Runs : RunStep(r)
  \/ \E p \in Probes : ProbeStep(p)
  \/ \E a \in Admins : AdminStep(a)
  \/ DeployStep \/ RestartStep \/ Replug

Spec == Init /\ [][Next]_vars

\* Every request is made and every holder of a lock comes to its end, a run by its own
\* safety limit; a run is granted, hands replug or a script starts only by chance.
Fairness ==
  /\ \A r \in Runs : WF_vars(TakeRig(r) \/ TakeBoard(r) \/ Work(r) \/ Finish(r) \/ Release(r))
  /\ \A p \in Probes : WF_vars(Ask(p) \/ ProbeRig(p) \/ ProbeBoard(p) \/ ProbeDone(p))
  /\ \A a \in Admins : WF_vars(AdminPublish(a) \/ AdminRefused(a))
  /\ WF_vars(DeployRestart \/ DeployDone)

FairSpec == Spec /\ Fairness

-----------------------------------------------------------------------------
Holders == shared \cup ({exclusive} \ {Free})

\* Every variable holds what the rest of the module takes it to hold; a working probe
\* has the port of a board that was connected.
TypeOK ==
  /\ shared \subseteq Actors
  /\ exclusive \in Actors \cup {Deploy, Free}
  /\ boardLock \in [Boards -> Runs \cup Probes \cup {Free}]
  /\ stage \in [Actors -> {"none", "claimed", "locking", "working", "leaving", "looked", "asking", "sharing", "over"}]
  /\ opens \in [Actors -> SUBSET Ports]
  /\ map \in [Boards -> Ports \cup {Gone}] /\ plugged \in Placements
  /\ looked \in [Probes -> Ports \cup {Gone}]
  /\ moved \subseteq Probes
  /\ deploy \in {"none", "installing", "restarted", "over"}
  /\ restart \in {"none", "notifier", "install", "over"}

\* No two actors have one serial port open, unless one is a probe that read its
\* board's port before the inventory was rewritten: it locks the board and opens
\* the port the board was on.
\* (And every variable is in its type.)
PortExclusive ==
  /\ TypeOK
  /\ \A a, b \in Actors : a # b /\ opens[a] \cap opens[b] # {} => {a, b} \cap moved # {}

\* While a run works beside others, the inventory says of its boards what it said when
\* the run read it: nobody rediscovers, registers or deploys beside it.
InventoryStandsStill ==
  \A r \in Runs \ Alone : stage[r] = "working" => opens[r] = {map[b] : b \in BoardsOf[r]}

\* A deploy ends no run and no probe that has the rig, however long it waits; one that
\* was started and still waits for the rig's locks it does end.
DeployEndsNoWork ==
  [][DeployRestart => Holders \subseteq {Deploy}]_vars

\* A started run gets its locks and is over in the end, whoever else asks for them:
\* nobody waits in a circle and every way out lets go.
EveryRunGetsIn == \A r \in Runs : (stage[r] = "claimed") ~> (stage[r] = "over")

\* Installing a release is refused while runs are in progress, for its restart would
\* end them: no run that has the rig is ended by one.
InstallEndsNoRun ==
  [][Restart /\ restart = "install" => \A r \in Runs : stage[r] # "working"]_vars
=============================================================================
