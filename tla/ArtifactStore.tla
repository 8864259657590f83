----------------------------- MODULE ArtifactStore -----------------------------
(***************************************************************************)
(* The bundles on a rig's disk: producers that hand them over, runs that   *)
(* name one or reuse one and link it, operators who pin, delete and prune  *)
(* them, and runs that are deleted.  Choosing a bundle, pinning, deleting  *)
(* and pruning take the artifact lock; handing one over and deleting a run *)
(* do not.  Which of the prunable bundles a rule picks (age, the newest of *)
(* a profile) is left open, and so is which of the fitting ones a run      *)
(* reuses.                                                                 *)
(***************************************************************************)
EXTENDS FiniteSets

CONSTANTS
  Bundles,   \* ids of bundles
  Jobs,      \* ids of runs
  Sent,      \* bundles producers hand over; the others were here before
  Content,   \* [Bundles -> what their manifests say]
  Names,     \* [Jobs -> the bundle its submission names, or NoBundle: reuse]
  Fits,      \* [Jobs -> bundles of its commit, profile and agent]
  BuiltHere, \* [Jobs -> the bundle a build of old left under its id, or NoBundle]
  NoBundle

VARIABLES
  disk,      \* [Bundles -> "none", "whole", or "part" (a delete that stopped midway)]
  link,      \* [Jobs -> bundle its artifacts entry links to, or NoBundle]
  pinned, told,  \* bundles with a pin, with a removal record
  row,       \* [Jobs -> "none", "queued", "running", "picked", "flashing", "over" or "gone"]
  pick,      \* [Jobs -> bundle chosen and not linked yet]
  artlock,   \* "free", "store" (a delete or prune), or the run choosing
  up,        \* [Sent -> "new", "checked" or "over"]
  rpc, todo, cur, links, dangling, taken,  \* the delete or prune: where it is, what it
             \* chose, the bundle it is at, the links as scanned, those of them that pointed
             \* at nothing, those it took away
  dpc,       \* [Jobs -> "no", or "row": its files are deleted and its row not yet]
  (* history *)
  lost       \* bundles deleted with the run that built them

places == <<disk, link>>
records == <<pinned, told>>
runs == <<row, pick>>
remover == <<rpc, todo, cur, links, dangling, taken>>
vars == <<disk, link, pinned, told, row, pick, artlock, up, rpc, todo, cur, links, dangling,
          taken, dpc, lost>>

Here(b) == disk[b] # "none"
Working == {"queued", "running", "picked", "flashing"}

\* A queued or running job that built or linked it.
Held(b) == \E j \in Jobs : row[j] \in Working /\ b \in {link[j], BuiltHere[j]}

NoLinks == [j \in Jobs |-> NoBundle]

Init ==
  /\ disk = [b \in Bundles |-> IF b \in Sent THEN "none" ELSE "whole"]
  /\ link = NoLinks
  /\ pinned = {} /\ told = {}
  /\ row = [j \in Jobs |-> IF BuiltHere[j] = NoBundle THEN "none" ELSE "over"]
  /\ pick = NoLinks
  /\ artlock = "free"
  /\ up = [b \in Sent |-> "new"]
  /\ rpc = "idle" /\ todo = {} /\ cur = NoBundle /\ links = NoLinks /\ dangling = {} /\ taken = {}
  /\ dpc = [j \in Jobs |-> "no"]
  /\ lost = {}

-----------------------------------------------------------------------------
(* A producer hands a bundle over.                                         *)

Same(b) == {c \in Bundles : Here(c) /\ Content[c] = Content[b]}

\* A bundle checked and found new; one already held is answered with what is held.  Two
\* handed over at once are each found new, and both are stored.
AcceptChecks(b) ==
  /\ up[b] = "new"
  /\ up' = [up EXCEPT ![b] = IF Same(b) = {} THEN "checked" ELSE "over"]
  /\ UNCHANGED <<places, records, runs, artlock, remover, dpc, lost>>

AcceptStores(b) ==
  /\ up[b] = "checked"
  /\ up' = [up EXCEPT ![b] = "over"]
  /\ disk' = [disk EXCEPT ![b] = "whole"]
  /\ UNCHANGED <<link, records, runs, artlock, remover, dpc, lost>>

-----------------------------------------------------------------------------
(* A run: submitted for a bundle that is there, which it holds only once it*)
(* has linked it.                                                          *)

Submit(j) ==
  /\ row[j] = "none"
  /\ \E b \in (IF Names[j] # NoBundle THEN {Names[j]} ELSE Fits[j]) : Here(b)
  /\ row' = [row EXCEPT ![j] = "queued"]
  /\ UNCHANGED <<places, records, pick, artlock, up, remover, dpc, lost>>

Start(j) ==
  /\ row[j] = "queued"
  /\ row' = [row EXCEPT ![j] = "running"]
  /\ UNCHANGED <<places, records, pick, artlock, up, remover, dpc, lost>>

\* Variant: the choice is made and kept outside the lock.
PicksUnlocked(j) ==
  /\ row[j] = "running"
  /\ \E b \in (IF Names[j] # NoBundle THEN {Names[j]} ELSE Fits[j]) :
       /\ Here(b)
       /\ pick' = [pick EXCEPT ![j] = b]
  /\ row' = [row EXCEPT ![j] = "picked"]
  /\ UNCHANGED <<places, records, artlock, up, remover, dpc, lost>>

\* What is left of a bundle may still have its manifest, and its images.
Picks(j) ==
  /\ row[j] = "running" /\ artlock = "free"
  /\ \E b \in (IF Names[j] # NoBundle THEN {Names[j]} ELSE Fits[j]) :
       /\ Here(b)
       /\ pick' = [pick EXCEPT ![j] = b]
  /\ row' = [row EXCEPT ![j] = "picked"]
  /\ artlock' = j
  /\ UNCHANGED <<places, records, up, remover, dpc, lost>>

FindsNone(j) ==
  /\ row[j] = "running" /\ artlock = "free"
  /\ \A b \in (IF Names[j] # NoBundle THEN {Names[j]} ELSE Fits[j]) : disk[b] # "whole"
  /\ row' = [row EXCEPT ![j] = "over"]
  /\ UNCHANGED <<places, records, pick, artlock, up, remover, dpc, lost>>

Links(j) ==
  /\ row[j] = "picked"
  /\ link' = [link EXCEPT ![j] = pick[j]]
  /\ pick' = [pick EXCEPT ![j] = NoBundle]
  /\ row' = [row EXCEPT ![j] = "flashing"]
  /\ artlock' = IF artlock = j THEN "free" ELSE artlock
  /\ UNCHANGED <<disk, records, up, remover, dpc, lost>>

\* The run ends; its link stays and says what it flashed.
Ends(j) ==
  /\ row[j] \in {"queued", "running", "flashing"}
  /\ row' = [row EXCEPT ![j] = "over"]
  /\ UNCHANGED <<places, records, pick, artlock, up, remover, dpc, lost>>

\* Deleting a finished run takes no lock: its link goes, or the directory of that name.
DeletesFiles(j) ==
  /\ row[j] = "over" /\ dpc[j] = "no"
  /\ dpc' = [dpc EXCEPT ![j] = "row"]
  /\ IF link[j] # NoBundle
     THEN link' = [link EXCEPT ![j] = NoBundle] /\ UNCHANGED <<disk, lost>>
     ELSE /\ \E left \in {"none", "part"} :
               disk' = [b \in Bundles |-> IF b = BuiltHere[j] /\ Here(b) THEN left ELSE disk[b]]
          /\ lost' = lost \cup ({BuiltHere[j]} \ {NoBundle})
          /\ UNCHANGED link
  /\ UNCHANGED <<records, runs, artlock, up, remover>>

DeletesRow(j) ==
  /\ dpc[j] = "row"
  /\ dpc' = [dpc EXCEPT ![j] = "no"]
  /\ row' = [row EXCEPT ![j] = "gone"]
  /\ UNCHANGED <<places, records, pick, artlock, up, remover, lost>>

-----------------------------------------------------------------------------
(* Operators: pins, a delete of one bundle, a prune of those a rule picks. *)

Pin(b) ==
  /\ artlock = "free" /\ Here(b) /\ b \notin pinned
  /\ pinned' = pinned \cup {b}
  /\ UNCHANGED <<places, told, runs, artlock, up, remover, dpc, lost>>

Unpin(b) ==
  /\ artlock = "free" /\ Here(b) /\ b \in pinned
  /\ pinned' = pinned \ {b}
  /\ UNCHANGED <<places, told, runs, artlock, up, remover, dpc, lost>>

\* What select_prunable may pick from, and delete_artifact does not refuse.
Prunable == {b \in Bundles : Here(b) /\ b \notin pinned /\ ~Held(b)}

\* One request or prune at a time: the lock is held until all that was chosen is gone.
Chooses ==
  /\ artlock = "free" /\ rpc = "idle"
  /\ \E S \in SUBSET Prunable \ {{}} : todo' = S
  /\ artlock' = "store"
  /\ links' = [j \in Jobs |-> IF link[j] # NoBundle /\ Here(link[j]) THEN link[j] ELSE NoBundle]
  /\ dangling' = {j \in Jobs : link[j] # NoBundle /\ ~Here(link[j])}
  /\ rpc' = "next"
  /\ UNCHANGED <<places, records, runs, up, cur, taken, dpc, lost>>

\* Links first, so that no run points at nothing.  Variant: left where they are.
KeepsLinks(b) ==
  /\ rpc = "next" /\ b \in todo /\ Here(b)
  /\ todo' = todo \ {b}
  /\ cur' = b
  /\ taken' = {}
  /\ rpc' = "tree"
  /\ UNCHANGED <<places, records, runs, artlock, up, links, dangling, dpc, lost>>

TakesLinks(b) ==
  /\ rpc = "next" /\ b \in todo /\ Here(b)
  /\ todo' = todo \ {b}
  /\ cur' = b
  /\ taken' = {j \in Jobs : links[j] = b /\ link[j] # NoBundle}
  /\ link' = [j \in Jobs |-> IF j \in taken' THEN NoBundle ELSE link[j]]
  /\ rpc' = "tree"
  /\ UNCHANGED <<disk, records, runs, artlock, up, links, dangling, dpc, lost>>

\* It went with the run that built it: an error on this bundle only.
AlreadyGone(b) ==
  /\ rpc = "next" /\ b \in todo /\ ~Here(b)
  /\ todo' = todo \ {b}
  /\ UNCHANGED <<places, records, runs, artlock, up, rpc, cur, links, dangling, taken, dpc, lost>>

RemovesTree ==
  /\ rpc = "tree" /\ Here(cur)
  /\ disk' = [disk EXCEPT ![cur] = "none"]
  /\ taken' = {}
  /\ rpc' = "tell"
  /\ UNCHANGED <<link, records, runs, artlock, up, todo, cur, links, dangling, dpc, lost>>

\* The delete stops midway, or somebody else's was first: the links come back, the
\* error is reported.
TreeStays ==
  /\ rpc = "tree"
  /\ disk' \in {disk} \cup (IF Here(cur) THEN {[disk EXCEPT ![cur] = "part"]} ELSE {})
  /\ link' = [j \in Jobs |-> IF j \in taken THEN cur ELSE link[j]]
  /\ taken' = {} /\ cur' = NoBundle
  /\ rpc' = "next"
  /\ UNCHANGED <<records, runs, artlock, up, todo, links, dangling, dpc, lost>>

\* The record also clears the pin.  It may fail to be written.
Records ==
  /\ rpc = "tell"
  /\ \/ told' = told \cup {cur} /\ pinned' = pinned \ {cur}
     \/ UNCHANGED records
  /\ cur' = NoBundle
  /\ rpc' = "next"
  /\ UNCHANGED <<places, runs, artlock, up, todo, links, dangling, taken, dpc, lost>>

\* A prune also takes the links that pointed at nothing when it looked, and still do.
LetsGo ==
  /\ rpc = "next" /\ todo = {}
  /\ \/ UNCHANGED link
     \/ link' = [j \in Jobs |-> IF j \in dangling /\ link[j] # NoBundle /\ ~Here(link[j])
                               THEN NoBundle ELSE link[j]]
  /\ rpc' = "idle" /\ links' = NoLinks /\ dangling' = {}
  /\ artlock' = "free"
  /\ UNCHANGED <<disk, records, runs, up, todo, cur, taken, dpc, lost>>

Removes ==
  \/ Chooses \/ RemovesTree \/ TreeStays \/ Records \/ LetsGo
  \/ \E b \in Bundles : TakesLinks(b) \/ AlreadyGone(b)

-----------------------------------------------------------------------------
\* The service dies and comes back: threads and the lock are gone, what ran has
\* failed, and a delete may have stopped anywhere inside the bundle.
Crash ==
  /\ artlock # "free" \/ \E j \in Jobs : row[j] \in {"running", "flashing"}
  /\ row' = [j \in Jobs |-> IF row[j] \in {"running", "picked", "flashing"} THEN "over" ELSE row[j]]
  /\ pick' = NoLinks
  /\ artlock' = "free"
  /\ up' = [b \in Sent |-> IF up[b] = "checked" THEN "over" ELSE up[b]]
  /\ rpc' = "idle" /\ todo' = {} /\ cur' = NoBundle /\ links' = NoLinks /\ dangling' = {} /\ taken' = {}
  /\ disk' \in {disk} \cup (IF rpc = "tree" /\ Here(cur) THEN {[disk EXCEPT ![cur] = "part"]} ELSE {})
  /\ dpc' = [j \in Jobs |-> "no"]
  /\ UNCHANGED <<link, records, lost>>

Next ==
  \/ \E b \in Sent : AcceptChecks(b) \/ AcceptStores(b)
  \/ \E j \in Jobs : Submit(j) \/ Start(j) \/ Picks(j) \/ FindsNone(j) \/ Links(j) \/ Ends(j)
                       \/ DeletesFiles(j) \/ DeletesRow(j)
  \/ \E b \in Bundles : Pin(b) \/ Unpin(b)
  \/ Removes
  \/ Crash

Spec == Init /\ [][Next]_vars

-----------------------------------------------------------------------------
\* Every variable holds what the rest of the module takes it to hold.
TypeOK ==
  /\ disk \in [Bundles -> {"none", "whole", "part"}]
  /\ link \in [Jobs -> Bundles \cup {NoBundle}]
  /\ pinned \cup told \cup todo \cup lost \subseteq Bundles
  /\ row \in [Jobs -> {"none", "over", "gone"} \cup Working]
  /\ pick \in [Jobs -> Bundles \cup {NoBundle}]
  /\ artlock \in {"free", "store"} \cup Jobs
  /\ up \in [Sent -> {"new", "checked", "over"}]
  /\ rpc \in {"idle", "next", "tree", "tell"}
  /\ cur \in Bundles \cup {NoBundle}
  /\ links \in [Jobs -> Bundles \cup {NoBundle}]
  /\ taken \cup dangling \subseteq Jobs
  /\ dpc \in [Jobs -> {"no", "row"}]

\* Of every step: while a run flashes, its link and the bundle behind it stay as they are:
\* no delete and no prune that judged the bundle free takes it, whatever their order.  A
\* bundle built by a run of old goes when that run is deleted.
FlashingKeepsItsBundle ==
  \A j \in Jobs : row[j] = "flashing" /\ row'[j] = "flashing" /\ link[j] # NoBundle =>
    \/ link'[j] = link[j] /\ disk'[link[j]] = disk[link[j]]
    \/ link[j] \in lost'

\* No run's artifacts entry points at nothing, at any moment of a delete, through its
\* failure and a restart; nor while a delete is under way does a running run pick it.
NothingPointsNowhere ==
  \A j \in Jobs : \A b \in {link[j], pick[j]} \ {NoBundle} : Here(b) \/ b \in lost

-----------------------------------------------------------------------------
(* What makes both inductive.                                              *)

\* The lock is a run's from its choice to its link, and a delete's from its choice to its end;
\* a run that is deleted is over.
LockIsHeld ==
  /\ \A j \in Jobs :
       /\ row[j] = "picked" <=> artlock = j
       /\ row[j] # "picked" => pick[j] = NoBundle
       /\ dpc[j] = "row" => row[j] = "over"
  /\ rpc # "idle" <=> artlock = "store"

\* What is handed over is not there before, and comes back for no run of old.
NewIsNew ==
  /\ \A b \in Sent : up[b] # "over" => disk[b] = "none"
  /\ lost \cap Sent = {}

\* A run has no link, and none was scanned, before it flashes.
NoLinkYet ==
  \A j \in Jobs : row[j] \in {"none", "queued", "running", "picked"} =>
    link[j] = NoBundle /\ links[j] = NoBundle

\* While a delete has the lock, links are as it scanned them, or went, or point at what is
\* gone for good; none of a flashing run's is of a bundle it chose.
ScanStands ==
  rpc # "idle" =>
    \A j \in Jobs : /\ link[j] \in {NoBundle, links[j]} \/ ~Here(link[j])
                    /\ row[j] = "flashing" => link[j] \notin todo

\* A delete is at one of the bundles until it has told of it.
AtOne == rpc \in {"tree", "tell"} => cur \in Bundles

\* Between its links and its tree, a bundle has no link; those it took away can come back.
LinksFirst ==
  rpc = "tree" =>
    /\ cur \notin todo /\ (Here(cur) \/ cur \in lost)
    /\ \A j \in Jobs : link[j] # cur
    /\ \A j \in taken : link[j] = NoBundle /\ links[j] = cur

Inductive ==
  /\ TypeOK /\ AtOne /\ LockIsHeld /\ NewIsNew /\ NoLinkYet /\ ScanStands /\ LinksFirst
  /\ NothingPointsNowhere
=============================================================================
