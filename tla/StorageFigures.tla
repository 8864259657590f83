----------------------------- MODULE StorageFigures -----------------------------
(***************************************************************************)
(* The figures of the storage page and of the artifact listing: measured   *)
(* by a thread that walks the disk for minutes while runs end, bundles are *)
(* handed over, and bundles and runs are deleted, pruned and swept.  Each  *)
(* of these first changes the disk and then says so; the figures it says   *)
(* so of are measured again at the next look.                              *)
(***************************************************************************)
EXTENDS FiniteSets

CONSTANTS
  Items,    \* what the walk measures: bundles, evidence, logs, checkouts
  Removers  \* threads that delete: requests, a prune, the sweep, ends of runs

VARIABLES
  there,     \* items on the disk
  removing,  \* [Removers -> the items it deleted and has not told of]
  generation,\* "same", or "bumped" since the measurement under way read it
  measuring, \* "no", "begun" or "walking"
  walk,      \* what its walk counted
  measured,  \* what was filed last
  fresh,     \* the filed figures count as fresh
  hushed     \* history: deleted by a thread that raised, and not told of since

vars == <<there, removing, generation, measuring, walk, measured, fresh, hushed>>

Init ==
  /\ there = Items
  /\ removing = [r \in Removers |-> {}]
  /\ generation = "same" /\ measuring = "no"
  /\ walk = {} /\ measured = {}
  /\ fresh = FALSE
  /\ hushed = {}

Deletes(r, i) ==
  /\ i \in there
  /\ there' = there \ {i}
  /\ removing' = [removing EXCEPT ![r] = @ \cup {i}]
  /\ UNCHANGED <<generation, measuring, walk, measured, fresh, hushed>>

\* Something is handed over or a run writes; a deleted item does not come back.
Appears(i) ==
  /\ i \notin there
  /\ \A r \in Removers : i \notin removing[r]
  /\ i \notin hushed \cup measured \cup walk
  /\ there' = there \cup {i}
  /\ UNCHANGED <<removing, generation, measuring, walk, measured, fresh, hushed>>

\* _storage_changed.
Tells(r) ==
  /\ removing[r] # {}
  /\ removing' = [removing EXCEPT ![r] = {}]
  /\ generation' = "bumped"
  /\ fresh' = FALSE
  /\ hushed' = {}
  /\ UNCHANGED <<there, measuring, walk, measured>>

\* A delete that stopped midway or whose record raised: nobody is told.
Raises(r) ==
  /\ removing[r] # {}
  /\ removing' = [removing EXCEPT ![r] = {}]
  /\ hushed' = hushed \cup removing[r]
  /\ UNCHANGED <<there, generation, measuring, walk, measured, fresh>>

\* Time makes fresh figures stale.
Expires ==
  /\ fresh
  /\ fresh' = FALSE
  /\ UNCHANGED <<there, removing, generation, measuring, walk, measured, hushed>>

\* Stale figures are measured, and fresh ones when that is asked for; never two at once,
\* whoever asks.
MeasureIf ==
  /\ measuring = "no"
  /\ measuring' = "begun"
  /\ UNCHANGED <<there, removing, generation, walk, measured, fresh, hushed>>

ReadsGeneration ==
  /\ measuring = "begun"
  /\ measuring' = "walking"
  /\ generation' = "same"
  /\ UNCHANGED <<there, removing, walk, measured, fresh, hushed>>

\* The disk changes under the walk: each item is met before or after.
Walks(i) ==
  /\ measuring = "walking" /\ i \in there \ walk
  /\ walk' = walk \cup {i}
  /\ UNCHANGED <<there, removing, generation, measuring, measured, fresh, hushed>>

\* The walk is over, or it raised: what it has is filed.  Variant: as fresh in any case.
FilesAsFresh ==
  /\ measuring = "walking"
  /\ measuring' = "no"
  /\ measured' = walk /\ walk' = {}
  /\ fresh' = TRUE
  /\ UNCHANGED <<there, removing, generation, hushed>>

Files ==
  /\ measuring = "walking"
  /\ measuring' = "no"
  /\ measured' = walk /\ walk' = {}
  /\ fresh' = (generation = "same")
  /\ UNCHANGED <<there, removing, generation, hushed>>

Next ==
  \/ \E r \in Removers : (\E i \in Items : Deletes(r, i)) \/ Tells(r) \/ Raises(r)
  \/ \E i \in Items : Appears(i) \/ Walks(i)
  \/ Expires \/ MeasureIf \/ ReadsGeneration \/ Files

Spec == Init /\ [][Next]_vars

-----------------------------------------------------------------------------
\* Every variable holds what the rest of the module takes it to hold.
TypeOK ==
  /\ there \cup walk \cup measured \cup hushed \subseteq Items
  /\ removing \in [Removers -> SUBSET Items]
  /\ generation \in {"same", "bumped"} /\ measuring \in {"no", "begun", "walking"}
  /\ fresh \in BOOLEAN

\* Figures that count as fresh count nothing that has gone, but for what its remover
\* has yet to tell of, or raised over and never will.
FreshCountsNoGhosts ==
  fresh => measured \ there \subseteq hushed \cup UNION {removing[r] : r \in Removers}

-----------------------------------------------------------------------------
(* What makes FreshCountsNoGhosts inductive: Files turns a walk into       *)
(* figures, so what a walk has counted is there, or owed a telling, as     *)
(* long as nobody bumped the generation it read.                           *)

\* Gone, and whoever took it has yet to tell of it or never will.
Untold == hushed \cup UNION {removing[r] : r \in Removers}

WalkIsCurrent == measuring = "walking" /\ generation = "same" => walk \ there \subseteq Untold

\* A walk counts nothing before it began.
WalkBegins == measuring # "walking" => walk = {}

Inductive == TypeOK /\ WalkBegins /\ WalkIsCurrent /\ FreshCountsNoGhosts
=============================================================================
