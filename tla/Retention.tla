------------------------------- MODULE Retention -------------------------------
(***************************************************************************)
(* What runs leave on the disk and what takes it away: the end of a run,   *)
(* the daily sweep, which acts on a plan it made before, and the deletion  *)
(* of a run.  How old a run is, and a checkout, is left open.              *)
(***************************************************************************)
EXTENDS Naturals, FiniteSets

CONSTANTS
  Runs,     \* a set of numbers: runs in the order they are created
  Newest,   \* runs whose evidence is kept whatever their age
  MaxCuts   \* bound of the model: how often the service dies or a write raises

VARIABLES
  job,      \* [Runs -> "none", "queued", "running", "ending", "over" or "gone"]
  aged,     \* runs older than the retention
  files,    \* [Runs -> what is there of "captures", "emptied", "log" and "checkout"]
  noted,    \* what a run's page says was removed: pairs of a run and a kind
  spc, plan, at,  \* the sweep: where it is, the items of its plan left, its item
  erasing,  \* runs whose files are deleted and whose row is not yet
  cuts

store == <<job, aged, files, noted>>
sweep == <<spc, plan, at>>
vars == <<job, aged, files, noted, spc, plan, at, erasing, cuts>>

Kinds == {"captures", "log", "checkout"}
Items == Runs \X Kinds
There == {i \in Items : i[2] \in files[i[1]]}
Rows == {j \in Runs : job[j] \notin {"none", "gone"}}
NewestRuns == {j \in Rows : Cardinality({k \in Rows : k > j}) < Newest}
NoItem == <<0, "none">>

Init ==
  /\ job = [j \in Runs |-> "none"] /\ aged = {}
  /\ files = [j \in Runs |-> {}] /\ noted = {}
  /\ spc = "idle" /\ plan = {} /\ at = NoItem
  /\ erasing = {}
  /\ cuts = 0

-----------------------------------------------------------------------------
(* Runs.                                                                   *)

Submits(j) ==
  /\ job[j] = "none" /\ \A k \in Runs : k < j => job[k] # "none"
  /\ job' = [job EXCEPT ![j] = "queued"]
  /\ UNCHANGED <<aged, files, noted, sweep, erasing, cuts>>

Runs_(j) ==
  /\ job[j] = "queued"
  /\ job' = [job EXCEPT ![j] = "running"]
  /\ files' = [files EXCEPT ![j] = Kinds]
  /\ UNCHANGED <<aged, noted, sweep, erasing, cuts>>

\* Its row is settled, then its checkout goes.
Settles(j) ==
  /\ job[j] = "running"
  /\ job' = [job EXCEPT ![j] = "ending"]
  /\ UNCHANGED <<aged, files, noted, sweep, erasing, cuts>>

CleansUp(j) ==
  /\ job[j] = "ending" /\ "checkout" \in files[j]
  /\ files' = [files EXCEPT ![j] = @ \ {"checkout"}]
  /\ UNCHANGED <<job, aged, noted, sweep, erasing, cuts>>

Leaves(j) ==
  /\ job[j] = "ending" /\ "checkout" \notin files[j]
  /\ job' = [job EXCEPT ![j] = "over"]
  /\ UNCHANGED <<aged, files, noted, sweep, erasing, cuts>>

\* Days pass; older runs age first, also one that still waits in a paused queue.
Ages(j) ==
  /\ j \in Rows \ aged /\ \A k \in Rows : k < j => k \in aged
  /\ aged' = aged \cup {j}
  /\ UNCHANGED <<job, files, noted, sweep, erasing, cuts>>

\* Deleting a finished run; its checkout, if a crash left one, stays for the sweep.
Erases(j) ==
  /\ job[j] \in {"ending", "over"} /\ j \notin erasing
  /\ files' = [files EXCEPT ![j] = @ \cap {"checkout"}]
  /\ erasing' = erasing \cup {j}
  /\ UNCHANGED <<job, aged, noted, sweep, cuts>>

ErasesRow(j) ==
  /\ j \in erasing
  /\ erasing' = erasing \ {j}
  /\ job' = [job EXCEPT ![j] = "gone"]
  /\ noted' = {n \in noted : n[1] # j}
  /\ UNCHANGED <<aged, files, sweep, cuts>>

-----------------------------------------------------------------------------
(* The sweep.                                                              *)

\* Never the newest runs, never a queued or running one.  Variant: by age alone.
ProtectsNewest == NewestRuns
Protected == NewestRuns \cup {j \in Rows : job[j] \in {"queued", "running"}}

\* running_job_ids: until a run has let go of its boards, its checkout is its own.
Reserved == {j \in Runs : job[j] \in {"running", "ending"}}

\* Captures emptied and not noted are in the plan again.
SweepableCaptures(j) ==
  IF {"captures", "emptied"} \cap files[j] # {} THEN {<<j, "captures">>} \ noted ELSE {}

\* Captures and logs by the age of their runs; checkouts of those that are old.
OldEvidence ==
  UNION {SweepableCaptures(j) \cup ({<<j, "log">>} \cap There) : j \in (Rows \cap aged) \ Protected}
OldCheckouts(old) == {<<j, "checkout">> : j \in {k \in old : "checkout" \in files[k]}}

Plans ==
  /\ spc = "idle"
  /\ \E old \in SUBSET (Runs \ (Protected \cup Reserved)) : plan' = OldEvidence \cup OldCheckouts(old)
  /\ plan' # {}
  /\ spc' = "next"
  /\ UNCHANGED <<store, at, erasing, cuts>>

\* Nothing is looked at again: a file already gone is an error, and the next item's turn.
Takes(i) ==
  /\ spc = "next" /\ i \in plan
  /\ plan' = plan \ {i}
  /\ IF i \in There \/ (i[2] = "captures" /\ "emptied" \in files[i[1]])
     THEN /\ files' = [files EXCEPT ![i[1]] =
                         (@ \ {i[2]}) \cup (IF i[2] = "captures" THEN {"emptied"} ELSE {})]
          /\ spc' = IF i[2] = "checkout" THEN "next" ELSE "note"
          /\ at' = IF i[2] = "checkout" THEN NoItem ELSE i
     ELSE UNCHANGED <<files, spc, at>>
  /\ UNCHANGED <<job, aged, noted, erasing, cuts>>

Notes ==
  /\ spc = "note"
  /\ noted' = noted \cup {at}
  /\ at' = NoItem /\ spc' = "next"
  /\ UNCHANGED <<job, aged, files, plan, erasing, cuts>>

\* Not an OSError: it ends the whole sweep.
NoteRaises ==
  /\ spc = "note" /\ cuts < MaxCuts
  /\ cuts' = cuts + 1
  /\ spc' = "idle" /\ plan' = {} /\ at' = NoItem
  /\ UNCHANGED <<store, erasing>>

SweepEnds ==
  /\ spc = "next" /\ plan = {}
  /\ spc' = "idle"
  /\ UNCHANGED <<store, plan, at, erasing, cuts>>

SweepStep == Plans \/ (\E i \in Items : Takes(i)) \/ Notes \/ SweepEnds

-----------------------------------------------------------------------------
\* The service dies and comes back: what ran has failed, the sweep is gone.
Dies ==
  /\ cuts < MaxCuts
  /\ cuts' = cuts + 1
  /\ job' = [j \in Runs |-> IF job[j] \in {"running", "ending"} THEN "over" ELSE job[j]]
  /\ spc' = "idle" /\ plan' = {} /\ at' = NoItem
  /\ erasing' = {}
  /\ UNCHANGED <<aged, files, noted>>

Next ==
  \/ \E j \in Runs : Submits(j) \/ Runs_(j) \/ Settles(j) \/ CleansUp(j) \/ Leaves(j) \/ Ages(j)
                       \/ Erases(j) \/ ErasesRow(j)
  \/ SweepStep \/ NoteRaises
  \/ Dies

Spec == Init /\ [][Next]_vars

-----------------------------------------------------------------------------
\* Every variable holds what the rest of the module takes it to hold.
TypeOK ==
  /\ job \in [Runs -> {"none", "queued", "running", "ending", "over", "gone"}]
  /\ aged \cup erasing \subseteq Runs
  /\ files \in [Runs -> SUBSET (Kinds \cup {"emptied"})]
  /\ noted \cup plan \subseteq Items
  /\ spc \in {"idle", "next", "note"} /\ at \in Items \cup {NoItem}
  /\ cuts \in 0..MaxCuts

\* Of every step: a sweep never takes a file of a run that waits or works, however long
\* ago it made its plan and however old the run.
SweepSparesTheLiving ==
  \A j \in Runs : job[j] \in {"queued", "running"} => files[j] \subseteq files'[j]

-----------------------------------------------------------------------------
(* What SweepSparesTheLiving rests on.                                     *)

\* A run that has not begun has left nothing, so no plan names it; and one that a plan names
\* has ended and does not begin again.
NothingYet == \A j \in Runs : job[j] \in {"none", "queued"} => files[j] = {}
PlanIsOfTheOver == \A i \in plan : job[i[1]] \in {"ending", "over", "gone"}

\* What it notes, it took.
NotesAnItem == spc = "note" => at \in Items

Inductive == TypeOK /\ NothingYet /\ PlanIsOfTheOver /\ NotesAnItem
=============================================================================
