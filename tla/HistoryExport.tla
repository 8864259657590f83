----------------------------- MODULE HistoryExport -----------------------------
(***************************************************************************)
(* The history a rig brings to the portal it joined (export_history): the  *)
(* finished runs it finds in its store, the bundles it finds on its disk,  *)
(* and, of what the portal says it has not, first the bundles, then run by *)
(* run the evidence, the log, the link to the bundle and last the row.     *)
(* Every call may be lost, before the portal acts or after; the export may *)
(* be interrupted and run again, and the rig's service goes on: runs end,  *)
(* what they left is swept, bundles are pruned.  The portal's store of     *)
(* rows is the farm's own (import_job, known_jobs); its files are outside. *)
(***************************************************************************)
EXTENDS Naturals

CONSTANTS
  Jobs,
  Bundles,
  LinkOf,     \* [Jobs -> the bundle its artifacts entry links to, or NoBundle]
  Leased,     \* runs of Jobs that came from the portal: it has their rows
  MaxExports, \* bound: times the export is run
  None        \* no run, and no bundle

VARIABLES
  runs, files, bundles,  \* of the rig: [Jobs -> "on", "over" or "gone"], what runs left,
                         \* its bundles
  pjobs, pfiles, pbundles, \* of the portal: rows, what it holds of runs, bundles
  at,        \* "idle", "read", "scanned", "known"
  list,      \* what the export found: [jobs, bundles, links]
  left,      \* what it has still to bring: [jobs, bundles]
  brought,   \* bundles of the list the portal has, as far as the export knows
  hand,      \* the run it is at and what it sends next: [job, step]
  failed,    \* something was not brought
  absent,    \* history: pairs of a run and what was not there to send
  bare,      \* history: runs sent without the link, their bundle not brought
  said,      \* history: what exports that said "everything brought" had found
  exports

rig == <<runs, files, bundles>>
portal == <<pjobs, pfiles, pbundles>>
history == <<absent, bare, said>>
vars == <<runs, files, bundles, pjobs, pfiles, pbundles, at, list, left, brought, hand, failed,
          absent, bare, said, exports>>

Files == {"evidence", "log"}
Nothing == [jobs |-> {}, bundles |-> {}, links |-> {}]
Empty == [jobs |-> {}, bundles |-> {}]
Over == {j \in Jobs : runs[j] = "over"}
NoRun == [job |-> None, step |-> "evidence"]

Init ==
  /\ runs \in [Jobs -> {"on", "over"}] /\ files = Over \X Files /\ bundles = Bundles
  /\ pjobs = Leased /\ pfiles = {} /\ pbundles = {}
  /\ at = "idle" /\ list = Nothing /\ left = Empty /\ brought = {} /\ hand = NoRun
  /\ failed = FALSE
  /\ absent = {} /\ bare = {} /\ said = Empty
  /\ exports = 0

-----------------------------------------------------------------------------
(* The rig's service, which goes on beside the export.                     *)

RunEnds(j) ==
  /\ runs[j] = "on"
  /\ runs' = [runs EXCEPT ![j] = "over"] /\ files' = files \cup ({j} \X Files)
  /\ UNCHANGED <<bundles, portal, at, list, left, brought, hand, failed, history, exports>>

\* The sweep, or the deletion of a run.
FileGoes(j, k) ==
  /\ <<j, k>> \in files
  /\ files' = files \ {<<j, k>>}
  /\ UNCHANGED <<runs, bundles, portal, at, list, left, brought, hand, failed, history, exports>>

RowGoes(j) ==
  /\ runs[j] = "over" /\ files \cap ({j} \X Files) = {}
  /\ runs' = [runs EXCEPT ![j] = "gone"]
  /\ UNCHANGED <<files, bundles, portal, at, list, left, brought, hand, failed, history, exports>>

BundleGoes(b) ==
  /\ b \in bundles
  /\ bundles' = bundles \ {b}
  /\ UNCHANGED <<runs, files, portal, at, list, left, brought, hand, failed, history, exports>>

-----------------------------------------------------------------------------
(* The export.                                                             *)

ReadsRows ==
  /\ at = "idle" /\ exports < MaxExports
  /\ exports' = exports + 1
  /\ at' = "read" /\ list' = [Nothing EXCEPT !.jobs = Over]
  /\ failed' = FALSE
  /\ UNCHANGED <<rig, portal, left, brought, hand, history>>

ScansStore ==
  /\ at = "read"
  /\ at' = "scanned"
  /\ list' = [list EXCEPT !.bundles = bundles, !.links = {j \in Jobs : LinkOf[j] \in bundles}]
  /\ UNCHANGED <<rig, portal, left, brought, hand, failed, history, exports>>

\* What the portal has is skipped; --no-artifacts brings no bundle.
AsksKnown ==
  /\ at = "scanned"
  /\ at' = "known"
  /\ brought' = list.bundles \cap pbundles
  /\ \E artifacts \in BOOLEAN :
       left' = [jobs |-> list.jobs \ pjobs,
                bundles |-> IF artifacts THEN list.bundles \ pbundles ELSE {}]
  /\ UNCHANGED <<rig, portal, list, hand, failed, history, exports>>

\* A bundle that is gone by now can not be packed; a call may fail or lose its answer.
SendsBundle(b) ==
  /\ at = "known" /\ b \in left.bundles
  /\ left' = [left EXCEPT !.bundles = @ \ {b}]
  /\ \/ b \in bundles /\ pbundles' = pbundles \cup {b} /\ brought' = brought \cup {b}
        /\ UNCHANGED failed
     \/ b \in bundles /\ pbundles' = pbundles \cup {b} /\ failed' = TRUE /\ UNCHANGED brought
     \/ failed' = TRUE /\ UNCHANGED <<pbundles, brought>>
  /\ UNCHANGED <<rig, pjobs, pfiles, at, list, hand, history, exports>>

TurnsTo(j) ==
  /\ at = "known" /\ left.bundles = {} /\ hand = NoRun /\ j \in left.jobs
  /\ hand' = [job |-> j, step |-> "evidence"]
  /\ left' = [left EXCEPT !.jobs = @ \ {j}]
  /\ UNCHANGED <<rig, portal, at, list, brought, failed, history, exports>>

After(step) == [evidence |-> "log", log |-> "link", link |-> "row"][step]

\* The call for the run in hand: made, or failed -- with or without having acted -- and
\* the export goes on with the next run.
Sends ==
  \/ hand' = [hand EXCEPT !.step = After(@)] /\ UNCHANGED failed
  \/ hand' = NoRun /\ failed' = TRUE
NotMade == hand' = NoRun /\ failed' = TRUE /\ UNCHANGED portal
Skips == hand' = [hand EXCEPT !.step = After(@)] /\ UNCHANGED <<portal, failed>>

\* Variant: the row is sent though the evidence or the log did not arrive.
SendsFileAnyway ==
  /\ hand.job # None /\ hand.step \in Files
  /\ LET item == <<hand.job, hand.step>> IN
       /\ hand' = [hand EXCEPT !.step = After(@)]
       /\ \/ item \in files /\ pfiles' = pfiles \cup {item} /\ UNCHANGED <<failed, absent>>
          \/ item \in files /\ failed' = TRUE /\ UNCHANGED <<pfiles, absent>>
          \/ item \notin files /\ absent' = absent \cup {item} /\ UNCHANGED <<failed, pfiles>>
  /\ UNCHANGED <<rig, pjobs, pbundles, at, list, left, brought, bare, said, exports>>

SendsFile ==
  /\ hand.job # None /\ hand.step \in Files
  /\ LET item == <<hand.job, hand.step>> IN
       IF item \in files
       THEN /\ \/ pfiles' = pfiles \cup {item} /\ Sends /\ UNCHANGED <<pjobs, pbundles>>
               \/ NotMade
            /\ UNCHANGED absent
       ELSE absent' = absent \cup {item} /\ Skips
  /\ UNCHANGED <<rig, at, list, left, brought, bare, said, exports>>

SendsLink ==
  /\ hand.step = "link"
  /\ IF hand.job \in list.links /\ LinkOf[hand.job] \in brought
     THEN /\ \/ /\ pfiles' = pfiles \cup {<<hand.job, "link">>}
                /\ Sends /\ UNCHANGED <<pjobs, pbundles>>
             \/ NotMade
          /\ UNCHANGED <<absent, bare>>
     ELSE /\ Skips
          /\ IF hand.job \in list.links
             THEN bare' = bare \cup {hand.job} /\ UNCHANGED absent
             ELSE absent' = absent \cup {<<hand.job, "link">>} /\ UNCHANGED bare
  /\ UNCHANGED <<rig, at, list, left, brought, said, exports>>

SendsRow ==
  /\ hand.step = "row"
  /\ hand' = NoRun
  /\ \/ pjobs' = pjobs \cup {hand.job} /\ failed' \in {failed, TRUE} /\ UNCHANGED <<pfiles, pbundles>>
     \/ failed' = TRUE /\ UNCHANGED portal
  /\ UNCHANGED <<rig, at, list, left, brought, history, exports>>

Ends ==
  /\ at = "known" /\ left = Empty /\ hand = NoRun
  /\ at' = "idle" /\ list' = Nothing /\ brought' = {}
  /\ said' = IF failed THEN said
             ELSE [jobs |-> said.jobs \cup list.jobs, bundles |-> said.bundles \cup brought]
  /\ UNCHANGED <<rig, portal, left, hand, failed, absent, bare, exports>>

\* The first call failed, or somebody stopped it.
Interrupted ==
  /\ at # "idle"
  /\ at' = "idle" /\ list' = Nothing /\ left' = Empty /\ brought' = {} /\ hand' = NoRun
  /\ UNCHANGED <<rig, portal, failed, history, exports>>

Next ==
  \/ \E j \in Jobs : RunEnds(j) \/ RowGoes(j) \/ TurnsTo(j)
  \/ \E j \in Jobs, k \in Files : FileGoes(j, k)
  \/ \E b \in Bundles : BundleGoes(b) \/ SendsBundle(b)
  \/ ReadsRows \/ ScansStore \/ AsksKnown
  \/ SendsFile \/ SendsLink \/ SendsRow
  \/ Ends \/ Interrupted

Spec == Init /\ [][Next]_vars

-----------------------------------------------------------------------------
\* Every variable holds what the rest of the module takes it to hold.
TypeOK ==
  /\ runs \in [Jobs -> {"on", "over", "gone"}] /\ files \subseteq Jobs \X Files
  /\ pjobs \subseteq Jobs /\ pfiles \subseteq Jobs \X (Files \cup {"link"})
  /\ bundles \cup pbundles \cup brought \subseteq Bundles /\ bare \subseteq Jobs
  /\ list \in [jobs : SUBSET Jobs, bundles : SUBSET Bundles, links : SUBSET Jobs]
  /\ left \in [jobs : SUBSET Jobs, bundles : SUBSET Bundles]
  /\ at \in {"idle", "read", "scanned", "known"} /\ failed \in BOOLEAN
  /\ hand \in [job : Jobs \cup {None}, step : Files \cup {"link", "row"}]

\* A run the export brought is on the portal with all of it there was to bring: its
\* evidence, its log and its link, whatever was lost, interrupted, or removed on the
\* rig in the meantime -- but for the link of a run whose bundle was not brought
\* before it (bare): the run is known from then on and nothing sends its link again.
\* Of the portal's own runs nothing is sent; and what an export that said
\* "everything brought" had found is there.
BroughtWhole ==
  /\ \A j \in pjobs \ Leased :
       /\ \A k \in Files : <<j, k>> \in pfiles \cup absent
       /\ <<j, "link">> \in pfiles \cup absent \/ j \in bare
  /\ pfiles \cap (Leased \X (Files \cup {"link"})) = {}
  /\ said.jobs \subseteq pjobs /\ said.bundles \subseteq pbundles

-----------------------------------------------------------------------------
(* What makes BroughtWhole inductive.                                      *)

\* Outside an export there is nothing left to bring, and no run in hand.
AtRest ==
  /\ at # "known" => left = Empty /\ hand = NoRun
  /\ hand.job = None => hand = NoRun
  /\ brought \subseteq pbundles

\* What is to be brought is not the portal's own, and of the run in hand what went before
\* was sent, or was not there.
InHand ==
  /\ Leased \subseteq pjobs /\ left.jobs \cap Leased = {} /\ hand.job \notin Leased
  /\ hand.job # None =>
       /\ hand.step # "evidence" => <<hand.job, "evidence">> \in pfiles \cup absent
       /\ hand.step \in {"link", "row"} => <<hand.job, "log">> \in pfiles \cup absent
       /\ hand.step = "row" => <<hand.job, "link">> \in pfiles \cup absent \/ hand.job \in bare

\* Of an export without a failure, every run of the list is there, in hand, or to come.
NoneForgotten ==
  at = "known" /\ ~failed => list.jobs \subseteq pjobs \cup left.jobs \cup {hand.job}

Inductive == TypeOK /\ AtRest /\ InHand /\ NoneForgotten /\ BroughtWhole
=============================================================================
