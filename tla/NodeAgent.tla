------------------------------- MODULE NodeAgent -------------------------------
(***************************************************************************)
(* A rig that works for a portal: the lease loop that takes runs, the runs'*)
(* threads, and the report loop that sends what each came to.  The end of  *)
(* a run is written to the outbox, files, and sent from there.  Calls to   *)
(* the portal are lost, or their answers are; the node's process dies and  *)
(* comes back; a local write may raise.                                    *)
(*                                                                         *)
(* The portal is not in this repository.  What is said of it here is what  *)
(* wire.py, the job store's requeue and the node's own calls say: a leased *)
(* run nobody reported a stage of goes back to its queue, a run of a       *)
(* silent node is lost, and a report on a run that is not running here is  *)
(* refused.                                                                *)
(***************************************************************************)
EXTENDS Naturals, FiniteSets

CONSTANTS
  Jobs,       \* runs the portal has for this node, by the place their entries have in the outbox
  MaxRuns,    \* runs the node takes at once
  MaxLeases,  \* bound of the model: leases the portal gives
  NoJob

ASSUME NodeAgentAssumption ==
  /\ NoJob \notin Jobs
  /\ MaxRuns \in Nat \ {0}
  /\ MaxLeases \in Nat \ {0}
ASSUME JobsAreNumbers == Jobs \subseteq Nat

VARIABLES
  (* the portal *)
  portal,   \* [Jobs -> "queued", "leased" (no stage reported), "running", "settled" or "closed" (lost, cancelled)]
  got,      \* [Jobs -> verdict it was told, or "none"]
  proof,    \* runs whose evidence it holds
  leases,   \* leases given
  (* the node's disk *)
  store,    \* [Jobs -> "none" or the status of its row]
  outbox,   \* [Jobs -> NoReport or the report waiting to be sent]
  torn,     \* runs whose entry there is cut short
  (* the node's memory *)
  up,
  leased,   \* taken and not yet fully reported
  running,  \* of those, the ones it counts against MaxRuns
  live,     \* [Jobs -> threads of it that work]
  ending,   \* [Jobs -> threads of it in their finally block]
  lpc, ljob,  \* where the lease loop is, and with which run
  rpc, rjob, entry,  \* where the report loop is, with which run, and its entry as read
  (* history *)
  cut,      \* runs in hand when the process died
  stuck,    \* runs whose taking or ending raised
  twice     \* runs leased here that this node knew already

atPortal == <<portal, got, proof, leases>>
disk == <<store, outbox, torn>>
threads == <<live, ending>>
lease == <<lpc, ljob>>
report == <<rpc, rjob, entry>>
history == <<cut, stuck, twice>>
vars == <<portal, got, proof, leases, store, outbox, torn, up, leased, running, live, ending, lpc, ljob,
          rpc, rjob, entry, cut, stuck, twice>>

Final == {"passed", "failed"}
NoReport == [status |-> "none", evidence |-> FALSE, sent |-> FALSE]
Entries == {j \in Jobs : outbox[j] # NoReport}
Here(j) == portal[j] \in {"leased", "running"}
AtRest == [j \in Jobs |-> 0]

Init ==
  /\ portal = [j \in Jobs |-> "queued"]
  /\ got = [j \in Jobs |-> "none"]
  /\ proof = {}
  /\ leases = 0
  /\ store = [j \in Jobs |-> "none"]
  /\ outbox = [j \in Jobs |-> NoReport] /\ torn = {}
  /\ up = TRUE
  /\ leased = {} /\ running = {}
  /\ live = AtRest /\ ending = AtRest
  /\ lpc = "idle" /\ ljob = NoJob
  /\ rpc = "idle" /\ rjob = NoJob /\ entry = NoReport
  /\ cut = {} /\ stuck = {} /\ twice = {}

-----------------------------------------------------------------------------
(* The portal on its own.                                                  *)

\* No stage was reported within LEASE_ACK_SECONDS: back to the queue.
TakesBack(j) ==
  /\ portal[j] = "leased"
  /\ portal' = [portal EXCEPT ![j] = "queued"]
  /\ UNCHANGED <<got, proof, leases, disk, up, leased, running, threads, lease, report, history>>

\* The node was silent for too long, or somebody ended the run there.  One ended in
\* the queue is to the node as one never leased again.
Closes(j) ==
  /\ Here(j)
  /\ portal' = [portal EXCEPT ![j] = "closed"]
  /\ UNCHANGED <<got, proof, leases, disk, up, leased, running, threads, lease, report, history>>

-----------------------------------------------------------------------------
(* The lease loop: _lease_loop, _take.                                     *)

\* A node not registered, or about to install a release, does not ask: that only makes
\* it ask less often.
LeaseAsk ==
  /\ up /\ lpc = "idle"
  /\ Cardinality(running) < MaxRuns
  /\ lpc' = "polling"
  /\ UNCHANGED <<atPortal, disk, up, leased, running, threads, ljob, report, history>>

\* The long poll ends with nothing, or with an error.
LeaseNothing ==
  /\ up /\ lpc = "polling"
  /\ lpc' = "idle"
  /\ UNCHANGED <<atPortal, disk, up, leased, running, threads, ljob, report, history>>

Leases(j) ==
  /\ portal[j] = "queued" /\ leases < MaxLeases
  /\ portal' = [portal EXCEPT ![j] = "leased"]
  /\ leases' = leases + 1
  /\ twice' = IF j \in leased \/ store[j] # "none" THEN twice \cup {j} ELSE twice
  /\ UNCHANGED <<got, proof, cut, stuck>>

LeaseAnswerLost(j) ==
  /\ up /\ lpc = "polling"
  /\ Leases(j)
  /\ lpc' = "idle"
  /\ UNCHANGED <<disk, up, leased, running, threads, ljob, report>>

LeaseTaken(j) ==
  /\ up /\ lpc = "polling"
  /\ Leases(j)
  /\ leased' = leased \cup {j}
  /\ running' = running \cup {j}
  /\ lpc' = "saying" /\ ljob' = j
  /\ UNCHANGED <<disk, up, threads, report>>

\* A stage report reaches the portal, or not.  A run not running here is refused,
\* which is noted and no more.
StagePost(j) ==
  /\ portal' \in {portal, IF portal[j] = "leased" THEN [portal EXCEPT ![j] = "running"] ELSE portal}
  /\ UNCHANGED <<got, proof, leases>>

SayTaken ==
  /\ up /\ lpc = "saying"
  /\ StagePost(ljob)
  /\ lpc' = "fetching"
  /\ UNCHANGED <<disk, up, leased, running, threads, ljob, report, history>>

\* The bundle is here, or was fetched and checked.
BundleHere ==
  /\ up /\ lpc = "fetching"
  /\ lpc' = "creating"
  /\ UNCHANGED <<atPortal, disk, up, leased, running, threads, ljob, report, history>>

\* Variants: the run is started all the same; the run stays counted.
BundleFailsGoesOn ==
  /\ up /\ lpc = "fetching"
  /\ outbox' = [outbox EXCEPT ![ljob] = [NoReport EXCEPT !.status = "failed"]]
  /\ torn' = torn \ {ljob}
  /\ lpc' = "creating"
  /\ UNCHANGED <<atPortal, store, up, leased, running, threads, ljob, report, history>>

BundleFailsCounted ==
  /\ up /\ lpc = "fetching"
  /\ outbox' = [outbox EXCEPT ![ljob] = [NoReport EXCEPT !.status = "failed"]]
  /\ torn' = torn \ {ljob}
  /\ lpc' = "idle" /\ ljob' = NoJob
  /\ UNCHANGED <<atPortal, store, up, leased, running, threads, report, history>>

\* _fail_before_start: reported as failed, with no row and no evidence.
BundleFails ==
  /\ up /\ lpc = "fetching"
  /\ outbox' = [outbox EXCEPT ![ljob] = [NoReport EXCEPT !.status = "failed"]]
  /\ torn' = torn \ {ljob}
  /\ running' = running \ {ljob}
  /\ lpc' = "idle" /\ ljob' = NoJob
  /\ UNCHANGED <<atPortal, store, up, leased, threads, report, history>>

\* A row only if there is none.
TakeCreate ==
  /\ up /\ lpc = "creating"
  /\ store' = [store EXCEPT ![ljob] = IF @ = "none" THEN "queued" ELSE @]
  /\ lpc' = "claiming"
  /\ UNCHANGED <<atPortal, outbox, torn, up, leased, running, threads, ljob, report, history>>

\* Whether the claim took it is not looked at.
TakeClaim ==
  /\ up /\ lpc = "claiming"
  /\ store' = [store EXCEPT ![ljob] = IF @ = "queued" THEN "running" ELSE @]
  /\ lpc' = "launching"
  /\ UNCHANGED <<atPortal, outbox, torn, up, leased, running, threads, ljob, report, history>>

TakeLaunch ==
  /\ up /\ lpc = "launching"
  /\ live' = [live EXCEPT ![ljob] = @ + 1]
  /\ lpc' = "idle" /\ ljob' = NoJob
  /\ UNCHANGED <<atPortal, disk, up, leased, running, ending, report, history>>

\* A store call or the outbox's write raised: noted, and the loop goes on.
TakeRaises ==
  /\ up /\ lpc \in {"fetching", "creating", "claiming", "launching"}
  /\ stuck' = stuck \cup {ljob}
  /\ lpc' = "idle" /\ ljob' = NoJob
  /\ UNCHANGED <<atPortal, disk, up, leased, running, threads, report, cut, twice>>

Take ==
  \/ LeaseNothing \/ SayTaken \/ BundleHere \/ BundleFails \/ TakeCreate \/ TakeClaim \/ TakeLaunch \/ TakeRaises
  \/ \E j \in Jobs : LeaseAnswerLost(j) \/ LeaseTaken(j)

-----------------------------------------------------------------------------
(* A run's thread, as JobQueue has it in detail, and _finished at its end. *)

\* A row left queued by a crash is the node's own dispatcher's to start, under the
\* lock _take holds from creating a row to claiming it.
StartCarriedOver(j) ==
  /\ up /\ store[j] = "queued" /\ lpc # "claiming"
  /\ store' = [store EXCEPT ![j] = "running"]
  /\ live' = [live EXCEPT ![j] = @ + 1]
  /\ UNCHANGED <<atPortal, outbox, torn, up, leased, running, ending, lease, report, history>>

\* _report_once sends a stage that began.
StageBegins(j) ==
  /\ up /\ live[j] > 0 /\ j \in leased
  /\ StagePost(j)
  /\ UNCHANGED <<disk, up, leased, running, threads, lease, report, history>>

\* The verdict is written, whatever the row says.
RunEnds(j) ==
  /\ up /\ live[j] > 0
  /\ \E v \in Final : store' = [store EXCEPT ![j] = v]
  /\ live' = [live EXCEPT ![j] = @ - 1]
  /\ ending' = [ending EXCEPT ![j] = @ + 1]
  /\ UNCHANGED <<atPortal, outbox, torn, up, leased, running, lease, report, history>>

\* What is reported is the row as it is now, with the run's directory if it came to
\* have one.  A run not taken from the portal is the node's own.
Finished(j) ==
  /\ up /\ ending[j] > 0
  /\ ending' = [ending EXCEPT ![j] = @ - 1]
  /\ IF j \in leased
       THEN /\ \E made \in BOOLEAN :
                 outbox' = [outbox EXCEPT ![j] = [status |-> store[j], evidence |-> made, sent |-> FALSE]]
            /\ torn' = torn \ {j}
            /\ running' = running \ {j}
       ELSE UNCHANGED <<outbox, torn, running>>
  /\ UNCHANGED <<atPortal, store, up, leased, live, lease, report, history>>

\* Packing the evidence or writing the outbox raised: printed, and the thread is over.
FinishedRaises(j) ==
  /\ up /\ ending[j] > 0 /\ j \in leased
  /\ ending' = [ending EXCEPT ![j] = @ - 1]
  /\ stuck' = stuck \cup {j}
  /\ UNCHANGED <<atPortal, disk, up, leased, running, live, lease, report, cut, twice>>

RunStep(j) == StartCarriedOver(j) \/ StageBegins(j) \/ RunEnds(j) \/ Finished(j) \/ FinishedRaises(j)

-----------------------------------------------------------------------------
(* The report loop: _deliver.                                              *)

Rested == rpc' = "idle" /\ rjob' = NoJob /\ entry' = NoReport

\* An entry that is cut short raises, and the turn ends before those that come after it.
Stopped(j) == \E k \in torn : k <= j /\ ~(rpc = "marking" /\ rjob = k)

Deliver(j) ==
  /\ up /\ rpc = "idle" /\ outbox[j] # NoReport /\ ~Stopped(j)
  /\ rpc' = IF outbox[j].evidence /\ ~outbox[j].sent THEN "evidence" ELSE "result"
  /\ rjob' = j /\ entry' = outbox[j]
  /\ UNCHANGED <<atPortal, disk, up, leased, running, threads, lease, history>>

\* The log to its end, then the evidence; the entry is to be marked, and is written over
\* in its place.
EvidenceSent ==
  /\ up /\ rpc = "evidence" /\ Here(rjob)
  /\ proof' = proof \cup {rjob}
  /\ entry' = [entry EXCEPT !.sent = TRUE]
  /\ outbox' = [outbox EXCEPT ![rjob] = entry'] /\ torn' = torn \cup {rjob}
  /\ rpc' = "marking"
  /\ UNCHANGED <<portal, got, leases, store, up, leased, running, threads, lease, rjob, history>>

Marked ==
  /\ up /\ rpc = "marking"
  /\ torn' = torn \ {rjob}
  /\ rpc' = "result"
  /\ UNCHANGED <<atPortal, store, outbox, up, leased, running, threads, lease, rjob, entry, history>>

\* The disk is full: noted, like any error of a turn.
MarkRaises ==
  /\ up /\ rpc = "marking"
  /\ Rested
  /\ UNCHANGED <<atPortal, disk, up, leased, running, threads, lease, history>>

EvidenceAnswerLost ==
  /\ up /\ rpc = "evidence" /\ Here(rjob)
  /\ proof' = proof \cup {rjob}
  /\ Rested
  /\ UNCHANGED <<portal, got, leases, disk, up, leased, running, threads, lease, history>>

Accepts(j) ==
  /\ Here(j)
  /\ portal' = [portal EXCEPT ![j] = "settled"]
  /\ got' = [got EXCEPT ![j] = entry.status]
  /\ UNCHANGED <<proof, leases>>

ResultSent ==
  /\ up /\ rpc = "result"
  /\ Accepts(rjob)
  /\ rpc' = "dropping"
  /\ UNCHANGED <<disk, up, leased, running, threads, lease, rjob, entry, history>>

ResultAnswerLost ==
  /\ up /\ rpc = "result"
  /\ Accepts(rjob)
  /\ Rested
  /\ UNCHANGED <<disk, up, leased, running, threads, lease, history>>

\* Variant: a refusal is an error like any other, tried again.
RefusedKept ==
  /\ up /\ rpc \in {"evidence", "result"} /\ ~Here(rjob)
  /\ Rested
  /\ UNCHANGED <<atPortal, disk, up, leased, running, threads, lease, history>>

\* 403, 404 or 409: the portal no longer has it as running here.
Refused ==
  /\ up /\ rpc \in {"evidence", "result"} /\ ~Here(rjob)
  /\ rpc' = "dropping"
  /\ UNCHANGED <<atPortal, disk, up, leased, running, threads, lease, rjob, entry, history>>

\* Variant: any error gives the report up.
LostGivesUp ==
  /\ up /\ rpc \in {"evidence", "result"}
  /\ rpc' = "dropping"
  /\ UNCHANGED <<atPortal, disk, up, leased, running, threads, lease, rjob, entry, history>>

\* No answer, or another error: the entry stays for the next turn.
PostLost ==
  /\ up /\ rpc \in {"evidence", "result"}
  /\ Rested
  /\ UNCHANGED <<atPortal, disk, up, leased, running, threads, lease, history>>

Drop ==
  /\ up /\ rpc = "dropping"
  /\ outbox' = [outbox EXCEPT ![rjob] = NoReport] /\ torn' = torn \ {rjob}
  /\ leased' = leased \ {rjob}
  /\ Rested
  /\ UNCHANGED <<atPortal, store, up, running, threads, lease, history>>

-----------------------------------------------------------------------------
\* Only the disk is left.
Crash ==
  /\ up
  /\ up' = FALSE
  /\ leased' = {} /\ running' = {}
  /\ live' = AtRest /\ ending' = AtRest
  /\ lpc' = "idle" /\ ljob' = NoJob
  /\ Rested
  /\ cut' = cut \cup (leased \ Entries)
  /\ UNCHANGED <<atPortal, disk, stuck, twice>>

\* Variant: what the outbox holds is not known to be leased.
ComesBackEmpty ==
  /\ ~up
  /\ up' = TRUE
  /\ store' = [j \in Jobs |-> IF store[j] = "running" THEN "failed" ELSE store[j]]
  /\ leased' = {}
  /\ UNCHANGED <<atPortal, outbox, torn, running, threads, lease, report, history>>

\* recover_incomplete, then the agent takes up its outbox.
ComesBack ==
  /\ ~up
  /\ up' = TRUE
  /\ store' = [j \in Jobs |-> IF store[j] = "running" THEN "failed" ELSE store[j]]
  /\ leased' = Entries
  /\ UNCHANGED <<atPortal, outbox, torn, running, threads, lease, report, history>>

Next ==
  \/ \E j \in Jobs : TakesBack(j) \/ Closes(j) \/ RunStep(j) \/ Deliver(j)
  \/ LeaseAsk \/ Take
  \/ EvidenceSent \/ EvidenceAnswerLost \/ Marked \/ MarkRaises
  \/ ResultSent \/ ResultAnswerLost \/ Refused \/ PostLost \/ Drop
  \/ Crash \/ ComesBack

Spec == Init /\ [][Next]_vars

\* The loops turn and runs end by their safety limit.  A network that fails now and
\* then lets a call through now and then; nothing makes the portal lease, a write
\* raise or the process die.
Fairness ==
  /\ WF_vars(Take) /\ WF_vars(ComesBack)
  /\ WF_vars(\E j \in Jobs : RunEnds(j)) /\ WF_vars(\E j \in Jobs : Finished(j) \/ FinishedRaises(j))
  /\ WF_vars(\E j \in Jobs : Deliver(j)) /\ WF_vars(PostLost) /\ WF_vars(Marked) /\ WF_vars(Drop)
  /\ SF_vars(EvidenceSent) /\ SF_vars(ResultSent \/ Refused)

FairSpec == Spec /\ Fairness

-----------------------------------------------------------------------------
Reports ==
  {r \in [status : {"none", "queued", "running"} \cup Final, evidence : BOOLEAN, sent : BOOLEAN] :
     r.sent => r.evidence}

\* Every variable holds what the rest of the module takes it to hold; a loop
\* that rests has no run in hand, and evidence marked as sent was there to send.
TypeOK ==
  /\ portal \in [Jobs -> {"queued", "leased", "running", "settled", "closed"}]
  /\ got \in [Jobs -> {"none"} \cup Final]
  /\ proof \subseteq Jobs
  /\ leases \in 0..MaxLeases
  /\ store \in [Jobs -> {"none", "queued", "running"} \cup Final]
  /\ outbox \in [Jobs -> Reports] /\ torn \subseteq Jobs
  /\ up \in BOOLEAN
  /\ leased \subseteq Jobs /\ running \subseteq Jobs
  /\ live \in [Jobs -> Nat] /\ ending \in [Jobs -> Nat]
  /\ lpc \in {"idle", "polling", "saying", "fetching", "creating", "claiming", "launching"}
  /\ rpc \in {"idle", "evidence", "marking", "result", "dropping"}
  /\ ljob \in Jobs \cup {NoJob} /\ (ljob = NoJob <=> lpc \in {"idle", "polling"})
  /\ rjob \in Jobs \cup {NoJob} /\ (rjob = NoJob <=> rpc = "idle")
  /\ entry \in Reports
  /\ cut \cup stuck \cup twice \subseteq Jobs

\* A run the portal counts as running on a node that is up is in the agent's hands,
\* which its heartbeats say, until its verdict has arrived: what was waiting to be
\* sent when the process died is taken up again.  Only a run cut short with nothing
\* in the outbox is not, which the portal finds lost, nor one leased here twice.
\* (And every variable is in its type.)
HeldUntilReported ==
  /\ TypeOK
  /\ up => \A j \in Jobs : portal[j] = "running" => j \in leased \cup cut \cup twice

\* A report leaves the outbox only when the portal has a verdict of the run or does
\* not have it as running here, however many calls and answers were lost.
NothingDropped ==
  [][\A j \in Jobs : outbox[j] # NoReport /\ outbox'[j] = NoReport => ~Here(j) \/ j \in twice]_vars

\* The portal is told the verdict the run's row has, or that it failed to start.
TellsTheVerdict ==
  \A j \in Jobs : got[j] # "none" /\ j \notin twice =>
    got[j] = IF store[j] = "none" THEN "failed" ELSE store[j]

\* A place among MaxRuns is given back: whatever is counted has the lease loop or a
\* thread on it, unless a local write raised or the run was leased here twice.
PlacesGivenBack ==
  up => \A j \in running : j = ljob \/ live[j] + ending[j] > 0 \/ j \in stuck \cup twice

\* Once the node stays up, whatever it took is reported or refused in the end, unless
\* a local write raised or the run was leased here twice.  An entry of the outbox that was
\* cut short keeps back itself and those listed after it, and no other.
EveryLeaseEnds ==
  <>[]up => \A j \in Jobs : (j \in leased) ~> (j \notin leased \/ j \in stuck \cup twice \/ Stopped(j))
=============================================================================
