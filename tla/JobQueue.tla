------------------------------- MODULE JobQueue -------------------------------
(***************************************************************************)
(* The job store, the dispatcher thread, one thread per started run and    *)
(* the request threads that submit, supersede and cancel, interleaved at   *)
(* the statements where the code reads or writes something shared: each    *)
(* JobStore call is a transaction of its own, and the dispatch lock, the   *)
(* reservation lock and the cancel lock each cover one dictionary.         *)
(*                                                                         *)
(* Which runs one dispatch may start is the allocator's answer             *)
(* (Allocation); here it is any subset of the queue it read, so what holds *)
(* here holds whatever the allocator decides.  A store write inside the    *)
(* dispatcher or at a run's end may raise (SQLite locked, disk full), and  *)
(* the service may die between any two steps and start again.              *)
(***************************************************************************)
EXTENDS Naturals, FiniteSets

CONSTANTS
  Jobs,      \* run identities
  Callers,   \* request threads of the HTTP server
  Submits,   \* [Callers -> runs it may submit], the calls the farm's users make
  Stops,     \* [Callers -> runs it may cancel]
  RefOf,     \* [Jobs -> branches]: profile and ref of a run, what it replaces
  ShaOf,     \* [Jobs -> commits]: NoSha for one pinned to no commit
  NoSha,
  NoJob,
  Limit      \* runs the allocator lets the farm hold at once

ASSUME JobQueueAssumption ==
  /\ NoJob \notin Jobs
  /\ Submits \in [Callers -> SUBSET Jobs]
  /\ Stops \in [Callers -> SUBSET Jobs]
  /\ Limit \in Nat
  /\ DOMAIN RefOf = Jobs
  /\ DOMAIN ShaOf = Jobs

VARIABLES
  (* the store *)
  status,    \* [Jobs -> Status], "none" before the row exists
  by,        \* [Jobs -> Jobs or NoJob], result.superseded_by
  (* the service's memory *)
  mode,      \* "up", or "down" from a crash until the next process is ready
  thread,    \* [Jobs -> Phase] of _run_job
  grants,    \* runs whose reservation is recorded
  cancels,   \* runs somebody asked to stop
  dpc,       \* where the dispatcher is in _dispatch
  dtodo,     \* decided starts not yet made
  dcur,      \* the run it is starting
  cpc,       \* [Callers -> where a request thread is]
  cjob,      \* [Callers -> the run it is cancelling]
  cnew,      \* [Callers -> the run it submitted, NoJob for a plain cancel]
  ctodo,     \* [Callers -> older runs still to supersede]
  (* history, for the properties *)
  older,     \* [Jobs -> runs in the store when it was created]
  accepted,  \* runs whose submission answered without an error
  begun,     \* runs ever given a thread
  stranded   \* runs whose claim or verdict was cut short by a store call that raised

store == <<status, by>>
disp == <<dpc, dtodo, dcur>>
caller == <<cpc, cjob, cnew, ctodo>>
history == <<older, accepted, begun, stranded>>
vars == <<status, by, mode, thread, grants, cancels, dpc, dtodo, dcur,
          cpc, cjob, cnew, ctodo, older, accepted, begun, stranded>>

Final == {"passed", "failed", "cancelled"}
Active == {"queued", "running"}
Status == {"none"} \cup Active \cup Final

\* A run thread waits for the rig's locks or works, has a verdict to write, has
\* written passed and is telling about it, or is in its finally block.
Verdict == {"passing", "failing", "cancelling"}
Phase == {"none", "executing", "told", "settled"} \cup Verdict

\* Same request for the same branch at another commit: what a submission cancels.
Replaces(new, old) ==
  /\ old # new
  /\ RefOf[old] = RefOf[new]
  /\ ShaOf[new] # NoSha /\ ShaOf[old] # NoSha
  /\ ShaOf[old] # ShaOf[new]

-----------------------------------------------------------------------------
Init ==
  /\ status = [j \in Jobs |-> "none"]
  /\ by = [j \in Jobs |-> NoJob]
  /\ mode = "up"
  /\ thread = [j \in Jobs |-> "none"]
  /\ grants = {}
  /\ cancels = {}
  /\ dpc = "idle"
  /\ dtodo = {}
  /\ dcur = NoJob
  /\ cpc = [c \in Callers |-> "idle"]
  /\ cjob = [c \in Callers |-> NoJob]
  /\ cnew = [c \in Callers |-> NoJob]
  /\ ctodo = [c \in Callers |-> {}]
  /\ older = [j \in Jobs |-> {}]
  /\ accepted = {}
  /\ begun = {}
  /\ stranded = {}

-----------------------------------------------------------------------------
(* The dispatcher thread: _dispatch, under the dispatch lock.              *)

\* The queue is read and decided upon; what is started below was queued then.  A
\* paused queue starts nothing, which is one of the subsets.
DispatchPlan ==
  /\ mode = "up" /\ dpc = "idle"
  /\ dtodo' \in {start \in SUBSET {j \in Jobs : status[j] = "queued"} :
                   Cardinality(start) + Cardinality(grants) <= Limit}
  /\ dpc' = "starting"
  /\ UNCHANGED <<store, mode, thread, grants, cancels, dcur, caller, history>>

\* Variant for the mutation runs: the claim with no condition on the row.
ClaimAnyway(j) ==
  /\ mode = "up" /\ dpc = "starting" /\ j \in dtodo
  /\ dtodo' = dtodo \ {j}
  /\ status' = [status EXCEPT ![j] = "running"]
  /\ dpc' = "claimed"
  /\ dcur' = j
  /\ UNCHANGED <<by, mode, thread, grants, cancels, caller, history>>

\* claim is conditional on the row still being queued.
DispatchClaim(j) ==
  /\ mode = "up" /\ dpc = "starting" /\ j \in dtodo
  /\ dtodo' = dtodo \ {j}
  /\ \/ /\ status[j] = "queued"
        /\ status' = [status EXCEPT ![j] = "running"]
        /\ dpc' = "claimed"
        /\ dcur' = j
     \/ /\ status[j] # "queued"
        /\ UNCHANGED <<status, dpc, dcur>>
  /\ UNCHANGED <<by, mode, thread, grants, cancels, caller, history>>

DispatchGrant ==
  /\ mode = "up" /\ dpc = "claimed"
  /\ grants' = grants \cup {dcur}
  /\ dpc' = "granted"
  /\ UNCHANGED <<store, mode, thread, cancels, dtodo, dcur, caller, history>>

DispatchLaunch ==
  /\ mode = "up" /\ dpc = "granted"
  /\ thread' = [thread EXCEPT ![dcur] = "executing"]
  /\ begun' = begun \cup {dcur}
  /\ dpc' = "starting"
  /\ dcur' = NoJob
  /\ UNCHANGED <<store, mode, grants, cancels, dtodo, caller, older, accepted, stranded>>

DispatchDone ==
  /\ mode = "up" /\ dpc = "starting" /\ dtodo = {}
  /\ dpc' = "idle"
  /\ UNCHANGED <<store, mode, thread, grants, cancels, dtodo, dcur, caller, history>>

\* An exception: _worker prints it and waits for the next token.  A run already
\* claimed stays running in the store with no thread.
DispatchFails ==
  /\ mode = "up" /\ dpc # "idle"
  /\ dpc' = "idle"
  /\ dtodo' = {}
  /\ dcur' = NoJob
  /\ stranded' = stranded \cup ({dcur} \cap Jobs)
  /\ UNCHANGED <<store, mode, thread, grants, cancels, caller, older, accepted, begun>>

Dispatch ==
  \/ DispatchPlan \/ (\E j \in Jobs : DispatchClaim(j))
  \/ DispatchGrant \/ DispatchLaunch \/ DispatchDone

-----------------------------------------------------------------------------
(* A run's thread: _run_job.                                               *)

\* _execute returned or raised; the rig's locks are dropped.
RunEnds(j) ==
  /\ mode = "up" /\ thread[j] = "executing"
  /\ \E v \in {"passing", "failing"} : thread' = [thread EXCEPT ![j] = v]
  /\ UNCHANGED <<store, mode, grants, cancels, disp, caller, history>>

\* _wait_for looks for a request between slices, interrupts the child, raises.
RunNotices(j) ==
  /\ mode = "up" /\ thread[j] = "executing" /\ j \in cancels
  /\ thread' = [thread EXCEPT ![j] = "cancelling"]
  /\ UNCHANGED <<store, mode, grants, cancels, disp, caller, history>>

\* store.update writes the status whatever it was.
RunSettles(j) ==
  /\ mode = "up" /\ thread[j] \in Verdict
  /\ status' = [status EXCEPT ![j] = CASE thread[j] = "passing" -> "passed"
                                       [] thread[j] = "failing" -> "failed"
                                       [] OTHER -> "cancelled"]
  /\ thread' = [thread EXCEPT ![j] = IF @ = "passing" THEN "told" ELSE "settled"]
  /\ UNCHANGED <<by, mode, grants, cancels, disp, caller, history>>

\* passed is written inside the try whose except writes failed: the event is
\* emitted from a fresh read of the row, still inside it.
RunTells(j) ==
  /\ mode = "up" /\ thread[j] = "told"
  /\ thread' = [thread EXCEPT ![j] = "settled"]
  /\ UNCHANGED <<store, mode, grants, cancels, disp, caller, history>>

\* A store call raised: on the way to passed, or right after it, the verdict becomes
\* failed; any other verdict is given up and the thread leaves by the finally.
RunCannotSettle(j) ==
  /\ mode = "up" /\ thread[j] \in Verdict \cup {"told"}
  /\ thread' = [thread EXCEPT ![j] = IF @ \in {"passing", "told"} THEN "failing" ELSE "settled"]
  /\ stranded' = IF thread'[j] = "settled" /\ status[j] = "running" THEN stranded \cup {j} ELSE stranded
  /\ UNCHANGED <<store, mode, grants, cancels, disp, caller, older, accepted, begun>>

\* Variant: the finally block keeps the reservation.
LeavesHolding(j) ==
  /\ mode = "up" /\ thread[j] = "settled"
  /\ cancels' = cancels \ {j}
  /\ thread' = [thread EXCEPT ![j] = "none"]
  /\ UNCHANGED <<store, mode, grants, disp, caller, history>>

\* The finally block: the request is dropped, then the reservation.
RunLeaves(j) ==
  /\ mode = "up" /\ thread[j] = "settled"
  /\ cancels' = cancels \ {j}
  /\ grants' = grants \ {j}
  /\ thread' = [thread EXCEPT ![j] = "none"]
  /\ UNCHANGED <<store, mode, disp, caller, history>>

RunStep(j) ==
  RunEnds(j) \/ RunNotices(j) \/ RunSettles(j) \/ RunTells(j) \/ RunCannotSettle(j) \/ RunLeaves(j)

-----------------------------------------------------------------------------
(* A request thread: submit, _supersede and cancel.                        *)

Submit(c, j) ==
  /\ mode = "up" /\ cpc[c] = "idle" /\ j \in Submits[c] /\ status[j] = "none"
  /\ status' = [status EXCEPT ![j] = "queued"]
  /\ older' = [older EXCEPT ![j] = {k \in Jobs : status[k] # "none"}]
  /\ cnew' = [cnew EXCEPT ![c] = j]
  /\ cpc' = [cpc EXCEPT ![c] = "scan"]
  /\ UNCHANGED <<by, mode, thread, grants, cancels, disp, cjob, ctodo, accepted, begun, stranded>>

\* _supersede lists the active runs once.
Scan(c) ==
  /\ mode = "up" /\ cpc[c] = "scan"
  /\ ctodo' = [ctodo EXCEPT ![c] = {k \in Jobs : status[k] \in Active /\ Replaces(cnew[c], k)}]
  /\ cpc' = [cpc EXCEPT ![c] = "next"]
  /\ UNCHANGED <<store, mode, thread, grants, cancels, disp, cjob, cnew, history>>

\* cancel's read of the row decides what it does next; a run already over cannot be
\* cancelled.
Read(c, j) ==
  /\ cjob' = [cjob EXCEPT ![c] = j]
  /\ cpc' = [cpc EXCEPT ![c] = CASE status[j] = "running" -> "request"
                                 [] status[j] = "queued" -> "withdraw"
                                 [] OTHER -> "refuse"]

SupersedeNext(c, k) ==
  /\ mode = "up" /\ cpc[c] = "next" /\ k \in ctodo[c]
  /\ Read(c, k)
  /\ ctodo' = [ctodo EXCEPT ![c] = @ \ {k}]
  /\ UNCHANGED <<store, mode, thread, grants, cancels, disp, cnew, history>>

Accept(c) ==
  /\ mode = "up" /\ cpc[c] = "next" /\ ctodo[c] = {}
  /\ accepted' = accepted \cup {cnew[c]}
  /\ cpc' = [cpc EXCEPT ![c] = "idle"]
  /\ cnew' = [cnew EXCEPT ![c] = NoJob]
  /\ UNCHANGED <<store, mode, thread, grants, cancels, disp, cjob, ctodo, older, begun, stranded>>

AskCancel(c, j) ==
  /\ mode = "up" /\ cpc[c] = "idle" /\ j \in Stops[c] /\ status[j] # "none"
  /\ Read(c, j)
  /\ UNCHANGED <<store, mode, thread, grants, cancels, disp, cnew, ctodo, history>>

\* Variant: whoever lost the race tries the same statement again.
TriesAgain(c) ==
  /\ mode = "up" /\ cpc[c] = "lost"
  /\ cpc' = [cpc EXCEPT ![c] = "withdraw"]
  /\ UNCHANGED <<store, mode, thread, grants, cancels, disp, cjob, cnew, ctodo, history>>

ReadAgain(c) ==
  /\ mode = "up" /\ cpc[c] = "lost"
  /\ Read(c, cjob[c])
  /\ UNCHANGED <<store, mode, thread, grants, cancels, disp, cnew, ctodo, history>>

\* cancel returned: the next older run, or the caller's answer.
Return(c) ==
  /\ cpc' = [cpc EXCEPT ![c] = IF cnew[c] = NoJob THEN "idle" ELSE "next"]
  /\ cjob' = [cjob EXCEPT ![c] = NoJob]
  /\ UNCHANGED <<cnew, ctodo>>

\* An error answers the request: ValueError for a run already over, or any store call
\* raised.  A submission that was superseding leaves its own run queued.
Refuse(c) ==
  /\ mode = "up" /\ cpc[c] # "idle"
  /\ cpc' = [cpc EXCEPT ![c] = "idle"]
  /\ cjob' = [cjob EXCEPT ![c] = NoJob]
  /\ cnew' = [cnew EXCEPT ![c] = NoJob]
  /\ ctodo' = [ctodo EXCEPT ![c] = {}]
  /\ UNCHANGED <<store, mode, thread, grants, cancels, disp, history>>

CancelRequest(c) ==
  /\ mode = "up" /\ cpc[c] = "request"
  /\ cancels' = cancels \cup {cjob[c]}
  /\ Return(c)
  /\ UNCHANGED <<store, mode, thread, grants, disp, history>>

\* Variants: the statement with no condition; whoever lost the race gives up.
CancelAnyway(c) ==
  /\ mode = "up" /\ cpc[c] = "withdraw"
  /\ status' = [status EXCEPT ![cjob[c]] = "cancelled"]
  /\ by' = [by EXCEPT ![cjob[c]] = cnew[c]]
  /\ Return(c)
  /\ UNCHANGED <<mode, thread, grants, cancels, disp, history>>

CancelGivesUp(c) ==
  /\ mode = "up" /\ cpc[c] = "withdraw"
  /\ IF status[cjob[c]] = "queued"
       THEN /\ status' = [status EXCEPT ![cjob[c]] = "cancelled"]
            /\ by' = [by EXCEPT ![cjob[c]] = cnew[c]]
       ELSE UNCHANGED store
  /\ Return(c)
  /\ UNCHANGED <<mode, thread, grants, cancels, disp, history>>

\* cancel_if_queued: one conditional statement; whoever lost the race reads again.
CancelQueued(c) ==
  /\ mode = "up" /\ cpc[c] = "withdraw"
  /\ \/ /\ status[cjob[c]] = "queued"
        /\ status' = [status EXCEPT ![cjob[c]] = "cancelled"]
        /\ by' = [by EXCEPT ![cjob[c]] = cnew[c]]
        /\ Return(c)
     \/ /\ status[cjob[c]] # "queued"
        /\ cpc' = [cpc EXCEPT ![c] = "lost"]
        /\ UNCHANGED <<store, cjob, cnew, ctodo>>
  /\ UNCHANGED <<mode, thread, grants, cancels, disp, history>>

CallerStep(c) ==
  \/ Scan(c) \/ (\E k \in Jobs : SupersedeNext(c, k)) \/ Accept(c)
  \/ ReadAgain(c) \/ Refuse(c) \/ CancelRequest(c) \/ CancelQueued(c)

-----------------------------------------------------------------------------
\* The process dies: only the store is left.
Crash ==
  /\ mode = "up"
  /\ mode' = "down"
  /\ thread' = [j \in Jobs |-> "none"]
  /\ grants' = {}
  /\ cancels' = {}
  /\ dpc' = "idle" /\ dtodo' = {} /\ dcur' = NoJob
  /\ cpc' = [c \in Callers |-> "idle"]
  /\ cjob' = [c \in Callers |-> NoJob]
  /\ cnew' = [c \in Callers |-> NoJob]
  /\ ctodo' = [c \in Callers |-> {}]
  /\ UNCHANGED <<store, history>>

\* Variant: a run that was running goes back to the queue.
RecoverRequeues(j) ==
  /\ mode = "down" /\ status[j] = "running"
  /\ status' = [status EXCEPT ![j] = "queued"]
  /\ UNCHANGED <<by, mode, thread, grants, cancels, disp, caller, history>>

\* recover_incomplete settles one running row at a time; queued rows stay queued.
Recover(j) ==
  /\ mode = "down" /\ status[j] = "running"
  /\ status' = [status EXCEPT ![j] = "failed"]
  /\ UNCHANGED <<by, mode, thread, grants, cancels, disp, caller, history>>

\* Variant: up again with nothing recovered.
ReadyUnrecovered ==
  /\ mode = "down"
  /\ mode' = "up"
  /\ UNCHANGED <<store, thread, grants, cancels, disp, caller, history>>

Ready ==
  /\ mode = "down"
  /\ \A j \in Jobs : status[j] # "running"
  /\ mode' = "up"
  /\ UNCHANGED <<store, thread, grants, cancels, disp, caller, history>>

Next ==
  \/ DispatchPlan \/ DispatchGrant \/ DispatchLaunch \/ DispatchDone \/ DispatchFails
  \/ \E j \in Jobs : DispatchClaim(j)
  \/ \E j \in Jobs : RunStep(j)
  \/ \E c \in Callers, j \in Jobs : Submit(c, j) \/ AskCancel(c, j) \/ SupersedeNext(c, j)
  \/ \E c \in Callers : Scan(c) \/ Accept(c) \/ ReadAgain(c) \/ Refuse(c)
                          \/ CancelRequest(c) \/ CancelQueued(c)
  \/ Crash \/ Ready
  \/ \E j \in Jobs : Recover(j)

Spec == Init /\ [][Next]_vars

\* Threads are scheduled, a restarted service recovers and comes up; nothing makes
\* a caller submit, an operator resume, a write raise or the process die.
Fairness ==
  /\ WF_vars(Dispatch)
  /\ WF_vars(\E j \in Jobs : RunStep(j))
  /\ WF_vars(\E j \in Jobs : Recover(j))
  /\ \A c \in Callers : WF_vars(CallerStep(c))
  /\ WF_vars(Ready)

FairSpec == Spec /\ Fairness

-----------------------------------------------------------------------------
\* Every variable holds what the rest of the module takes it to hold.
TypeOK ==
  /\ status \in [Jobs -> Status]
  /\ by \in [Jobs -> Jobs \cup {NoJob}]
  /\ mode \in {"up", "down"}
  /\ thread \in [Jobs -> Phase]
  /\ grants \subseteq Jobs
  /\ cancels \subseteq Jobs
  /\ dpc \in {"idle", "starting", "claimed", "granted"}
  /\ dtodo \subseteq Jobs
  /\ dcur \in Jobs \cup {NoJob}
  /\ cpc \in [Callers -> {"idle", "scan", "next", "request", "withdraw", "refuse", "lost"}]
  /\ cjob \in [Callers -> Jobs \cup {NoJob}]
  /\ cnew \in [Callers -> Jobs \cup {NoJob}]
  /\ ctodo \in [Callers -> SUBSET Jobs]
  /\ older \in [Jobs -> SUBSET Jobs]
  /\ begun \cup stranded \cup accepted \subseteq Jobs

\* A run works only under a running status and a recorded reservation: a cancel that
\* wins the race for a queued run never leaves it executing as cancelled, and no
\* dispatch gives its boards away while its thread is alive.
WorksWhileRunning ==
  \A j \in Jobs :
    /\ thread[j] \in {"executing", "passing", "cancelling"} => status[j] = "running"
    /\ thread[j] = "told" => status[j] = "passed"
    /\ thread[j] # "none" => j \in grants

\* A running run nobody works on, in a service that is up, was left by a store call
\* that raised; so was a reservation nobody holds.  Both wait for the next restart.
OnlyFailedWritesStrand ==
  mode = "up" =>
    /\ \A j \in Jobs : status[j] = "running" /\ thread[j] = "none" => dcur = j \/ j \in stranded
    /\ \A j \in grants : thread[j] # "none" \/ dcur = j \/ j \in stranded

\* Once a submission was accepted, no older run of its branch at another commit is
\* still queued, and one still running was asked to stop (or nobody works on it).
AcceptedMeansSuperseded ==
  \A j \in Jobs : j \in accepted =>
    \A k \in older[j] : Replaces(j, k) =>
      /\ status[k] # "queued"
      /\ status[k] = "running" /\ mode = "up" => k \in cancels \cup stranded

\* A status only moves forward: nothing but the dispatcher takes a queued run, and a
\* verdict is never written over, though every end of a run writes it with no
\* condition, except that a run's own thread may turn its passed into failed.
StatusMovesForward ==
  [][\A j \in Jobs : status'[j] # status[j] =>
       \/ <<status[j], status'[j]>> \in {<<"none", "queued">>, <<"queued", "running">>, <<"queued", "cancelled">>}
                                          \cup ({"running"} \X Final)
       \/ status[j] = "passed" /\ status'[j] = "failed" /\ thread[j] = "failing"]_status

\* The run states of the abstract specification.
StageOf(row) ==
  CASE row = "none" -> "absent"
    [] row = "queued" -> "waiting"
    [] row = "running" -> "taken"
    [] OTHER -> "over"

Stage == [j \in Jobs |-> StageOf(status[j])]
Executing == {j \in Jobs : thread[j] = "executing"}

Lifecycle == INSTANCE RunLifecycle WITH state <- Stage, working <- Executing, begun <- begun

\* Every run keeps the promise of RunLifecycle: worked on at most once, across
\* restarts too, and only between its claim and its verdict.
KeepsLifecycle == Lifecycle!Spec

\* A run that started is settled, unless a store call that raised stranded it.
EveryRunSettles ==
  \A j \in Jobs : (status[j] = "running") ~> (status[j] \in Final \/ j \in stranded)

\* Every request is answered, however many times cancel loses its race.
EveryCallAnswered == \A c \in Callers : (cpc[c] # "idle") ~> (cpc[c] = "idle")

\* _supersede says it cancels runs of an older commit: a run is superseded only by
\* one submitted after it.
SupersededByNewer == \A k \in Jobs : by[k] # NoJob => k \in older[by[k]]
=============================================================================
