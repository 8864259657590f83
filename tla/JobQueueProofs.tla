---------------------------- MODULE JobQueueProofs ----------------------------
(***************************************************************************)
(* What JobQueue promises for every set of runs, callers, branches and     *)
(* commits.  Three inductive invariants carry it, each by the ones before: *)
(* Typed (where a thread stands says which run it has in hand), RunInv     *)
(* (rows, threads and reservations) and SubmitInv (what a submission that  *)
(* is superseding still owes).                                             *)
(***************************************************************************)
EXTENDS JobQueue, TLAPS

USE DEF Final, Active, Status, Verdict, Phase, store, disp, caller, history

(* Where a thread stands says which run it has in hand.                    *)
Placed ==
  /\ dpc \in {"idle", "starting"} => dcur = NoJob
  /\ dpc \in {"claimed", "granted"} => dcur \in Jobs
  /\ \A c \in Callers :
       /\ cpc[c] = "idle" => cnew[c] = NoJob
       /\ cpc[c] \in {"scan", "next"} => cnew[c] \in Jobs
       /\ cpc[c] \in {"idle", "scan", "next"} => cjob[c] = NoJob
       /\ cpc[c] \in {"request", "withdraw", "refuse", "lost"} => cjob[c] \in Jobs

Typed == TypeOK /\ Placed

LEMMA TypedAlways == Spec => []Typed
<1>1. Init => Typed
  BY JobQueueAssumption DEF Init, Typed, TypeOK, Placed
<1>2. Typed /\ [Next]_vars => Typed'
  <2> SUFFICES ASSUME Typed, [Next]_vars
               PROVE  Typed'
    OBVIOUS
  <2> USE JobQueueAssumption DEF Typed, TypeOK, Placed
  <2>1. CASE UNCHANGED vars
    BY <2>1 DEF vars
  <2>2. CASE DispatchPlan
    BY <2>2 DEF DispatchPlan
  <2>3. ASSUME NEW j \in Jobs, DispatchClaim(j)
        PROVE  Typed'
    BY <2>3 DEF DispatchClaim
  <2>4. CASE DispatchGrant
    BY <2>4 DEF DispatchGrant
  <2>5. CASE DispatchLaunch
    BY <2>5 DEF DispatchLaunch
  <2>6. CASE DispatchDone
    BY <2>6 DEF DispatchDone
  <2>7. CASE DispatchFails
    BY <2>7 DEF DispatchFails
  <2>8. ASSUME NEW j \in Jobs, RunStep(j)
        PROVE  Typed'
    <3>1. CASE RunEnds(j)
      BY <3>1 DEF RunEnds
    <3>2. CASE RunNotices(j)
      BY <3>2 DEF RunNotices
    <3>3. CASE RunSettles(j)
      BY <3>3 DEF RunSettles
    <3>4. CASE RunTells(j)
      BY <3>4 DEF RunTells
    <3>5. CASE RunCannotSettle(j)
      BY <3>5 DEF RunCannotSettle
    <3>6. CASE RunLeaves(j)
      BY <3>6 DEF RunLeaves
    <3> QED BY <2>8, <3>1, <3>2, <3>3, <3>4, <3>5, <3>6 DEF RunStep
  <2>9. ASSUME NEW c \in Callers, NEW j \in Jobs, Submit(c, j)
        PROVE  Typed'
    BY <2>9 DEF Submit
  <2>10. ASSUME NEW c \in Callers, NEW j \in Jobs, AskCancel(c, j) \/ SupersedeNext(c, j)
         PROVE  Typed'
    <3>1. CASE AskCancel(c, j)
      BY <3>1 DEF AskCancel, Read
    <3>2. CASE SupersedeNext(c, j)
      BY <3>2 DEF SupersedeNext, Read
    <3> QED BY <2>10, <3>1, <3>2
  <2>11. ASSUME NEW c \in Callers, Scan(c)
         PROVE  Typed'
    BY <2>11 DEF Scan
  <2>12. ASSUME NEW c \in Callers, Accept(c)
         PROVE  Typed'
    BY <2>12 DEF Accept
  <2>13. ASSUME NEW c \in Callers, ReadAgain(c) \/ Refuse(c)
         PROVE  Typed'
    BY <2>13 DEF ReadAgain, Refuse, Read
  <2>14. ASSUME NEW c \in Callers, CancelRequest(c)
         PROVE  Typed'
    BY <2>14 DEF CancelRequest, Return
  <2>15. ASSUME NEW c \in Callers, CancelQueued(c)
         PROVE  Typed'
    <3>1. CASE status[cjob[c]] = "queued"
      BY <2>15, <3>1 DEF CancelQueued, Return
    <3>2. CASE status[cjob[c]] # "queued"
      BY <2>15, <3>2 DEF CancelQueued
    <3> QED BY <3>1, <3>2
  <2>16. CASE Crash
    BY <2>16 DEF Crash
  <2>17. CASE Ready
    BY <2>17 DEF Ready
  <2>18. ASSUME NEW j \in Jobs, Recover(j)
         PROVE  Typed'
    BY <2>18 DEF Recover
  <2> QED
    BY <2>1, <2>2, <2>3, <2>4, <2>5, <2>6, <2>7, <2>8, <2>9, <2>10, <2>11, <2>12, <2>13, <2>14, <2>15,
       <2>16, <2>17, <2>18 DEF Next
<1> QED
  BY <1>1, <1>2, PTL DEF Spec

(* Every variable keeps its type: run states, thread phases and the places  *)
(* of the dispatcher and the callers, for any set of runs and callers.      *)
THEOREM Typing == Spec => []TypeOK
BY TypedAlways, PTL DEF Typed

-----------------------------------------------------------------------------
(* The run the dispatcher has claimed: nobody else has begun it.            *)
ClaimIsFresh ==
  dcur # NoJob =>
    /\ mode = "up"
    /\ status[dcur] = "running"
    /\ thread[dcur] = "none"
    /\ dcur \notin begun
    /\ dpc = "granted" => dcur \in grants

(* What the phase of a thread says of the row and of the reservation.       *)
PhaseMatchesRow ==
  \A j \in Jobs :
    /\ thread[j] = "failing" => status[j] \in {"running", "passed"}
    /\ thread[j] = "settled" /\ status[j] = "running" => j \in stranded
    /\ thread[j] # "none" => j \in begun /\ mode = "up"
    /\ status[j] \in {"none", "queued"} => j \notin begun /\ j \notin grants
    /\ mode = "down" => grants = {}

RunInv == ClaimIsFresh /\ PhaseMatchesRow /\ WorksWhileRunning /\ OnlyFailedWritesStrand

LEMMA RunInvInit == Init => RunInv
BY JobQueueAssumption DEF Init, RunInv, ClaimIsFresh, PhaseMatchesRow, WorksWhileRunning, OnlyFailedWritesStrand

LEMMA RunInvStep == Typed /\ RunInv /\ [Next]_vars => RunInv'
<1> SUFFICES ASSUME Typed, RunInv, [Next]_vars
             PROVE  RunInv'
  OBVIOUS
<1> USE JobQueueAssumption DEF Typed, TypeOK, Placed, RunInv, ClaimIsFresh, PhaseMatchesRow, WorksWhileRunning,
                               OnlyFailedWritesStrand
<1>1. CASE UNCHANGED vars
  BY <1>1 DEF vars
<1>2. CASE DispatchPlan
  BY <1>2 DEF DispatchPlan
<1>3. ASSUME NEW j \in Jobs, DispatchClaim(j)
      PROVE  RunInv'
  <2>1. CASE status[j] = "queued"
    BY <1>3, <2>1 DEF DispatchClaim
  <2>2. CASE status[j] # "queued"
    BY <1>3, <2>2 DEF DispatchClaim
  <2> QED BY <2>1, <2>2
<1>4. CASE DispatchGrant
  BY <1>4 DEF DispatchGrant
<1>5. CASE DispatchLaunch
  BY <1>5 DEF DispatchLaunch
<1>6. CASE DispatchDone
  BY <1>6 DEF DispatchDone
<1>7. CASE DispatchFails
  BY <1>7 DEF DispatchFails
<1>8. ASSUME NEW j \in Jobs, RunStep(j)
      PROVE  RunInv'
  <2>1. CASE RunEnds(j)
    BY <2>1 DEF RunEnds
  <2>2. CASE RunNotices(j)
    BY <2>2 DEF RunNotices
  <2>3. CASE RunSettles(j)
    BY <2>3 DEF RunSettles
  <2>4. CASE RunTells(j)
    BY <2>4 DEF RunTells
  <2>5. CASE RunCannotSettle(j)
    BY <2>5 DEF RunCannotSettle
  <2>6. CASE RunLeaves(j)
    BY <2>6 DEF RunLeaves
  <2> QED BY <1>8, <2>1, <2>2, <2>3, <2>4, <2>5, <2>6 DEF RunStep
<1>9. ASSUME NEW c \in Callers, NEW j \in Jobs, Submit(c, j)
      PROVE  RunInv'
  BY <1>9 DEF Submit
<1>10. ASSUME NEW c \in Callers, NEW j \in Jobs, AskCancel(c, j) \/ SupersedeNext(c, j)
       PROVE  RunInv'
  BY <1>10 DEF AskCancel, SupersedeNext
<1>11. ASSUME NEW c \in Callers, Scan(c) \/ Accept(c) \/ ReadAgain(c) \/ Refuse(c) \/ CancelRequest(c)
       PROVE  RunInv'
  BY <1>11 DEF Scan, Accept, ReadAgain, Refuse, CancelRequest
<1>12. ASSUME NEW c \in Callers, CancelQueued(c)
       PROVE  RunInv'
  <2>1. CASE status[cjob[c]] = "queued"
    BY <1>12, <2>1 DEF CancelQueued
  <2>2. CASE status[cjob[c]] # "queued"
    BY <1>12, <2>2 DEF CancelQueued
  <2> QED BY <2>1, <2>2
<1>13. CASE Crash
  BY <1>13 DEF Crash
<1>14. CASE Ready
  BY <1>14 DEF Ready
<1>15. ASSUME NEW j \in Jobs, Recover(j)
       PROVE  RunInv'
  BY <1>15 DEF Recover
<1> QED
  BY <1>1, <1>2, <1>3, <1>4, <1>5, <1>6, <1>7, <1>8, <1>9, <1>10, <1>11, <1>12, <1>13, <1>14, <1>15 DEF Next

LEMMA RunInvAlways == Spec => []RunInv
BY TypedAlways, RunInvInit, RunInvStep, PTL DEF Spec

(* A run is worked on only under a running row and with its reservation     *)
(* recorded, whatever cancels, failed writes and crashes come between.      *)
THEOREM Works == Spec => []WorksWhileRunning
BY RunInvAlways, PTL DEF RunInv

(* No run and no reservation is forgotten while the service is up, except   *)
(* where a store call raised.                                               *)
THEOREM NothingForgotten == Spec => []OnlyFailedWritesStrand
BY RunInvAlways, PTL DEF RunInv

-----------------------------------------------------------------------------
(* The steps that change a row, and how: every other leaves the store be.   *)
LEMMA RowChanges ==
  ASSUME Typed, RunInv, Next
  PROVE  \/ UNCHANGED status
         \/ \E j \in Jobs :
              /\ status' = [status EXCEPT ![j] = status'[j]]
              /\ \/ status[j] = "none" /\ status'[j] = "queued"
                 \/ status[j] = "queued" /\ status'[j] \in {"running", "cancelled"}
                 \/ status[j] = "running" /\ status'[j] \in Final
                 \/ status[j] = "passed" /\ status'[j] = "failed" /\ thread[j] = "failing"
<1> DEFINE Moves(j) ==
      /\ status' = [status EXCEPT ![j] = status'[j]]
      /\ \/ status[j] = "none" /\ status'[j] = "queued"
         \/ status[j] = "queued" /\ status'[j] \in {"running", "cancelled"}
         \/ status[j] = "running" /\ status'[j] \in Final
         \/ status[j] = "passed" /\ status'[j] = "failed" /\ thread[j] = "failing"
<1> SUFFICES ASSUME status' # status
             PROVE  \E j \in Jobs : Moves(j)
  BY DEF Final
<1> USE DEF Typed, TypeOK
<1>1. ASSUME NEW j \in Jobs, DispatchClaim(j)
      PROVE  \E k \in Jobs : Moves(k)
  <2> Moves(j)
    BY <1>1 DEF DispatchClaim
  <2> QED OBVIOUS
<1>2. ASSUME NEW j \in Jobs, RunStep(j)
      PROVE  \E k \in Jobs : Moves(k)
  <2>1. RunSettles(j)
    BY <1>2 DEF RunStep, RunEnds, RunNotices, RunTells, RunCannotSettle, RunLeaves
  <2>2. Moves(j)
    BY <2>1 DEF RunSettles, RunInv, WorksWhileRunning, PhaseMatchesRow
  <2> QED BY <2>2
<1>3. ASSUME NEW c \in Callers, NEW j \in Jobs, Submit(c, j)
      PROVE  \E k \in Jobs : Moves(k)
  <2> Moves(j)
    BY <1>3 DEF Submit
  <2> QED OBVIOUS
<1>4. ASSUME NEW c \in Callers, CancelQueued(c)
      PROVE  \E k \in Jobs : Moves(k)
  <2>1. cjob[c] \in Jobs /\ Moves(cjob[c])
    BY <1>4 DEF CancelQueued, Placed
  <2> QED BY <2>1
<1>5. ASSUME NEW j \in Jobs, Recover(j)
      PROVE  \E k \in Jobs : Moves(k)
  <2> Moves(j)
    BY <1>5 DEF Recover
  <2> QED OBVIOUS
<1> HIDE DEF Moves
<1> QED
  BY <1>1, <1>2, <1>3, <1>4, <1>5
  DEF Next, DispatchPlan, DispatchGrant, DispatchLaunch, DispatchDone, DispatchFails, AskCancel, SupersedeNext,
      Scan, Accept, ReadAgain, Refuse, CancelRequest, Crash, Ready

(* A row only moves forward: a verdict is never written over, except that   *)
(* a run's own thread may turn its passed into failed.                      *)
THEOREM Forward == Spec => StatusMovesForward
<1> DEFINE Ahead == \A j \in Jobs : status'[j] # status[j] =>
       \/ <<status[j], status'[j]>> \in {<<"none", "queued">>, <<"queued", "running">>, <<"queued", "cancelled">>}
                                          \cup ({"running"} \X Final)
       \/ status[j] = "passed" /\ status'[j] = "failed" /\ thread[j] = "failing"
<1>1. Typed /\ RunInv /\ [Next]_vars => [Ahead]_status
  <2> SUFFICES ASSUME Typed, RunInv, Next
               PROVE  Ahead \/ UNCHANGED status
    BY DEF vars
  <2> QED BY RowChanges DEF Typed, TypeOK
<1> QED
  BY <1>1, TypedAlways, RunInvAlways, PTL DEF Spec, StatusMovesForward

-----------------------------------------------------------------------------
(* JobQueue implements RunLifecycle: each step is one of its steps, or      *)
(* leaves the stages, the runs being worked on and those begun as they are. *)
LEMMA StageMoves ==
  ASSUME Typed, NEW j \in Jobs, NEW to \in Status, status' = [status EXCEPT ![j] = to]
  PROVE  Stage' = [Stage EXCEPT ![j] = StageOf(to)]
BY DEF Typed, TypeOK, Stage

LEMMA LifecycleStep == Typed /\ RunInv /\ [Next]_vars => [Lifecycle!Next]_<<Stage, Executing, begun>>
<1> SUFFICES ASSUME Typed, RunInv, [Next]_vars
             PROVE  Lifecycle!Next \/ UNCHANGED <<Stage, Executing, begun>>
  OBVIOUS
<1> USE DEF Typed, TypeOK
<1>1. CASE UNCHANGED vars
  BY <1>1 DEF vars, Stage, Executing
<1>2. ASSUME status' = status, begun' = begun, Executing' \subseteq Executing
      PROVE  Lifecycle!Next \/ UNCHANGED <<Stage, Executing, begun>>
  <2>1. Stage' = Stage
    BY <1>2 DEF Stage
  <2>2. Lifecycle!Stop(Executing \ Executing')
    BY <1>2, <2>1 DEF Lifecycle!Stop
  <2> QED BY <2>2 DEF Lifecycle!Next
<1>3. ASSUME Executing' = Executing, begun' = begun
      PROVE  Lifecycle!Next \/ UNCHANGED <<Stage, Executing, begun>>
  <2>0. Next \/ UNCHANGED vars
    OBVIOUS
  <2>1. CASE UNCHANGED status
    BY <1>3, <2>1 DEF Stage
  <2>2. CASE ~ UNCHANGED status
    <3>1. PICK j \in Jobs :
            /\ status' = [status EXCEPT ![j] = status'[j]]
            /\ \/ status[j] = "none" /\ status'[j] = "queued"
               \/ status[j] = "queued" /\ status'[j] \in {"running", "cancelled"}
               \/ status[j] = "running" /\ status'[j] \in Final
               \/ status[j] = "passed" /\ status'[j] = "failed" /\ thread[j] = "failing"
      BY <2>2, <1>1, RowChanges, <2>0 DEF vars
    <3>2. status'[j] \in Status
      BY <3>1
    <3>3. Stage' = [Stage EXCEPT ![j] = StageOf(status'[j])]
      BY <3>1, <3>2, StageMoves
    <3>4. Stage \in [Jobs -> {"absent", "waiting", "taken", "over"}] /\ Stage[j] = StageOf(status[j])
      BY DEF Stage, StageOf
    <3>5. CASE status[j] = "none" /\ status'[j] = "queued"
      <4> Lifecycle!Submit(j)
        BY <1>3, <3>3, <3>4, <3>5 DEF Lifecycle!Submit, Lifecycle!Move, StageOf
      <4> QED BY DEF Lifecycle!Next
    <3>6. CASE status[j] = "queued" /\ status'[j] = "running"
      <4> Lifecycle!Take(j)
        BY <1>3, <3>3, <3>4, <3>6 DEF Lifecycle!Take, Lifecycle!Move, StageOf
      <4> QED BY DEF Lifecycle!Next
    <3>7. CASE status[j] = "queued" /\ status'[j] = "cancelled"
      <4> Lifecycle!Withdraw(j)
        BY <1>3, <3>3, <3>4, <3>7 DEF Lifecycle!Withdraw, Lifecycle!Move, StageOf
      <4> QED BY DEF Lifecycle!Next
    <3>8. CASE status[j] = "running" /\ status'[j] \in Final
      <4> Lifecycle!Settle(j)
        BY <1>3, <3>3, <3>4, <3>8 DEF Lifecycle!Settle, Lifecycle!Move, StageOf
      <4> QED BY DEF Lifecycle!Next
    <3>9. CASE status[j] = "passed" /\ status'[j] = "failed"
      BY <1>3, <3>3, <3>4, <3>9 DEF StageOf
    <3> QED BY <3>1, <3>5, <3>6, <3>7, <3>8, <3>9
  <2> QED BY <2>1, <2>2
<1>4. CASE DispatchLaunch
  <2>1. dcur \in Jobs /\ status[dcur] = "running" /\ dcur \notin begun /\ Stage' = Stage
    BY <1>4, JobQueueAssumption DEF DispatchLaunch, RunInv, ClaimIsFresh, Placed, Stage
  <2>2. Executing' = Executing \cup {dcur} /\ begun' = begun \cup {dcur}
    BY <1>4, <2>1 DEF DispatchLaunch, Executing
  <2>3. Lifecycle!Work(dcur)
    BY <2>1, <2>2 DEF Lifecycle!Work, Stage, StageOf
  <2> QED BY <2>1, <2>3 DEF Lifecycle!Next
<1>5. ASSUME NEW j \in Jobs, RunStep(j)
      PROVE  Lifecycle!Next \/ UNCHANGED <<Stage, Executing, begun>>
  <2>1. CASE RunSettles(j)
    BY <2>1, <1>3 DEF RunSettles, Executing
  <2>2. CASE RunEnds(j) \/ RunNotices(j) \/ RunTells(j) \/ RunCannotSettle(j) \/ RunLeaves(j)
    BY <2>2, <1>2 DEF RunEnds, RunNotices, RunTells, RunCannotSettle, RunLeaves, Executing
  <2> QED BY <1>5, <2>1, <2>2 DEF RunStep
<1>6. CASE Crash
  BY <1>6, <1>2 DEF Crash, Executing
<1>7. ASSUME thread' = thread, begun' = begun
      PROVE  Lifecycle!Next \/ UNCHANGED <<Stage, Executing, begun>>
  BY <1>3, <1>7 DEF Executing
<1> QED
  BY <1>1, <1>4, <1>5, <1>6, <1>7
  DEF Next, DispatchPlan, DispatchClaim, DispatchGrant, DispatchDone, DispatchFails, Submit, AskCancel, SupersedeNext,
      Scan, Accept, ReadAgain, Refuse, CancelRequest, CancelQueued, Ready, Recover

(* Every run keeps RunLifecycle's promise: begun at most once, across       *)
(* restarts too, only after its claim, and over for good once settled.      *)
THEOREM Implements == Spec => KeepsLifecycle
<1>1. Init => Lifecycle!Init
  BY DEF Init, Lifecycle!Init, Stage, StageOf, Executing
<1> QED
  BY <1>1, LifecycleStep, TypedAlways, RunInvAlways, PTL DEF Spec, KeepsLifecycle, Lifecycle!Spec

-----------------------------------------------------------------------------
(* A run that is past being queued, and asked to stop if it still runs.     *)
Stopped(k) == status[k] # "queued" /\ (status[k] = "running" /\ mode = "up" => k \in cancels \cup stranded)

(* What a submission has left to do: every older run it replaces is still   *)
(* on its list, in its hands, or stopped.  While it has not listed the      *)
(* active runs, it owes all of them.                                        *)
Owed ==
  /\ \A j \in Jobs : \A k \in older[j] : status[k] # "none"
  /\ \A j \in accepted : status[j] # "none"
  /\ \A c \in Callers : cpc[c] = "request" => status[cjob[c]] \notin {"none", "queued"}
  /\ \A c \in Callers : cnew[c] # NoJob =>
       /\ status[cnew[c]] # "none"
       /\ cpc[c] # "scan" =>
            \A k \in older[cnew[c]] : Replaces(cnew[c], k) => k \in ctodo[c] \/ cjob[c] = k \/ Stopped(k)

SubmitInv == Owed /\ AcceptedMeansSuperseded

(* Once stopped a run stays so: its row cannot return to the queue, and its *)
(* request is dropped only when its row is settled or stranded.             *)
LEMMA StoppedStays ==
  ASSUME Typed, RunInv, [Next]_vars, NEW k \in Jobs, status[k] # "none", Stopped(k)
  PROVE  Stopped(k)' /\ status'[k] # "none"
<1> USE DEF Typed, TypeOK, Placed, Stopped
<1>1. CASE UNCHANGED vars
  BY <1>1 DEF vars
<1>2. CASE Next /\ UNCHANGED status
  <2>1. cancels \subseteq cancels' \/ \E j \in Jobs : RunLeaves(j) \/ mode' = "down"
    BY <1>2 DEF Next, RunStep, DispatchPlan, DispatchClaim, DispatchGrant, DispatchLaunch, DispatchDone, DispatchFails,
       RunEnds, RunNotices, RunSettles, RunTells, RunCannotSettle, Submit, AskCancel, SupersedeNext, Scan, Accept,
       ReadAgain, Refuse, CancelRequest, CancelQueued, Crash, Ready, Recover
  <2>2. stranded \subseteq stranded'
    BY <1>2 DEF Next, RunStep, DispatchPlan, DispatchClaim, DispatchGrant, DispatchLaunch, DispatchDone, DispatchFails,
       RunEnds, RunNotices, RunSettles, RunTells, RunCannotSettle, RunLeaves, Submit, AskCancel, SupersedeNext, Scan,
       Accept, ReadAgain, Refuse, CancelRequest, CancelQueued, Crash, Ready, Recover
  <2>3. mode' = mode \/ mode' = "down" \/ Ready
    BY <1>2 DEF Next, RunStep, DispatchPlan, DispatchClaim, DispatchGrant, DispatchLaunch, DispatchDone, DispatchFails,
       RunEnds, RunNotices, RunSettles, RunTells, RunCannotSettle, RunLeaves, Submit, AskCancel, SupersedeNext, Scan,
       Accept, ReadAgain, Refuse, CancelRequest, CancelQueued, Crash, Recover
  <2>4. ASSUME NEW j \in Jobs, RunLeaves(j)
        PROVE  k \in cancels /\ status[k] = "running" => k \in cancels' \cup stranded
    BY <2>4 DEF RunLeaves, RunInv, PhaseMatchesRow
  <2>5. Ready => status[k] # "running"
    BY DEF Ready
  <2> QED BY <1>2, <2>1, <2>2, <2>3, <2>4, <2>5
<1>3. CASE Next /\ ~ UNCHANGED status
  <2>1. PICK j \in Jobs :
          /\ status' = [status EXCEPT ![j] = status'[j]]
          /\ \/ status[j] = "none" /\ status'[j] = "queued"
             \/ status[j] = "queued" /\ status'[j] \in {"running", "cancelled"}
             \/ status[j] = "running" /\ status'[j] \in Final
             \/ status[j] = "passed" /\ status'[j] = "failed" /\ thread[j] = "failing"
    BY <1>3, RowChanges
  <2>2. cancels' = cancels /\ stranded' = stranded /\ mode' = mode
    BY <1>3 DEF Next, RunStep, DispatchPlan, DispatchClaim, DispatchGrant, DispatchLaunch, DispatchDone, DispatchFails,
       RunEnds, RunNotices, RunSettles, RunTells, RunCannotSettle, RunLeaves, Submit, AskCancel, SupersedeNext, Scan,
       Accept, ReadAgain, Refuse, CancelRequest, CancelQueued, Crash, Ready, Recover
  <2> QED BY <2>1, <2>2
<1> QED BY <1>1, <1>2, <1>3

LEMMA RowsStay ==
  ASSUME Typed, RunInv, [Next]_vars, NEW k \in Jobs
  PROVE  /\ status[k] # "none" => status'[k] # "none"
         /\ status[k] \notin {"none", "queued"} => status'[k] \notin {"none", "queued"}
<1>1. CASE UNCHANGED status
  BY <1>1
<1>2. CASE ~ UNCHANGED status
  BY <1>2, RowChanges DEF vars, Typed, TypeOK
<1> QED BY <1>1, <1>2

LEMMA SubmitInvInit == Init => SubmitInv
BY JobQueueAssumption DEF Init, SubmitInv, Owed, AcceptedMeansSuperseded

LEMMA SubmitInvStep == Typed /\ RunInv /\ SubmitInv /\ [Next]_vars => SubmitInv'
<1> SUFFICES ASSUME Typed, RunInv, SubmitInv, [Next]_vars
             PROVE  SubmitInv'
  OBVIOUS
<1>1. \A k \in Jobs : /\ status[k] # "none" => status'[k] # "none"
                      /\ status[k] \notin {"none", "queued"} => status'[k] \notin {"none", "queued"}
                      /\ status[k] # "none" /\ Stopped(k) => Stopped(k)'
  BY RowsStay, StoppedStays
<1>2. AcceptedMeansSuperseded <=> \A j \in Jobs : j \in accepted => \A k \in older[j] : Replaces(j, k) => Stopped(k)
  BY DEF AcceptedMeansSuperseded, Stopped
<1>3. AcceptedMeansSuperseded' <=> \A j \in Jobs : j \in accepted' => \A k \in older'[j] : Replaces(j, k) => Stopped(k)'
  BY DEF AcceptedMeansSuperseded, Stopped, Replaces
<1>4. CASE UNCHANGED <<caller, older, accepted>>
  <2>1. Owed'
    BY <1>1, <1>4 DEF SubmitInv, Owed, Typed, TypeOK, Placed, Replaces
  <2>2. AcceptedMeansSuperseded'
    BY <1>1, <1>2, <1>3, <1>4 DEF SubmitInv, Owed, Typed, TypeOK, Replaces
  <2> QED BY <2>1, <2>2 DEF SubmitInv
<1>5. ASSUME NEW c \in Callers, NEW j \in Jobs, Submit(c, j)
      PROVE  SubmitInv'
  <2> USE DEF Submit, SubmitInv, Typed, TypeOK, Placed
  <2>1. older' = [older EXCEPT ![j] = {k \in Jobs : status[k] # "none"}] /\ j \notin accepted
    BY <1>5 DEF Owed
  <2>2. Owed'
    BY <1>1, <1>5, <2>1, JobQueueAssumption DEF Owed, Replaces
  <2>3. AcceptedMeansSuperseded'
    BY <1>1, <1>2, <1>3, <1>5, <2>1 DEF Owed
  <2> QED BY <2>2, <2>3
<1>6. ASSUME NEW c \in Callers,
             \/ Scan(c) \/ Accept(c) \/ ReadAgain(c) \/ Refuse(c) \/ CancelRequest(c) \/ CancelQueued(c)
             \/ \E j \in Jobs : AskCancel(c, j) \/ SupersedeNext(c, j)
      PROVE  SubmitInv'
  <2> USE DEF SubmitInv, Typed, TypeOK, Placed
  <2>1. CASE Scan(c)
    <3>1. Owed'
      BY <1>1, <2>1, JobQueueAssumption DEF Owed, Scan, Stopped, Replaces
    <3>2. AcceptedMeansSuperseded'
      BY <1>1, <1>2, <1>3, <2>1 DEF Owed, Scan
    <3> QED BY <3>1, <3>2
  <2>2. CASE Accept(c)
    <3>1. Owed'
      BY <1>1, <2>2, JobQueueAssumption DEF Owed, Accept, Replaces
    <3>2. \A k \in older[cnew[c]] : Replaces(cnew[c], k) => Stopped(k)
      BY <2>2, JobQueueAssumption DEF Accept, Owed
    <3>3. AcceptedMeansSuperseded'
      BY <1>1, <1>2, <1>3, <2>2, <3>2 DEF Owed, Accept
    <3> QED BY <3>1, <3>3
  <2>3. CASE ReadAgain(c)
    <3>1. Owed'
      BY <1>1, <2>3, JobQueueAssumption DEF Owed, ReadAgain, Read, Replaces
    <3>2. AcceptedMeansSuperseded'
      BY <1>1, <1>2, <1>3, <2>3 DEF Owed, ReadAgain
    <3> QED BY <3>1, <3>2
  <2>4. CASE Refuse(c)
    <3>1. Owed'
      BY <1>1, <2>4, JobQueueAssumption DEF Owed, Refuse, Replaces
    <3>2. AcceptedMeansSuperseded'
      BY <1>1, <1>2, <1>3, <2>4 DEF Owed, Refuse
    <3> QED BY <3>1, <3>2
  <2>5. CASE CancelRequest(c)
    <3>0. PICK k \in Jobs : k = cjob[c]
      BY <2>5 DEF CancelRequest
    <3>1. Stopped(k)'
      BY <2>5, <1>1, <3>0 DEF CancelRequest, Stopped, Owed
    <3>2. Owed'
      BY <1>1, <2>5, <3>0, <3>1, JobQueueAssumption DEF Owed, CancelRequest, Return, Replaces
    <3>3. AcceptedMeansSuperseded'
      BY <1>1, <1>2, <1>3, <2>5 DEF Owed, CancelRequest, Return
    <3> QED BY <3>2, <3>3
  <2>6. CASE CancelQueued(c)
    <3>1. AcceptedMeansSuperseded'
      BY <1>1, <1>2, <1>3, <2>6 DEF Owed, CancelQueued, Return
    <3>2. CASE status[cjob[c]] = "queued"
      <4>0. PICK k \in Jobs : k = cjob[c]
        BY <2>6 DEF CancelQueued
      <4>1. Stopped(k)'
        BY <2>6, <3>2, <4>0 DEF CancelQueued, Stopped
      <4>2. /\ UNCHANGED <<cnew, ctodo, older, accepted>>
            /\ \A d \in Callers : d # c => cpc'[d] = cpc[d] /\ cjob'[d] = cjob[d]
            /\ cpc'[c] \in {"idle", "next"} /\ cpc[c] = "withdraw"
        BY <2>6, <3>2 DEF CancelQueued, Return
      <4>3. ASSUME NEW d \in Callers, cnew'[d] # NoJob, cpc'[d] # "scan",
                   NEW i \in older'[cnew'[d]], Replaces(cnew'[d], i)
            PROVE  i \in ctodo'[d] \/ cjob'[d] = i \/ Stopped(i)'
        BY <1>1, <4>0, <4>1, <4>2, <4>3 DEF Owed
      <4>4. Owed'
        BY <1>1, <4>2, <4>3 DEF Owed, Replaces
      <4> QED BY <3>1, <4>4
    <3>3. CASE status[cjob[c]] # "queued"
      BY <1>1, <2>6, <3>1, <3>3, JobQueueAssumption DEF Owed, CancelQueued, Replaces
    <3> QED BY <3>2, <3>3
  <2>7. ASSUME NEW j \in Jobs, AskCancel(c, j)
        PROVE  SubmitInv'
    <3>1. Owed'
      BY <1>1, <2>7, JobQueueAssumption DEF Owed, AskCancel, Read, Replaces
    <3>2. AcceptedMeansSuperseded'
      BY <1>1, <1>2, <1>3, <2>7 DEF Owed, AskCancel
    <3> QED BY <3>1, <3>2
  <2>8. ASSUME NEW j \in Jobs, SupersedeNext(c, j)
        PROVE  SubmitInv'
    <3>1. Owed'
      BY <1>1, <2>8, JobQueueAssumption DEF Owed, SupersedeNext, Read, Replaces
    <3>2. AcceptedMeansSuperseded'
      BY <1>1, <1>2, <1>3, <2>8 DEF Owed, SupersedeNext
    <3> QED BY <3>1, <3>2
  <2> QED BY <1>6, <2>1, <2>2, <2>3, <2>4, <2>5, <2>6, <2>7, <2>8
<1>7. CASE Crash
  <2>1. Owed'
    BY <1>1, <1>7, JobQueueAssumption DEF Owed, Crash, SubmitInv, Typed, TypeOK
  <2>2. AcceptedMeansSuperseded'
    BY <1>1, <1>2, <1>3, <1>7 DEF Owed, Crash, SubmitInv, Typed, TypeOK
  <2> QED BY <2>1, <2>2 DEF SubmitInv
<1> QED
  BY <1>4, <1>5, <1>6, <1>7
  DEF vars, Next, RunStep, DispatchPlan, DispatchClaim, DispatchGrant, DispatchLaunch, DispatchDone, DispatchFails,
      RunEnds, RunNotices, RunSettles, RunTells, RunCannotSettle, RunLeaves, Ready, Recover

(* A submission that answered without an error left no older run of its     *)
(* branch queued, or running and not asked to stop.                         *)
THEOREM Superseding == Spec => []AcceptedMeansSuperseded
<1>1. Typed /\ RunInv /\ SubmitInv /\ [Next]_vars => SubmitInv'
  BY SubmitInvStep
<1> QED
  BY <1>1, SubmitInvInit, TypedAlways, RunInvAlways, PTL DEF Spec, SubmitInv
=============================================================================
