---------------------------- MODULE NodeAgentProofs ----------------------------
(***************************************************************************)
(* What a node promises its portal, for every set of runs and every number *)
(* of places.  Of a run leased here once, the inductive invariant says     *)
(* that the parts of the agent have it in turn: the lease loop before any  *)
(* thread, one thread at a time, and the outbox and the report loop only   *)
(* when no thread can change its row any more.                             *)
(***************************************************************************)
EXTENDS NodeAgent, TLAPS

Taken == lpc \notin {"idle", "polling"}
Sending(j) == rpc # "idle" /\ rjob = j
Verdict(j) == IF store[j] = "none" THEN "failed" ELSE store[j]

(* Nothing of this process touches the run again, unless it is leased anew. *)
Over(j) ==
  /\ store[j] \in {"none"} \cup Final
  /\ live[j] = 0 /\ ending[j] = 0
  /\ ljob # j

(* Whoever has a run in hand has it among the leased.                      *)
Hands ==
  /\ up => Entries \subseteq leased \cup twice /\ running \subseteq leased \cup stuck \cup twice
  /\ rpc # "idle" => rjob \in leased \cup twice
  /\ Taken => ljob \in leased \cup twice
  /\ rpc = "evidence" => entry.evidence
  /\ ~up => running = {} /\ lpc = "idle" /\ rpc = "idle" /\ live = AtRest /\ ending = AtRest

(* A verdict that arrived settled the run; a report is given up only for a run  *)
(* that is not running here.                                                    *)
Arrived ==
  /\ \A j \in Jobs : got[j] # "none" => portal[j] = "settled"
  /\ rpc = "dropping" => ~Here(rjob) \/ rjob \in twice

(* The lease loop is ahead of every thread of its run.                     *)
Taking ==
  Taken /\ ljob \notin twice =>
    /\ live[ljob] = 0 /\ ending[ljob] = 0
    /\ lpc \in {"saying", "fetching", "creating"} => store[ljob] = "none"
    /\ lpc = "claiming" => store[ljob] = "queued"
    /\ lpc = "launching" => store[ljob] = "running"

(* One thread at a time, and a row that says how far it is.                *)
Threads ==
  \A j \in Jobs \ twice :
    /\ live[j] > 0 => live[j] = 1 /\ ending[j] = 0 /\ store[j] = "running"
    /\ ending[j] > 0 => ending[j] = 1 /\ live[j] = 0 /\ store[j] \in Final

(* A report, waiting or being sent or arrived, is of a run that is over, and says its verdict. *)
Reported ==
  \A j \in Jobs \ twice :
    /\ outbox[j] # NoReport => Over(j) /\ outbox[j].status = Verdict(j)
    /\ Sending(j) => Over(j) /\ entry.status = Verdict(j)
    /\ got[j] # "none" => Over(j) /\ got[j] = Verdict(j)

(* A thread at its end has written a verdict, and no report says anything else. *)
Ended ==
  /\ \A j \in Jobs : ending[j] > 0 => store[j] \in Final
  /\ \A j \in Jobs : outbox[j] # NoReport => outbox[j].status \in Final
  /\ rpc # "idle" => entry.status \in Final

(* What the portal counts as running is still known here after the process died. *)
Kept == ~up => \A j \in Jobs : portal[j] = "running" => j \in Entries \cup cut \cup twice

IInv ==
  /\ HeldUntilReported /\ Hands /\ Arrived /\ Taking /\ Threads /\ Reported /\ Ended /\ Kept
  /\ PlacesGivenBack

-----------------------------------------------------------------------------
USE DEF Final, Taken, Here, atPortal, disk, threads, lease, report, history

(* What a report may be.                                                   *)
LEMMA ReportsMade ==
  /\ NoReport \in Reports
  /\ \A s \in {"none", "queued", "running"} \cup Final : \A made \in BOOLEAN :
       [status |-> s, evidence |-> made, sent |-> FALSE] \in Reports
  /\ \A e \in Reports : e.evidence => [e EXCEPT !.sent = TRUE] \in Reports
  /\ \A e \in Reports : [e EXCEPT !.sent = TRUE] # NoReport /\ [e EXCEPT !.sent = TRUE].status = e.status
BY DEF NoReport, Reports

(* The portal on its own.                                                  *)
LEMMA PortalKeeps ==
  ASSUME IInv, NEW j \in Jobs, TakesBack(j) \/ Closes(j)
  PROVE  IInv'
<1> USE NodeAgentAssumption DEF IInv
<1>1. CASE TakesBack(j)
  <2>1. TypeOK'
    BY <1>1 DEF TakesBack, TypeOK, Reports, NoReport, AtRest, HeldUntilReported
  <2>2. HeldUntilReported'
    BY <1>1, <2>1 DEF TakesBack, HeldUntilReported, TypeOK, Hands, Arrived, Kept, Entries
  <2>3. Hands'
    BY <1>1 DEF TakesBack, HeldUntilReported, TypeOK, Hands, Entries, AtRest, NoReport, Reported, Over, Sending
  <2>4. Arrived'
    BY <1>1 DEF TakesBack, HeldUntilReported, TypeOK, Hands, Arrived
  <2>5. Taking'
    BY <1>1 DEF TakesBack, HeldUntilReported, TypeOK, Hands, Taking, Threads, AtRest
  <2>6. Threads'
    BY <1>1 DEF TakesBack, HeldUntilReported, TypeOK, Threads, Taking, AtRest
  <2>7. Reported'
    BY <1>1 DEF TakesBack, HeldUntilReported, TypeOK, Hands, Arrived, Taking, Threads, Reported, Over, Sending, Verdict, Entries, NoReport, AtRest
  <2>8. Kept'
    BY <1>1 DEF TakesBack, HeldUntilReported, TypeOK, Kept, Hands, Entries
  <2>9. PlacesGivenBack'
    BY <1>1 DEF TakesBack, HeldUntilReported, TypeOK, Hands, Threads, Taking, Reported, Over, Sending, PlacesGivenBack, AtRest
  <2>10. Ended'
    BY <1>1 DEF TakesBack, HeldUntilReported, TypeOK, Ended, Hands, AtRest, NoReport
  <2> QED BY <2>2, <2>3, <2>4, <2>5, <2>6, <2>7, <2>8, <2>9, <2>10
<1>2. CASE Closes(j)
  <2>1. TypeOK'
    BY <1>2 DEF Closes, TypeOK, Reports, NoReport, AtRest, HeldUntilReported
  <2>2. HeldUntilReported'
    BY <1>2, <2>1 DEF Closes, HeldUntilReported, TypeOK, Hands, Arrived, Kept, Entries
  <2>3. Hands'
    BY <1>2 DEF Closes, HeldUntilReported, TypeOK, Hands, Entries, AtRest, NoReport, Reported, Over, Sending
  <2>4. Arrived'
    BY <1>2 DEF Closes, HeldUntilReported, TypeOK, Hands, Arrived
  <2>5. Taking'
    BY <1>2 DEF Closes, HeldUntilReported, TypeOK, Hands, Taking, Threads, AtRest
  <2>6. Threads'
    BY <1>2 DEF Closes, HeldUntilReported, TypeOK, Threads, Taking, AtRest
  <2>7. Reported'
    BY <1>2 DEF Closes, HeldUntilReported, TypeOK, Hands, Arrived, Taking, Threads, Reported, Over, Sending, Verdict, Entries, NoReport, AtRest
  <2>8. Kept'
    BY <1>2 DEF Closes, HeldUntilReported, TypeOK, Kept, Hands, Entries
  <2>9. PlacesGivenBack'
    BY <1>2 DEF Closes, HeldUntilReported, TypeOK, Hands, Threads, Taking, Reported, Over, Sending, PlacesGivenBack, AtRest
  <2>10. Ended'
    BY <1>2 DEF Closes, HeldUntilReported, TypeOK, Ended, Hands, AtRest, NoReport
  <2> QED BY <2>2, <2>3, <2>4, <2>5, <2>6, <2>7, <2>8, <2>9, <2>10
<1> QED BY <1>1, <1>2

(* The lease loop.                                                         *)
LEMMA LeaseKeeps ==
  ASSUME IInv, LeaseAsk \/ Take
  PROVE  IInv'
<1> USE NodeAgentAssumption DEF IInv
<1>1. CASE LeaseAsk \/ LeaseNothing
  <2>1. TypeOK'
    BY <1>1 DEF LeaseAsk, LeaseNothing, TypeOK, Reports, NoReport, AtRest, HeldUntilReported
  <2>2. HeldUntilReported'
    BY <1>1, <2>1 DEF LeaseAsk, LeaseNothing, HeldUntilReported, TypeOK, Hands, Arrived, Kept, Entries
  <2>3. Hands'
    BY <1>1 DEF LeaseAsk, LeaseNothing, HeldUntilReported, TypeOK, Hands, Entries, AtRest, NoReport, Reported, Over, Sending
  <2>4. Arrived'
    BY <1>1 DEF LeaseAsk, LeaseNothing, HeldUntilReported, TypeOK, Hands, Arrived
  <2>5. Taking'
    BY <1>1 DEF LeaseAsk, LeaseNothing, HeldUntilReported, TypeOK, Hands, Taking, Threads, AtRest
  <2>6. Threads'
    BY <1>1 DEF LeaseAsk, LeaseNothing, HeldUntilReported, TypeOK, Threads, Taking, AtRest
  <2>7. Reported'
    <3>1. UNCHANGED <<store, outbox, live, ending, ljob, rpc, rjob, entry, got, twice>>
      BY <1>1 DEF LeaseAsk, LeaseNothing
    <3> QED BY <3>1 DEF Reported, Over, Sending, Verdict
  <2>8. Kept'
    BY <1>1 DEF LeaseAsk, LeaseNothing, HeldUntilReported, TypeOK, Kept, Hands, Entries
  <2>9. PlacesGivenBack'
    BY <1>1 DEF LeaseAsk, LeaseNothing, HeldUntilReported, TypeOK, Hands, Threads, Taking, Reported, Over, Sending, PlacesGivenBack, AtRest
  <2>10. Ended'
    BY <1>1 DEF LeaseAsk, LeaseNothing, HeldUntilReported, TypeOK, Ended, Hands, AtRest, NoReport
  <2> QED BY <2>2, <2>3, <2>4, <2>5, <2>6, <2>7, <2>8, <2>9, <2>10
<1>2. CASE \E j \in Jobs : LeaseAnswerLost(j)
  <2>1. TypeOK'
    BY <1>2 DEF LeaseAnswerLost, Leases, TypeOK, Reports, NoReport, AtRest, HeldUntilReported
  <2>2. HeldUntilReported'
    BY <1>2, <2>1 DEF LeaseAnswerLost, Leases, HeldUntilReported, TypeOK, Hands, Arrived, Kept, Entries
  <2>3. Hands'
    BY <1>2 DEF LeaseAnswerLost, Leases, HeldUntilReported, TypeOK, Hands, Entries, AtRest, NoReport, Reported, Over, Sending
  <2>4. Arrived'
    BY <1>2 DEF LeaseAnswerLost, Leases, HeldUntilReported, TypeOK, Hands, Arrived
  <2>5. Taking'
    BY <1>2 DEF LeaseAnswerLost, Leases, HeldUntilReported, TypeOK, Hands, Taking, Threads, AtRest
  <2>6. Threads'
    BY <1>2 DEF LeaseAnswerLost, Leases, HeldUntilReported, TypeOK, Threads, Taking, AtRest
  <2>7. Reported'
    BY <1>2 DEF LeaseAnswerLost, Leases, HeldUntilReported, TypeOK, Hands, Arrived, Taking, Threads, Reported, Over, Sending, Verdict, Entries, NoReport, AtRest
  <2>8. Kept'
    BY <1>2 DEF LeaseAnswerLost, Leases, HeldUntilReported, TypeOK, Kept, Hands, Entries
  <2>9. PlacesGivenBack'
    BY <1>2 DEF LeaseAnswerLost, Leases, HeldUntilReported, TypeOK, Hands, Threads, Taking, Reported, Over, Sending, PlacesGivenBack, AtRest
  <2>10. Ended'
    BY <1>2 DEF LeaseAnswerLost, Leases, HeldUntilReported, TypeOK, Ended, Hands, AtRest, NoReport
  <2> QED BY <2>2, <2>3, <2>4, <2>5, <2>6, <2>7, <2>8, <2>9, <2>10
<1>3. CASE \E j \in Jobs : LeaseTaken(j)
  <2>1. TypeOK'
    BY <1>3 DEF LeaseTaken, Leases, TypeOK, Reports, NoReport, AtRest, HeldUntilReported
  <2>2. HeldUntilReported'
    BY <1>3, <2>1 DEF LeaseTaken, Leases, HeldUntilReported, TypeOK, Hands, Arrived, Kept, Entries
  <2>3. Hands'
    BY <1>3 DEF LeaseTaken, Leases, HeldUntilReported, TypeOK, Hands, Entries, AtRest, NoReport, Reported, Over, Sending
  <2>4. Arrived'
    BY <1>3 DEF LeaseTaken, Leases, HeldUntilReported, TypeOK, Hands, Arrived
  <2>5. Taking'
    BY <1>3 DEF LeaseTaken, Leases, HeldUntilReported, TypeOK, Hands, Taking, Threads, AtRest
  <2>6. Threads'
    BY <1>3 DEF LeaseTaken, Leases, HeldUntilReported, TypeOK, Threads, Taking, AtRest
  <2>7. Reported'
    BY <1>3 DEF LeaseTaken, Leases, HeldUntilReported, TypeOK, Hands, Arrived, Taking, Threads, Reported, Over, Sending, Verdict, Entries, NoReport, AtRest
  <2>8. Kept'
    BY <1>3 DEF LeaseTaken, Leases, HeldUntilReported, TypeOK, Kept, Hands, Entries
  <2>9. PlacesGivenBack'
    BY <1>3 DEF LeaseTaken, Leases, HeldUntilReported, TypeOK, Hands, Threads, Taking, Reported, Over, Sending, PlacesGivenBack, AtRest
  <2>10. Ended'
    BY <1>3 DEF LeaseTaken, Leases, HeldUntilReported, TypeOK, Ended, Hands, AtRest, NoReport
  <2> QED BY <2>2, <2>3, <2>4, <2>5, <2>6, <2>7, <2>8, <2>9, <2>10
<1>4. CASE SayTaken
  <2>1. TypeOK'
    BY <1>4 DEF SayTaken, StagePost, TypeOK, Reports, NoReport, AtRest, HeldUntilReported
  <2>2. HeldUntilReported'
    BY <1>4, <2>1 DEF SayTaken, StagePost, HeldUntilReported, TypeOK, Hands, Arrived, Kept, Entries
  <2>3. Hands'
    BY <1>4 DEF SayTaken, StagePost, HeldUntilReported, TypeOK, Hands, Entries, AtRest, NoReport, Reported, Over, Sending
  <2>4. Arrived'
    BY <1>4 DEF SayTaken, StagePost, HeldUntilReported, TypeOK, Hands, Arrived
  <2>5. Taking'
    BY <1>4 DEF SayTaken, StagePost, HeldUntilReported, TypeOK, Hands, Taking, Threads, AtRest
  <2>6. Threads'
    BY <1>4 DEF SayTaken, StagePost, HeldUntilReported, TypeOK, Threads, Taking, AtRest
  <2>7. Reported'
    BY <1>4 DEF SayTaken, StagePost, HeldUntilReported, TypeOK, Hands, Arrived, Taking, Threads, Reported, Over, Sending, Verdict, Entries, NoReport, AtRest
  <2>8. Kept'
    BY <1>4 DEF SayTaken, StagePost, HeldUntilReported, TypeOK, Kept, Hands, Entries
  <2>9. PlacesGivenBack'
    BY <1>4 DEF SayTaken, StagePost, HeldUntilReported, TypeOK, Hands, Threads, Taking, Reported, Over, Sending, PlacesGivenBack, AtRest
  <2>10. Ended'
    BY <1>4 DEF SayTaken, StagePost, HeldUntilReported, TypeOK, Ended, Hands, AtRest, NoReport
  <2> QED BY <2>2, <2>3, <2>4, <2>5, <2>6, <2>7, <2>8, <2>9, <2>10
<1>5. CASE BundleHere
  <2>1. TypeOK'
    BY <1>5 DEF BundleHere, TypeOK, Reports, NoReport, AtRest, HeldUntilReported
  <2>2. HeldUntilReported'
    BY <1>5, <2>1 DEF BundleHere, HeldUntilReported, TypeOK, Hands, Arrived, Kept, Entries
  <2>3. Hands'
    BY <1>5 DEF BundleHere, HeldUntilReported, TypeOK, Hands, Entries, AtRest, NoReport, Reported, Over, Sending
  <2>4. Arrived'
    BY <1>5 DEF BundleHere, HeldUntilReported, TypeOK, Hands, Arrived
  <2>5. Taking'
    BY <1>5 DEF BundleHere, HeldUntilReported, TypeOK, Hands, Taking, Threads, AtRest
  <2>6. Threads'
    BY <1>5 DEF BundleHere, HeldUntilReported, TypeOK, Threads, Taking, AtRest
  <2>7. Reported'
    BY <1>5 DEF BundleHere, HeldUntilReported, TypeOK, Hands, Arrived, Taking, Threads, Reported, Over, Sending, Verdict, Entries, NoReport, AtRest
  <2>8. Kept'
    BY <1>5 DEF BundleHere, HeldUntilReported, TypeOK, Kept, Hands, Entries
  <2>9. PlacesGivenBack'
    BY <1>5 DEF BundleHere, HeldUntilReported, TypeOK, Hands, Threads, Taking, Reported, Over, Sending, PlacesGivenBack, AtRest
  <2>10. Ended'
    BY <1>5 DEF BundleHere, HeldUntilReported, TypeOK, Ended, Hands, AtRest, NoReport
  <2> QED BY <2>2, <2>3, <2>4, <2>5, <2>6, <2>7, <2>8, <2>9, <2>10
<1>6. CASE BundleFails
  <2>1. TypeOK'
    BY <1>6 DEF BundleFails, TypeOK, Reports, NoReport, AtRest, HeldUntilReported
  <2>2. HeldUntilReported'
    BY <1>6, <2>1 DEF BundleFails, HeldUntilReported, TypeOK, Hands, Arrived, Kept, Entries
  <2>3. Hands'
    BY <1>6 DEF BundleFails, HeldUntilReported, TypeOK, Hands, Entries, AtRest, NoReport, Reported, Over, Sending
  <2>4. Arrived'
    BY <1>6 DEF BundleFails, HeldUntilReported, TypeOK, Hands, Arrived
  <2>5. Taking'
    BY <1>6 DEF BundleFails, HeldUntilReported, TypeOK, Hands, Taking, Threads, AtRest
  <2>6. Threads'
    BY <1>6 DEF BundleFails, HeldUntilReported, TypeOK, Threads, Taking, AtRest
  <2>7. Reported'
    <3>1. ljob \in Jobs /\ ljob' = NoJob /\ ljob' \notin Jobs
          /\ UNCHANGED <<store, live, ending, rpc, rjob, entry, got, twice>>
      BY <1>6 DEF BundleFails, HeldUntilReported, TypeOK
    <3>2. outbox'[ljob].status = "failed" /\ \A j \in Jobs \ {ljob} : outbox'[j] = outbox[j]
      BY <1>6, <3>1 DEF BundleFails, HeldUntilReported, TypeOK, NoReport
    <3>3. ljob \notin twice => live[ljob] = 0 /\ ending[ljob] = 0 /\ store[ljob] = "none"
      BY <1>6 DEF BundleFails, Taking
    <3> QED BY <3>1, <3>2, <3>3 DEF Reported, Over, Sending, Verdict
  <2>8. Kept'
    BY <1>6 DEF BundleFails, HeldUntilReported, TypeOK, Kept, Hands, Entries
  <2>9. PlacesGivenBack'
    BY <1>6 DEF BundleFails, HeldUntilReported, TypeOK, Hands, Threads, Taking, Reported, Over, Sending, PlacesGivenBack, AtRest
  <2>10. Ended'
    BY <1>6 DEF BundleFails, HeldUntilReported, TypeOK, Ended, Hands, AtRest, NoReport
  <2> QED BY <2>2, <2>3, <2>4, <2>5, <2>6, <2>7, <2>8, <2>9, <2>10
<1>7. CASE TakeCreate
  <2>1. TypeOK'
    BY <1>7 DEF TakeCreate, TypeOK, Reports, NoReport, AtRest, HeldUntilReported
  <2>2. HeldUntilReported'
    BY <1>7, <2>1 DEF TakeCreate, HeldUntilReported, TypeOK, Hands, Arrived, Kept, Entries
  <2>3. Hands'
    BY <1>7 DEF TakeCreate, HeldUntilReported, TypeOK, Hands, Entries, AtRest, NoReport, Reported, Over, Sending
  <2>4. Arrived'
    BY <1>7 DEF TakeCreate, HeldUntilReported, TypeOK, Hands, Arrived
  <2>5. Taking'
    BY <1>7 DEF TakeCreate, HeldUntilReported, TypeOK, Hands, Taking, Threads, AtRest
  <2>6. Threads'
    BY <1>7 DEF TakeCreate, HeldUntilReported, TypeOK, Threads, Taking, AtRest
  <2>7. Reported'
    BY <1>7 DEF TakeCreate, HeldUntilReported, TypeOK, Hands, Arrived, Taking, Threads, Reported, Over, Sending, Verdict, Entries, NoReport, AtRest
  <2>8. Kept'
    BY <1>7 DEF TakeCreate, HeldUntilReported, TypeOK, Kept, Hands, Entries
  <2>9. PlacesGivenBack'
    BY <1>7 DEF TakeCreate, HeldUntilReported, TypeOK, Hands, Threads, Taking, Reported, Over, Sending, PlacesGivenBack, AtRest
  <2>10. Ended'
    BY <1>7 DEF TakeCreate, HeldUntilReported, TypeOK, Ended, Hands, AtRest, NoReport
  <2> QED BY <2>2, <2>3, <2>4, <2>5, <2>6, <2>7, <2>8, <2>9, <2>10
<1>8. CASE TakeClaim
  <2>1. TypeOK'
    BY <1>8 DEF TakeClaim, TypeOK, Reports, NoReport, AtRest, HeldUntilReported
  <2>2. HeldUntilReported'
    BY <1>8, <2>1 DEF TakeClaim, HeldUntilReported, TypeOK, Hands, Arrived, Kept, Entries
  <2>3. Hands'
    BY <1>8 DEF TakeClaim, HeldUntilReported, TypeOK, Hands, Entries, AtRest, NoReport, Reported, Over, Sending
  <2>4. Arrived'
    BY <1>8 DEF TakeClaim, HeldUntilReported, TypeOK, Hands, Arrived
  <2>5. Taking'
    BY <1>8 DEF TakeClaim, HeldUntilReported, TypeOK, Hands, Taking, Threads, AtRest
  <2>6. Threads'
    BY <1>8 DEF TakeClaim, HeldUntilReported, TypeOK, Threads, Taking, AtRest
  <2>7. Reported'
    BY <1>8 DEF TakeClaim, HeldUntilReported, TypeOK, Hands, Arrived, Taking, Threads, Reported, Over, Sending, Verdict, Entries, NoReport, AtRest
  <2>8. Kept'
    BY <1>8 DEF TakeClaim, HeldUntilReported, TypeOK, Kept, Hands, Entries
  <2>9. PlacesGivenBack'
    BY <1>8 DEF TakeClaim, HeldUntilReported, TypeOK, Hands, Threads, Taking, Reported, Over, Sending, PlacesGivenBack, AtRest
  <2>10. Ended'
    BY <1>8 DEF TakeClaim, HeldUntilReported, TypeOK, Ended, Hands, AtRest, NoReport
  <2> QED BY <2>2, <2>3, <2>4, <2>5, <2>6, <2>7, <2>8, <2>9, <2>10
<1>9. CASE TakeLaunch
  <2>1. TypeOK'
    BY <1>9 DEF TakeLaunch, TypeOK, Reports, NoReport, AtRest, HeldUntilReported
  <2>2. HeldUntilReported'
    BY <1>9, <2>1 DEF TakeLaunch, HeldUntilReported, TypeOK, Hands, Arrived, Kept, Entries
  <2>3. Hands'
    BY <1>9 DEF TakeLaunch, HeldUntilReported, TypeOK, Hands, Entries, AtRest, NoReport, Reported, Over, Sending
  <2>4. Arrived'
    BY <1>9 DEF TakeLaunch, HeldUntilReported, TypeOK, Hands, Arrived
  <2>5. Taking'
    BY <1>9 DEF TakeLaunch, HeldUntilReported, TypeOK, Hands, Taking, Threads, AtRest
  <2>6. Threads'
    BY <1>9 DEF TakeLaunch, HeldUntilReported, TypeOK, Threads, Taking, AtRest
  <2>7. Reported'
    BY <1>9 DEF TakeLaunch, HeldUntilReported, TypeOK, Hands, Arrived, Taking, Threads, Reported, Over, Sending, Verdict, Entries, NoReport, AtRest
  <2>8. Kept'
    BY <1>9 DEF TakeLaunch, HeldUntilReported, TypeOK, Kept, Hands, Entries
  <2>9. PlacesGivenBack'
    BY <1>9 DEF TakeLaunch, HeldUntilReported, TypeOK, Hands, Threads, Taking, Reported, Over, Sending, PlacesGivenBack, AtRest
  <2>10. Ended'
    BY <1>9 DEF TakeLaunch, HeldUntilReported, TypeOK, Ended, Hands, AtRest, NoReport
  <2> QED BY <2>2, <2>3, <2>4, <2>5, <2>6, <2>7, <2>8, <2>9, <2>10
<1>10. CASE TakeRaises
  <2>1. TypeOK'
    BY <1>10 DEF TakeRaises, TypeOK, Reports, NoReport, AtRest, HeldUntilReported
  <2>2. HeldUntilReported'
    BY <1>10, <2>1 DEF TakeRaises, HeldUntilReported, TypeOK, Hands, Arrived, Kept, Entries
  <2>3. Hands'
    BY <1>10 DEF TakeRaises, HeldUntilReported, TypeOK, Hands, Entries, AtRest, NoReport, Reported, Over, Sending
  <2>4. Arrived'
    BY <1>10 DEF TakeRaises, HeldUntilReported, TypeOK, Hands, Arrived
  <2>5. Taking'
    BY <1>10 DEF TakeRaises, HeldUntilReported, TypeOK, Hands, Taking, Threads, AtRest
  <2>6. Threads'
    BY <1>10 DEF TakeRaises, HeldUntilReported, TypeOK, Threads, Taking, AtRest
  <2>7. Reported'
    BY <1>10 DEF TakeRaises, HeldUntilReported, TypeOK, Hands, Arrived, Taking, Threads, Reported, Over, Sending, Verdict, Entries, NoReport, AtRest
  <2>8. Kept'
    BY <1>10 DEF TakeRaises, HeldUntilReported, TypeOK, Kept, Hands, Entries
  <2>9. PlacesGivenBack'
    BY <1>10 DEF TakeRaises, HeldUntilReported, TypeOK, Hands, Threads, Taking, Reported, Over, Sending, PlacesGivenBack, AtRest
  <2>10. Ended'
    BY <1>10 DEF TakeRaises, HeldUntilReported, TypeOK, Ended, Hands, AtRest, NoReport
  <2> QED BY <2>2, <2>3, <2>4, <2>5, <2>6, <2>7, <2>8, <2>9, <2>10
<1> QED BY <1>1, <1>2, <1>3, <1>4, <1>5, <1>6, <1>7, <1>8, <1>9, <1>10 DEF Take

(* A run's threads.                                                        *)
LEMMA RunsKeep ==
  ASSUME IInv, NEW j \in Jobs, RunStep(j)
  PROVE  IInv'
<1> USE NodeAgentAssumption DEF IInv
<1>1. CASE StartCarriedOver(j)
  <2>1. TypeOK'
    BY <1>1 DEF StartCarriedOver, TypeOK, Reports, NoReport, AtRest, HeldUntilReported
  <2>2. HeldUntilReported'
    BY <1>1, <2>1 DEF StartCarriedOver, HeldUntilReported, TypeOK, Hands, Arrived, Kept, Entries
  <2>3. Hands'
    BY <1>1 DEF StartCarriedOver, HeldUntilReported, TypeOK, Hands, Entries, AtRest, NoReport, Reported, Over, Sending
  <2>4. Arrived'
    BY <1>1 DEF StartCarriedOver, HeldUntilReported, TypeOK, Hands, Arrived
  <2>5. Taking'
    BY <1>1 DEF StartCarriedOver, HeldUntilReported, TypeOK, Hands, Taking, Threads, AtRest
  <2>6. Threads'
    BY <1>1 DEF StartCarriedOver, HeldUntilReported, TypeOK, Threads, Taking, AtRest
  <2>7. Reported'
    BY <1>1 DEF StartCarriedOver, HeldUntilReported, TypeOK, Hands, Arrived, Taking, Threads, Reported, Over, Sending, Verdict, Entries, NoReport, AtRest
  <2>8. Kept'
    BY <1>1 DEF StartCarriedOver, HeldUntilReported, TypeOK, Kept, Hands, Entries
  <2>9. PlacesGivenBack'
    BY <1>1 DEF StartCarriedOver, HeldUntilReported, TypeOK, Hands, Threads, Taking, Reported, Over, Sending, PlacesGivenBack, AtRest
  <2>10. Ended'
    BY <1>1 DEF StartCarriedOver, HeldUntilReported, TypeOK, Ended, Hands, AtRest, NoReport
  <2> QED BY <2>2, <2>3, <2>4, <2>5, <2>6, <2>7, <2>8, <2>9, <2>10
<1>2. CASE StageBegins(j)
  <2>1. TypeOK'
    BY <1>2 DEF StageBegins, StagePost, TypeOK, Reports, NoReport, AtRest, HeldUntilReported
  <2>2. HeldUntilReported'
    BY <1>2, <2>1 DEF StageBegins, StagePost, HeldUntilReported, TypeOK, Hands, Arrived, Kept, Entries
  <2>3. Hands'
    BY <1>2 DEF StageBegins, StagePost, HeldUntilReported, TypeOK, Hands, Entries, AtRest, NoReport, Reported, Over, Sending
  <2>4. Arrived'
    BY <1>2 DEF StageBegins, StagePost, HeldUntilReported, TypeOK, Hands, Arrived
  <2>5. Taking'
    BY <1>2 DEF StageBegins, StagePost, HeldUntilReported, TypeOK, Hands, Taking, Threads, AtRest
  <2>6. Threads'
    BY <1>2 DEF StageBegins, StagePost, HeldUntilReported, TypeOK, Threads, Taking, AtRest
  <2>7. Reported'
    BY <1>2 DEF StageBegins, StagePost, HeldUntilReported, TypeOK, Hands, Arrived, Taking, Threads, Reported, Over, Sending, Verdict, Entries, NoReport, AtRest
  <2>8. Kept'
    BY <1>2 DEF StageBegins, StagePost, HeldUntilReported, TypeOK, Kept, Hands, Entries
  <2>9. PlacesGivenBack'
    BY <1>2 DEF StageBegins, StagePost, HeldUntilReported, TypeOK, Hands, Threads, Taking, Reported, Over, Sending, PlacesGivenBack, AtRest
  <2>10. Ended'
    BY <1>2 DEF StageBegins, StagePost, HeldUntilReported, TypeOK, Ended, Hands, AtRest, NoReport
  <2> QED BY <2>2, <2>3, <2>4, <2>5, <2>6, <2>7, <2>8, <2>9, <2>10
<1>3. CASE RunEnds(j)
  <2>1. TypeOK'
    BY <1>3 DEF RunEnds, TypeOK, Reports, NoReport, AtRest, HeldUntilReported
  <2>2. HeldUntilReported'
    BY <1>3, <2>1 DEF RunEnds, HeldUntilReported, TypeOK, Hands, Arrived, Kept, Entries
  <2>3. Hands'
    BY <1>3 DEF RunEnds, HeldUntilReported, TypeOK, Hands, Entries, AtRest, NoReport, Reported, Over, Sending
  <2>4. Arrived'
    BY <1>3 DEF RunEnds, HeldUntilReported, TypeOK, Hands, Arrived
  <2>5. Taking'
    BY <1>3 DEF RunEnds, HeldUntilReported, TypeOK, Hands, Taking, Threads, AtRest
  <2>6. Threads'
    BY <1>3 DEF RunEnds, HeldUntilReported, TypeOK, Threads, Taking, AtRest
  <2>7. Reported'
    BY <1>3 DEF RunEnds, HeldUntilReported, TypeOK, Hands, Arrived, Taking, Threads, Reported, Over, Sending, Verdict, Entries, NoReport, AtRest
  <2>8. Kept'
    BY <1>3 DEF RunEnds, HeldUntilReported, TypeOK, Kept, Hands, Entries
  <2>9. PlacesGivenBack'
    BY <1>3 DEF RunEnds, HeldUntilReported, TypeOK, Hands, Threads, Taking, Reported, Over, Sending, PlacesGivenBack, AtRest
  <2>10. Ended'
    BY <1>3 DEF RunEnds, HeldUntilReported, TypeOK, Ended, Hands, AtRest, NoReport
  <2> QED BY <2>2, <2>3, <2>4, <2>5, <2>6, <2>7, <2>8, <2>9, <2>10
<1>4. CASE Finished(j)
  <2>1. TypeOK'
    <3>1. \A made \in BOOLEAN : [status |-> store[j], evidence |-> made, sent |-> FALSE] \in Reports
      BY ReportsMade DEF HeldUntilReported, TypeOK
    <3>2. outbox' \in [Jobs -> Reports]
      BY <1>4, <3>1 DEF Finished, HeldUntilReported, TypeOK
    <3>3. ending' \in [Jobs -> Nat]
      BY <1>4 DEF Finished, HeldUntilReported, TypeOK
    <3>4. running' \subseteq Jobs /\ torn' \subseteq Jobs
      BY <1>4 DEF Finished, HeldUntilReported, TypeOK
    <3>5. UNCHANGED <<atPortal, store, up, leased, live, lease, report, history>>
      BY <1>4 DEF Finished
    <3> QED BY <3>2, <3>3, <3>4, <3>5 DEF HeldUntilReported, TypeOK
  <2>2. HeldUntilReported'
    BY <1>4, <2>1 DEF Finished, HeldUntilReported, TypeOK, Hands, Arrived, Kept, Entries
  <2>3. Hands'
    BY <1>4 DEF Finished, HeldUntilReported, TypeOK, Hands, Entries, AtRest, NoReport, Reported, Over, Sending
  <2>4. Arrived'
    BY <1>4 DEF Finished, HeldUntilReported, TypeOK, Hands, Arrived
  <2>5. Taking'
    BY <1>4 DEF Finished, HeldUntilReported, TypeOK, Hands, Taking, Threads, AtRest
  <2>6. Threads'
    BY <1>4 DEF Finished, HeldUntilReported, TypeOK, Threads, Taking, AtRest
  <2>7. Reported'
    <3>1. /\ ending[j] > 0 /\ ending'[j] = ending[j] - 1
          /\ \A k \in Jobs \ {j} : ending'[k] = ending[k] /\ outbox'[k] = outbox[k]
          /\ UNCHANGED <<store, live, ljob, rpc, rjob, entry, got, twice>>
      BY <1>4 DEF Finished, HeldUntilReported, TypeOK
    <3>2. outbox'[j] = outbox[j] \/ outbox'[j].status = store[j]
      BY <1>4 DEF Finished, HeldUntilReported, TypeOK
    <3>3. j \notin twice => ending[j] = 1 /\ live[j] = 0 /\ store[j] \in Final
      BY <3>1 DEF Threads
    <3>4. j \notin twice => ljob # j
      BY <3>1 DEF Taking, HeldUntilReported, TypeOK
    <3>5. j \notin twice => outbox[j] = NoReport /\ ~Sending(j) /\ got[j] = "none"
      BY <3>1, <3>3 DEF Reported, Over
    <3> QED BY <3>1, <3>2, <3>3, <3>4, <3>5 DEF Reported, Over, Sending, Verdict
  <2>8. Kept'
    BY <1>4 DEF Finished, HeldUntilReported, TypeOK, Kept, Hands, Entries
  <2>9. PlacesGivenBack'
    BY <1>4 DEF Finished, HeldUntilReported, TypeOK, Hands, Threads, Taking, Reported, Over, Sending, PlacesGivenBack, AtRest
  <2>10. Ended'
    <3>1. /\ ending[j] > 0 /\ ending'[j] = ending[j] - 1
          /\ \A k \in Jobs \ {j} : ending'[k] = ending[k] /\ outbox'[k] = outbox[k]
          /\ UNCHANGED <<store, rpc, entry>>
      BY <1>4 DEF Finished, HeldUntilReported, TypeOK
    <3>2. outbox'[j] = outbox[j] \/ outbox'[j].status = store[j]
      BY <1>4 DEF Finished, HeldUntilReported, TypeOK
    <3> QED BY <3>1, <3>2 DEF Ended
  <2> QED BY <2>2, <2>3, <2>4, <2>5, <2>6, <2>7, <2>8, <2>9, <2>10
<1>5. CASE FinishedRaises(j)
  <2>1. TypeOK'
    BY <1>5 DEF FinishedRaises, TypeOK, Reports, NoReport, AtRest, HeldUntilReported
  <2>2. HeldUntilReported'
    BY <1>5, <2>1 DEF FinishedRaises, HeldUntilReported, TypeOK, Hands, Arrived, Kept, Entries
  <2>3. Hands'
    BY <1>5 DEF FinishedRaises, HeldUntilReported, TypeOK, Hands, Entries, AtRest, NoReport, Reported, Over, Sending
  <2>4. Arrived'
    BY <1>5 DEF FinishedRaises, HeldUntilReported, TypeOK, Hands, Arrived
  <2>5. Taking'
    BY <1>5 DEF FinishedRaises, HeldUntilReported, TypeOK, Hands, Taking, Threads, AtRest
  <2>6. Threads'
    BY <1>5 DEF FinishedRaises, HeldUntilReported, TypeOK, Threads, Taking, AtRest
  <2>7. Reported'
    BY <1>5 DEF FinishedRaises, HeldUntilReported, TypeOK, Hands, Arrived, Taking, Threads, Reported, Over, Sending, Verdict, Entries, NoReport, AtRest
  <2>8. Kept'
    BY <1>5 DEF FinishedRaises, HeldUntilReported, TypeOK, Kept, Hands, Entries
  <2>9. PlacesGivenBack'
    BY <1>5 DEF FinishedRaises, HeldUntilReported, TypeOK, Hands, Threads, Taking, Reported, Over, Sending, PlacesGivenBack, AtRest
  <2>10. Ended'
    BY <1>5 DEF FinishedRaises, HeldUntilReported, TypeOK, Ended, Hands, AtRest, NoReport
  <2> QED BY <2>2, <2>3, <2>4, <2>5, <2>6, <2>7, <2>8, <2>9, <2>10
<1> QED BY <1>1, <1>2, <1>3, <1>4, <1>5 DEF RunStep

(* The report loop.                                                        *)
LEMMA ReportKeeps ==
  ASSUME IInv, (\E j \in Jobs : Deliver(j)) \/ EvidenceSent \/ EvidenceAnswerLost \/ Marked \/ MarkRaises
           \/ ResultSent \/ ResultAnswerLost \/ Refused \/ PostLost \/ Drop
  PROVE  IInv'
<1> USE NodeAgentAssumption DEF IInv
<1>1. CASE \E j \in Jobs : Deliver(j)
  <2>1. TypeOK'
    BY <1>1 DEF Deliver, TypeOK, Reports, NoReport, AtRest, HeldUntilReported
  <2>2. HeldUntilReported'
    BY <1>1, <2>1 DEF Deliver, HeldUntilReported, TypeOK, Hands, Arrived, Kept, Entries
  <2>3. Hands'
    BY <1>1 DEF Deliver, HeldUntilReported, TypeOK, Hands, Entries, AtRest, NoReport, Reported, Over, Sending
  <2>4. Arrived'
    BY <1>1 DEF Deliver, HeldUntilReported, TypeOK, Hands, Arrived
  <2>5. Taking'
    BY <1>1 DEF Deliver, HeldUntilReported, TypeOK, Hands, Taking, Threads, AtRest
  <2>6. Threads'
    BY <1>1 DEF Deliver, HeldUntilReported, TypeOK, Threads, Taking, AtRest
  <2>7. Reported'
    BY <1>1 DEF Deliver, HeldUntilReported, TypeOK, Hands, Arrived, Taking, Threads, Reported, Over, Sending, Verdict, Entries, NoReport, AtRest
  <2>8. Kept'
    BY <1>1 DEF Deliver, HeldUntilReported, TypeOK, Kept, Hands, Entries
  <2>9. PlacesGivenBack'
    BY <1>1 DEF Deliver, HeldUntilReported, TypeOK, Hands, Threads, Taking, Reported, Over, Sending, PlacesGivenBack, AtRest
  <2>10. Ended'
    BY <1>1 DEF Deliver, HeldUntilReported, TypeOK, Ended, Hands, AtRest, NoReport
  <2> QED BY <2>2, <2>3, <2>4, <2>5, <2>6, <2>7, <2>8, <2>9, <2>10
<1>2. CASE EvidenceSent
  <2>1. TypeOK'
    <3>1. rjob \in Jobs /\ entry' \in Reports
      BY <1>2, ReportsMade DEF EvidenceSent, HeldUntilReported, TypeOK, Hands
    <3>2. outbox' \in [Jobs -> Reports]
      BY <1>2, <3>1 DEF EvidenceSent, HeldUntilReported, TypeOK
    <3> QED BY <1>2, <3>1, <3>2 DEF EvidenceSent, HeldUntilReported, TypeOK
  <2>2. HeldUntilReported'
    BY <1>2, <2>1 DEF EvidenceSent, HeldUntilReported, TypeOK, Hands, Arrived, Kept, Entries
  <2>3. Hands'
    BY <1>2 DEF EvidenceSent, HeldUntilReported, TypeOK, Hands, Entries, AtRest, NoReport, Reported, Over, Sending
  <2>4. Arrived'
    BY <1>2 DEF EvidenceSent, HeldUntilReported, TypeOK, Hands, Arrived
  <2>5. Taking'
    BY <1>2 DEF EvidenceSent, HeldUntilReported, TypeOK, Hands, Taking, Threads, AtRest
  <2>6. Threads'
    BY <1>2 DEF EvidenceSent, HeldUntilReported, TypeOK, Threads, Taking, AtRest
  <2>7. Reported'
    <3>1. /\ rpc = "evidence" /\ rpc' = "marking" /\ rjob \in Jobs
          /\ outbox'[rjob] = entry' /\ \A j \in Jobs \ {rjob} : outbox'[j] = outbox[j]
          /\ UNCHANGED <<store, live, ending, ljob, rjob, got, twice>>
      BY <1>2 DEF EvidenceSent, HeldUntilReported, TypeOK
    <3>2. entry'.status = entry.status
      BY <1>2, ReportsMade DEF EvidenceSent, HeldUntilReported, TypeOK
    <3> QED BY <3>1, <3>2 DEF Reported, Over, Sending, Verdict
  <2>8. Kept'
    BY <1>2 DEF EvidenceSent, HeldUntilReported, TypeOK, Kept, Hands, Entries
  <2>9. PlacesGivenBack'
    BY <1>2 DEF EvidenceSent, HeldUntilReported, TypeOK, Hands, Threads, Taking, Reported, Over, Sending, PlacesGivenBack, AtRest
  <2>10. Ended'
    <3>1. /\ rpc = "evidence" /\ rjob \in Jobs /\ UNCHANGED <<store, ending>>
          /\ outbox'[rjob] = entry' /\ \A j \in Jobs \ {rjob} : outbox'[j] = outbox[j]
      BY <1>2 DEF EvidenceSent, HeldUntilReported, TypeOK
    <3>2. entry'.status = entry.status
      BY <1>2, ReportsMade DEF EvidenceSent, HeldUntilReported, TypeOK
    <3> QED BY <3>1, <3>2 DEF Ended
  <2> QED BY <2>2, <2>3, <2>4, <2>5, <2>6, <2>7, <2>8, <2>9, <2>10
<1>3. CASE EvidenceAnswerLost \/ PostLost \/ MarkRaises
  <2>1. TypeOK'
    BY <1>3, ReportsMade DEF EvidenceAnswerLost, PostLost, MarkRaises, Rested, HeldUntilReported, TypeOK
  <2>2. HeldUntilReported'
    BY <1>3, <2>1 DEF EvidenceAnswerLost, PostLost, MarkRaises, Rested, HeldUntilReported, TypeOK, Hands, Arrived, Kept, Entries
  <2>3. Hands'
    BY <1>3 DEF EvidenceAnswerLost, PostLost, MarkRaises, Rested, HeldUntilReported, TypeOK, Hands, Entries, AtRest, NoReport, Reported, Over, Sending
  <2>4. Arrived'
    BY <1>3 DEF EvidenceAnswerLost, PostLost, MarkRaises, Rested, HeldUntilReported, TypeOK, Hands, Arrived
  <2>5. Taking'
    BY <1>3 DEF EvidenceAnswerLost, PostLost, MarkRaises, Rested, HeldUntilReported, TypeOK, Hands, Taking, Threads, AtRest
  <2>6. Threads'
    BY <1>3 DEF EvidenceAnswerLost, PostLost, MarkRaises, Rested, HeldUntilReported, TypeOK, Threads, Taking, AtRest
  <2>7. Reported'
    <3>1. rpc' = "idle" /\ UNCHANGED <<store, outbox, live, ending, ljob, got, twice>>
      BY <1>3 DEF EvidenceAnswerLost, PostLost, MarkRaises, Rested
    <3> QED BY <3>1 DEF Reported, Over, Sending, Verdict
  <2>8. Kept'
    BY <1>3 DEF EvidenceAnswerLost, PostLost, MarkRaises, Rested, HeldUntilReported, TypeOK, Kept, Hands, Entries
  <2>9. PlacesGivenBack'
    BY <1>3 DEF EvidenceAnswerLost, PostLost, MarkRaises, Rested, HeldUntilReported, TypeOK, Hands, Threads, Taking, Reported, Over, Sending, PlacesGivenBack, AtRest
  <2>10. Ended'
    BY <1>3 DEF EvidenceAnswerLost, PostLost, MarkRaises, Rested, HeldUntilReported, TypeOK, Ended, Hands, AtRest, NoReport
  <2> QED BY <2>2, <2>3, <2>4, <2>5, <2>6, <2>7, <2>8, <2>9, <2>10
<1>4. CASE ResultSent
  <2>1. TypeOK'
    <3>1. rjob \in Jobs /\ entry.status \in Final
      BY <1>4 DEF ResultSent, HeldUntilReported, TypeOK, Ended
    <3> QED BY <1>4, <3>1 DEF ResultSent, Accepts, HeldUntilReported, TypeOK
  <2>2. HeldUntilReported'
    BY <1>4, <2>1 DEF ResultSent, Accepts, HeldUntilReported, TypeOK, Hands, Arrived, Kept, Entries
  <2>3. Hands'
    BY <1>4 DEF ResultSent, Accepts, HeldUntilReported, TypeOK, Hands, Entries, AtRest, NoReport, Reported, Over, Sending
  <2>4. Arrived'
    BY <1>4 DEF ResultSent, Accepts, HeldUntilReported, TypeOK, Hands, Arrived
  <2>5. Taking'
    BY <1>4 DEF ResultSent, Accepts, HeldUntilReported, TypeOK, Hands, Taking, Threads, AtRest
  <2>6. Threads'
    BY <1>4 DEF ResultSent, Accepts, HeldUntilReported, TypeOK, Threads, Taking, AtRest
  <2>7. Reported'
    BY <1>4 DEF ResultSent, Accepts, HeldUntilReported, TypeOK, Hands, Arrived, Taking, Threads, Reported, Over, Sending, Verdict, Entries, NoReport, AtRest
  <2>8. Kept'
    BY <1>4 DEF ResultSent, Accepts, HeldUntilReported, TypeOK, Kept, Hands, Entries
  <2>9. PlacesGivenBack'
    BY <1>4 DEF ResultSent, Accepts, HeldUntilReported, TypeOK, Hands, Threads, Taking, Reported, Over, Sending, PlacesGivenBack, AtRest
  <2>10. Ended'
    BY <1>4 DEF ResultSent, Accepts, HeldUntilReported, TypeOK, Ended, Hands, AtRest, NoReport
  <2> QED BY <2>2, <2>3, <2>4, <2>5, <2>6, <2>7, <2>8, <2>9, <2>10
<1>5. CASE ResultAnswerLost
  <2>1. TypeOK'
    <3>1. rjob \in Jobs /\ entry.status \in Final
      BY <1>5 DEF ResultAnswerLost, HeldUntilReported, TypeOK, Ended
    <3> QED BY <1>5, <3>1, ReportsMade DEF ResultAnswerLost, Accepts, Rested, HeldUntilReported, TypeOK
  <2>2. HeldUntilReported'
    BY <1>5, <2>1 DEF ResultAnswerLost, Accepts, Rested, HeldUntilReported, TypeOK, Hands, Arrived, Kept, Entries
  <2>3. Hands'
    BY <1>5 DEF ResultAnswerLost, Accepts, Rested, HeldUntilReported, TypeOK, Hands, Entries, AtRest, NoReport, Reported, Over, Sending
  <2>4. Arrived'
    BY <1>5 DEF ResultAnswerLost, Accepts, Rested, HeldUntilReported, TypeOK, Hands, Arrived
  <2>5. Taking'
    BY <1>5 DEF ResultAnswerLost, Accepts, Rested, HeldUntilReported, TypeOK, Hands, Taking, Threads, AtRest
  <2>6. Threads'
    BY <1>5 DEF ResultAnswerLost, Accepts, Rested, HeldUntilReported, TypeOK, Threads, Taking, AtRest
  <2>7. Reported'
    BY <1>5 DEF ResultAnswerLost, Accepts, Rested, HeldUntilReported, TypeOK, Hands, Arrived, Taking, Threads, Reported, Over, Sending, Verdict, Entries, NoReport, AtRest
  <2>8. Kept'
    BY <1>5 DEF ResultAnswerLost, Accepts, Rested, HeldUntilReported, TypeOK, Kept, Hands, Entries
  <2>9. PlacesGivenBack'
    BY <1>5 DEF ResultAnswerLost, Accepts, Rested, HeldUntilReported, TypeOK, Hands, Threads, Taking, Reported, Over, Sending, PlacesGivenBack, AtRest
  <2>10. Ended'
    BY <1>5 DEF ResultAnswerLost, Accepts, Rested, HeldUntilReported, TypeOK, Ended, Hands, AtRest, NoReport
  <2> QED BY <2>2, <2>3, <2>4, <2>5, <2>6, <2>7, <2>8, <2>9, <2>10
<1>6. CASE Refused
  <2>1. TypeOK'
    BY <1>6 DEF Refused, TypeOK, Reports, NoReport, AtRest, HeldUntilReported
  <2>2. HeldUntilReported'
    BY <1>6, <2>1 DEF Refused, HeldUntilReported, TypeOK, Hands, Arrived, Kept, Entries
  <2>3. Hands'
    BY <1>6 DEF Refused, HeldUntilReported, TypeOK, Hands, Entries, AtRest, NoReport, Reported, Over, Sending
  <2>4. Arrived'
    BY <1>6 DEF Refused, HeldUntilReported, TypeOK, Hands, Arrived
  <2>5. Taking'
    BY <1>6 DEF Refused, HeldUntilReported, TypeOK, Hands, Taking, Threads, AtRest
  <2>6. Threads'
    BY <1>6 DEF Refused, HeldUntilReported, TypeOK, Threads, Taking, AtRest
  <2>7. Reported'
    BY <1>6 DEF Refused, HeldUntilReported, TypeOK, Hands, Arrived, Taking, Threads, Reported, Over, Sending, Verdict, Entries, NoReport, AtRest
  <2>8. Kept'
    BY <1>6 DEF Refused, HeldUntilReported, TypeOK, Kept, Hands, Entries
  <2>9. PlacesGivenBack'
    BY <1>6 DEF Refused, HeldUntilReported, TypeOK, Hands, Threads, Taking, Reported, Over, Sending, PlacesGivenBack, AtRest
  <2>10. Ended'
    BY <1>6 DEF Refused, HeldUntilReported, TypeOK, Ended, Hands, AtRest, NoReport
  <2> QED BY <2>2, <2>3, <2>4, <2>5, <2>6, <2>7, <2>8, <2>9, <2>10
<1>7. CASE Drop
  <2>1. TypeOK'
    BY <1>7 DEF Drop, Rested, TypeOK, Reports, NoReport, AtRest, HeldUntilReported
  <2>2. HeldUntilReported'
    BY <1>7, <2>1 DEF Drop, Rested, HeldUntilReported, TypeOK, Hands, Arrived, Kept, Entries
  <2>3. Hands'
    <3>1. /\ rpc = "dropping" /\ rjob \in Jobs /\ rpc' = "idle" /\ up /\ up' /\ leased' = leased \ {rjob}
          /\ outbox'[rjob] = NoReport /\ \A j \in Jobs \ {rjob} : outbox'[j] = outbox[j]
          /\ UNCHANGED <<running, live, ending, lpc, ljob, stuck, twice>>
      BY <1>7 DEF Drop, Rested, HeldUntilReported, TypeOK
    <3>2. rjob \notin twice => Over(rjob)
      BY <3>1 DEF Reported, Sending
    <3>3. rjob \in running => rjob \in stuck \cup twice
      BY <3>1, <3>2 DEF Over, PlacesGivenBack
    <3>4. Taken => ljob # rjob \/ ljob \in twice
      BY <3>2 DEF Over
    <3> QED BY <3>1, <3>3, <3>4 DEF Hands, Entries
  <2>4. Arrived'
    BY <1>7 DEF Drop, Rested, HeldUntilReported, TypeOK, Hands, Arrived
  <2>5. Taking'
    BY <1>7 DEF Drop, Rested, HeldUntilReported, TypeOK, Hands, Taking, Threads, AtRest
  <2>6. Threads'
    BY <1>7 DEF Drop, Rested, HeldUntilReported, TypeOK, Threads, Taking, AtRest
  <2>7. Reported'
    BY <1>7 DEF Drop, Rested, HeldUntilReported, TypeOK, Hands, Arrived, Taking, Threads, Reported, Over, Sending, Verdict, Entries, NoReport, AtRest
  <2>8. Kept'
    BY <1>7 DEF Drop, Rested, HeldUntilReported, TypeOK, Kept, Hands, Entries
  <2>9. PlacesGivenBack'
    BY <1>7 DEF Drop, Rested, HeldUntilReported, TypeOK, Hands, Threads, Taking, Reported, Over, Sending, PlacesGivenBack, AtRest
  <2>10. Ended'
    BY <1>7 DEF Drop, Rested, HeldUntilReported, TypeOK, Ended, Hands, AtRest, NoReport
  <2> QED BY <2>2, <2>3, <2>4, <2>5, <2>6, <2>7, <2>8, <2>9, <2>10
<1>8. CASE Marked
  <2>1. TypeOK'
    BY <1>8 DEF Marked, TypeOK, Reports, NoReport, AtRest, HeldUntilReported
  <2>2. HeldUntilReported'
    BY <1>8, <2>1 DEF Marked, HeldUntilReported, TypeOK, Hands, Arrived, Kept, Entries
  <2>3. Hands'
    BY <1>8 DEF Marked, HeldUntilReported, TypeOK, Hands, Entries, AtRest, NoReport, Reported, Over, Sending
  <2>4. Arrived'
    BY <1>8 DEF Marked, HeldUntilReported, TypeOK, Hands, Arrived
  <2>5. Taking'
    BY <1>8 DEF Marked, HeldUntilReported, TypeOK, Hands, Taking, Threads, AtRest
  <2>6. Threads'
    BY <1>8 DEF Marked, HeldUntilReported, TypeOK, Threads, Taking, AtRest
  <2>7. Reported'
    BY <1>8 DEF Marked, HeldUntilReported, TypeOK, Hands, Arrived, Taking, Threads, Reported, Over, Sending, Verdict, Entries, NoReport, AtRest
  <2>8. Kept'
    BY <1>8 DEF Marked, HeldUntilReported, TypeOK, Kept, Hands, Entries
  <2>9. PlacesGivenBack'
    BY <1>8 DEF Marked, HeldUntilReported, TypeOK, Hands, Threads, Taking, Reported, Over, Sending, PlacesGivenBack, AtRest
  <2>10. Ended'
    BY <1>8 DEF Marked, HeldUntilReported, TypeOK, Ended, Hands, AtRest, NoReport
  <2> QED BY <2>2, <2>3, <2>4, <2>5, <2>6, <2>7, <2>8, <2>9, <2>10
<1> QED BY <1>1, <1>2, <1>3, <1>4, <1>5, <1>6, <1>7, <1>8

(* The process dies and comes back.                                        *)
LEMMA ProcessKeeps ==
  ASSUME IInv, Crash \/ ComesBack
  PROVE  IInv'
<1> USE NodeAgentAssumption DEF IInv
<1>1. CASE Crash
  <2>1. TypeOK'
    BY <1>1 DEF Crash, Rested, TypeOK, Reports, NoReport, AtRest, HeldUntilReported
  <2>2. HeldUntilReported'
    BY <1>1, <2>1 DEF Crash, Rested, HeldUntilReported, TypeOK, Hands, Arrived, Kept, Entries
  <2>3. Hands'
    BY <1>1 DEF Crash, Rested, HeldUntilReported, TypeOK, Hands, Entries, AtRest, NoReport, Reported, Over, Sending
  <2>4. Arrived'
    BY <1>1 DEF Crash, Rested, HeldUntilReported, TypeOK, Hands, Arrived
  <2>5. Taking'
    BY <1>1 DEF Crash, Rested, HeldUntilReported, TypeOK, Hands, Taking, Threads, AtRest
  <2>6. Threads'
    BY <1>1 DEF Crash, Rested, HeldUntilReported, TypeOK, Threads, Taking, AtRest
  <2>7. Reported'
    BY <1>1 DEF Crash, Rested, HeldUntilReported, TypeOK, Hands, Arrived, Taking, Threads, Reported, Over, Sending, Verdict, Entries, NoReport, AtRest
  <2>8. Kept'
    BY <1>1 DEF Crash, Rested, HeldUntilReported, TypeOK, Kept, Hands, Entries
  <2>9. PlacesGivenBack'
    BY <1>1 DEF Crash, Rested, HeldUntilReported, TypeOK, Hands, Threads, Taking, Reported, Over, Sending, PlacesGivenBack, AtRest
  <2>10. Ended'
    BY <1>1 DEF Crash, Rested, HeldUntilReported, TypeOK, Ended, Hands, AtRest, NoReport
  <2> QED BY <2>2, <2>3, <2>4, <2>5, <2>6, <2>7, <2>8, <2>9, <2>10
<1>2. CASE ComesBack
  <2>1. TypeOK'
    <3>1. store' \in [Jobs -> {"none", "queued", "running"} \cup Final]
      BY <1>2 DEF ComesBack, HeldUntilReported, TypeOK
    <3>2. leased' \subseteq Jobs /\ up' \in BOOLEAN
      BY <1>2 DEF ComesBack, Entries
    <3> QED BY <1>2, <3>1, <3>2 DEF ComesBack, HeldUntilReported, TypeOK
  <2>2. HeldUntilReported'
    BY <1>2, <2>1 DEF ComesBack, HeldUntilReported, TypeOK, Hands, Arrived, Kept, Entries
  <2>3. Hands'
    BY <1>2 DEF ComesBack, Hands, Entries
  <2>4. Arrived'
    BY <1>2 DEF ComesBack, HeldUntilReported, TypeOK, Hands, Arrived
  <2>5. Taking'
    BY <1>2 DEF ComesBack, HeldUntilReported, TypeOK, Hands, Taking, Threads, AtRest
  <2>6. Threads'
    <3>1. UNCHANGED <<live, ending, twice>> /\ \A j \in Jobs : live[j] = 0 /\ ending[j] = 0
      BY <1>2 DEF ComesBack, Hands, AtRest
    <3> QED BY <3>1 DEF Threads
  <2>7. Reported'
    BY <1>2 DEF ComesBack, HeldUntilReported, TypeOK, Hands, Arrived, Taking, Threads, Reported, Over, Sending, Verdict, Entries, NoReport, AtRest
  <2>8. Kept'
    BY <1>2 DEF ComesBack, HeldUntilReported, TypeOK, Kept, Hands, Entries
  <2>9. PlacesGivenBack'
    BY <1>2 DEF ComesBack, Hands, PlacesGivenBack
  <2>10. Ended'
    BY <1>2 DEF ComesBack, HeldUntilReported, TypeOK, Ended, Hands, AtRest, NoReport
  <2> QED BY <2>2, <2>3, <2>4, <2>5, <2>6, <2>7, <2>8, <2>9, <2>10
<1> QED BY <1>1, <1>2

LEMMA Inductive == Spec => []IInv
<1>1. Init => IInv
  BY NodeAgentAssumption DEF Init, IInv, HeldUntilReported, TypeOK, Reports, NoReport, AtRest, Hands,
     Entries, Arrived, Taking, Threads, Reported, Over, Sending, Verdict, Ended, Kept, PlacesGivenBack
<1>2. IInv /\ [Next]_vars => IInv'
  <2>1. CASE UNCHANGED vars
    BY <2>1 DEF vars, IInv, HeldUntilReported, TypeOK, Hands, Entries, Arrived, Taking, Threads,
       Reported, Over, Sending, Verdict, Ended, Kept, PlacesGivenBack
  <2> QED BY <2>1, PortalKeeps, LeaseKeeps, RunsKeep, ReportKeeps, ProcessKeeps DEF Next
<1> QED BY <1>1, <1>2, PTL DEF Spec
-----------------------------------------------------------------------------
(* A run that is running on this node for its portal is in the agent's hands until its verdict *)
(* has arrived (_leased and the outbox), across lost calls and crashes.                        *)
THEOREM Held == Spec => []HeldUntilReported
<1>1. IInv => HeldUntilReported
  BY DEF IInv
<1> QED BY <1>1, Inductive, PTL

(* What the portal is told of a run is what its row says here (_finished, _deliver).           *)
THEOREM Tells == Spec => []TellsTheVerdict
<1>1. IInv => TellsTheVerdict
  BY DEF IInv, Reported, Verdict, TellsTheVerdict, HeldUntilReported, TypeOK
<1> QED BY <1>1, Inductive, PTL

(* Every place among max_runs that is taken has somebody on it who gives it back (_running).   *)
THEOREM Places == Spec => []PlacesGivenBack
<1>1. IInv => PlacesGivenBack
  BY DEF IInv
<1> QED BY <1>1, Inductive, PTL

(* No report leaves the outbox while its run still counts as running here (_deliver).          *)
THEOREM NothingLost == Spec => NothingDropped
<1>1. IInv /\ [Next]_vars => [\A j \in Jobs : outbox[j] # NoReport /\ outbox'[j] = NoReport => ~Here(j) \/ j \in twice]_vars
  <2> SUFFICES ASSUME IInv, [Next]_vars, NEW j \in Jobs, outbox[j] # NoReport, outbox'[j] = NoReport
               PROVE  ~Here(j) \/ j \in twice
    OBVIOUS
  <2>1. CASE Drop
    BY <2>1 DEF Drop, IInv, Arrived, HeldUntilReported, TypeOK
  <2>2. CASE \E k \in Jobs : Finished(k)
    <3>1. PICK k \in Jobs : Finished(k)
      BY <2>2
    <3>2. store[k] \in Final
      BY <3>1 DEF Finished, IInv, Ended
    <3> QED BY <3>1, <3>2 DEF Finished, IInv, HeldUntilReported, TypeOK, NoReport
  <2>3. CASE EvidenceSent
    BY <2>3, ReportsMade DEF EvidenceSent, IInv, HeldUntilReported, TypeOK
  <2>4. CASE BundleFails
    BY <2>4 DEF BundleFails, IInv, HeldUntilReported, TypeOK, NoReport
  <2>5. CASE UNCHANGED outbox
    BY <2>5
  <2>6. Drop \/ (\E k \in Jobs : Finished(k)) \/ EvidenceSent \/ BundleFails \/ UNCHANGED outbox
    <3> USE DEF Next, vars
    <3>1. CASE \E k \in Jobs : TakesBack(k) \/ Closes(k) \/ RunStep(k) \/ Deliver(k)
      BY <3>1 DEF TakesBack, Closes, RunStep, StartCarriedOver, StageBegins, RunEnds, FinishedRaises, Deliver
    <3>2. CASE LeaseAsk \/ Take
      BY <3>2 DEF LeaseAsk, Take, LeaseNothing, SayTaken, BundleHere, TakeCreate, TakeClaim, TakeLaunch,
                  TakeRaises, LeaseAnswerLost, LeaseTaken
    <3>3. CASE EvidenceAnswerLost \/ Marked \/ MarkRaises \/ ResultSent \/ ResultAnswerLost \/ Refused \/ PostLost \/ Crash \/ ComesBack
      BY <3>3 DEF EvidenceAnswerLost, Marked, MarkRaises, ResultSent, ResultAnswerLost, Refused, PostLost, Crash, ComesBack
    <3> QED BY <3>1, <3>2, <3>3
  <2> QED BY <2>1, <2>2, <2>3, <2>4, <2>5, <2>6
<1> QED BY <1>1, Inductive, PTL DEF Spec, NothingDropped
=============================================================================
