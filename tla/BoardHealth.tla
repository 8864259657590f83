------------------------------ MODULE BoardHealth ------------------------------
(***************************************************************************)
(* The Rig Health Check and what it does to the farm: each board's verdict *)
(* is recorded, a board red on its own checks is quarantined, a clean one  *)
(* is released, and a check red on every board pauses the queue.  Checks   *)
(* on different boards run side by side; operators reserve, release, pause *)
(* and resume between any two store calls, and the service may restart.    *)
(*                                                                         *)
(* A check's run is judged from what was wrong while it ran: the rig's     *)
(* access point, some boards, the instrument behind the wires.             *)
(***************************************************************************)
EXTENDS Integers, Sequences, FiniteSets

CONSTANTS
  Boards,         \* registered and connected boards
  Runs,           \* ids of health check runs, each asked for once
  Enabled,        \* quarantine.enabled of the host configuration
  AfterFailures   \* quarantine.after_failures

ASSUME BoardHealthAssumption ==
  /\ Enabled \in BOOLEAN
  /\ AfterFailures \in Nat \ {0}
  /\ "free" \notin Runs

VARIABLES
  holds,     \* [Boards -> "none", "reserved", "quarantined"], the board_holds table
  verdicts,  \* [Boards -> Seq of [job, outcome]], newest first, the board_verdicts table
  paused,    \* "no", "farm" when it paused itself, "operator"
  stage,     \* [Runs -> where the run is]
  on,        \* [Runs -> the boards it checks]
  found,     \* [Runs -> what was wrong as it ran]
  lock,      \* the run inside _STATE_FILE_LOCK, or "free"
  todo,      \* boards the run inside has still to write or decide
  seen,      \* the holds as the run inside read them
  sick,      \* boards something was ever wrong with
  cut        \* boards whose newest conclusive verdict was recorded and never acted upon

vars == <<holds, verdicts, paused, stage, on, found, lock, todo, seen, sick, cut>>

Stages == {"none", "running", "recording", "applying", "deciding", "over"}
BoardOnly == {"wires"}
NoHolds == [b \in Boards |-> "none"]
Nothing == [down |-> FALSE, bad |-> {}, unplugged |-> FALSE]

Init ==
  /\ holds = NoHolds
  /\ verdicts = [b \in Boards |-> <<>>]
  /\ paused = "no"
  /\ stage = [k \in Runs |-> "none"]
  /\ on = [k \in Runs |-> {}]
  /\ found = [k \in Runs |-> Nothing]
  /\ lock = "free"
  /\ todo = {}
  /\ seen = NoHolds
  /\ sick = {}
  /\ cut = {}

-----------------------------------------------------------------------------
(* Verdicts.                                                               *)

\* The radio check needs the rig's access point, the flash check only the board,
\* the wires the instrument.
Failed(k, b) ==
  (IF found[k].down THEN {"radio"} ELSE {}) \cup (IF b \in found[k].bad THEN {"flash"} ELSE {})
    \cup (IF found[k].unplugged THEN {"wires"} ELSE {})

\* Variant: no check is ever the farm's.
NeverTheFarm(k) == {}

\* A check red on every board that ran it, but for the wiring.
FarmWide(k) == {c \in {"radio", "flash"} : \A b \in on[k] : c \in Failed(k, b)}

Outcome(k, b) ==
  IF Failed(k, b) \ (FarmWide(k) \cup BoardOnly) # {} THEN "board_failed"
  ELSE IF Failed(k, b) # {} THEN "inconclusive"
  ELSE "passed"

\* Where in a board's verdicts the conclusive ones are, and whether the newest of them is
\* a pass, of a given check.
Conclusive(b) == {i \in DOMAIN verdicts[b] : verdicts[b][i].outcome # "inconclusive"}

Newest(b) == {i \in Conclusive(b) : \A m \in Conclusive(b) : i <= m}
Passed(b) == \E i \in Newest(b) : verdicts[b][i].outcome = "passed"
PassedBy(k, b) == \E i \in Newest(b) : verdicts[b][i] = [job |-> k, outcome |-> "passed"]

\* The newest conclusive verdicts that are the board's own failures, and how many they are.
InARow(b) ==
  {i \in Conclusive(b) : \A m \in Conclusive(b) : m <= i => verdicts[b][m].outcome = "board_failed"}
Streak(b) == Cardinality(InARow(b))

-----------------------------------------------------------------------------
(* A health check run.                                                     *)

\* One board, several or all, none of them reserved, asked for and started: the queue
\* is open and no run holds one of its boards.
HealthCheck(k) ==
  /\ stage[k] = "none"
  /\ paused = "no"
  /\ \E bs \in SUBSET Boards :
       /\ bs # {}
       /\ \A b \in bs : holds[b] # "reserved"
       /\ \A m \in Runs : on[m] \cap bs = {}
       /\ on' = [on EXCEPT ![k] = bs]
  /\ stage' = [stage EXCEPT ![k] = "running"]
  /\ UNCHANGED <<holds, verdicts, paused, found, lock, todo, seen, sick, cut>>

\* The suite has run; its verdicts are read back and the lock taken.
Judge(k) ==
  /\ stage[k] = "running" /\ lock = "free"
  /\ \E down, unplugged \in BOOLEAN, bad \in SUBSET on[k] :
       /\ found' = [found EXCEPT ![k] = [down |-> down, bad |-> bad, unplugged |-> unplugged]]
       /\ sick' = sick \cup bad
  /\ lock' = k
  /\ todo' = on[k]
  /\ stage' = [stage EXCEPT ![k] = "recording"]
  /\ UNCHANGED <<holds, verdicts, paused, on, seen, cut>>

RecordVerdict(k, b) ==
  /\ stage[k] = "recording" /\ b \in todo
  /\ verdicts' = [verdicts EXCEPT ![b] = <<[job |-> k, outcome |-> Outcome(k, b)]>> \o @]
  /\ todo' = todo \ {b}
  /\ cut' = IF Outcome(k, b) = "inconclusive" THEN cut ELSE cut \cup {b}
  /\ UNCHANGED <<holds, paused, stage, on, found, lock, seen, sick>>

\* _apply_quarantine reads every hold once.
ReadHolds(k) ==
  /\ stage[k] = "recording" /\ todo = {}
  /\ seen' = holds
  /\ todo' = on[k]
  /\ stage' = [stage EXCEPT ![k] = "applying"]
  /\ UNCHANGED <<holds, verdicts, paused, on, found, lock, sick, cut>>

Releases(k, b) == seen[b] = "quarantined" /\ PassedBy(k, b)

Quarantines(k, b) ==
  /\ Enabled
  /\ seen[b] = "none"
  /\ Streak(b) >= AfterFailures
  /\ verdicts[b][1].job = k

\* An inconclusive verdict is acted upon by nothing, nor is what an earlier check left.
ActedOn(k, b) == IF Outcome(k, b) = "inconclusive" THEN cut ELSE cut \ {b}

\* Variants: held boards are passed over first; a clean check releases any hold.
PassesOverHeld(k, b) ==
  /\ stage[k] = "applying" /\ b \in todo
  /\ holds' = IF Quarantines(k, b) THEN [holds EXCEPT ![b] = "quarantined"] ELSE holds
  /\ todo' = todo \ {b}
  /\ cut' = ActedOn(k, b)
  /\ UNCHANGED <<verdicts, paused, stage, on, found, lock, seen, sick>>

ReleasesAny(k, b) ==
  /\ stage[k] = "applying" /\ b \in todo
  /\ holds' = IF PassedBy(k, b) THEN [holds EXCEPT ![b] = "none"]
              ELSE IF Quarantines(k, b) THEN [holds EXCEPT ![b] = "quarantined"] ELSE holds
  /\ todo' = todo \ {b}
  /\ cut' = ActedOn(k, b)
  /\ UNCHANGED <<verdicts, paused, stage, on, found, lock, seen, sick>>

\* The hold read above decides; the write takes no second look at it.
ApplyQuarantine(k, b) ==
  /\ stage[k] = "applying" /\ b \in todo
  /\ holds' = IF Releases(k, b) THEN [holds EXCEPT ![b] = "none"]
              ELSE IF Quarantines(k, b) THEN [holds EXCEPT ![b] = "quarantined"]
              ELSE holds
  /\ todo' = todo \ {b}
  /\ cut' = ActedOn(k, b)
  /\ UNCHANGED <<verdicts, paused, stage, on, found, lock, seen, sick>>

Unlock(k) ==
  /\ stage[k] = "applying" /\ todo = {}
  /\ lock' = "free"
  /\ seen' = NoHolds
  /\ stage' = [stage EXCEPT ![k] = "deciding"]
  /\ UNCHANGED <<holds, verdicts, paused, on, found, todo, sick, cut>>

Over(k) ==
  /\ stage' = [stage EXCEPT ![k] = "over"]
  /\ on' = [on EXCEPT ![k] = {}]
  /\ found' = [found EXCEPT ![k] = Nothing]

\* A store call raised: the lock is let go, the run fails, nothing is paused.
StoreFails(k) ==
  /\ stage[k] \in {"recording", "applying"}
  /\ lock' = "free"
  /\ todo' = {}
  /\ seen' = NoHolds
  /\ Over(k)
  /\ UNCHANGED <<holds, verdicts, paused, sick, cut>>

\* Red on every board is the farm: it pauses its own queue, unless it is paused.
Decide(k) ==
  /\ stage[k] = "deciding"
  /\ paused' = IF FarmWide(k) # {} /\ paused = "no" THEN "farm" ELSE paused
  /\ Over(k)
  /\ UNCHANGED <<holds, verdicts, lock, todo, seen, sick, cut>>

-----------------------------------------------------------------------------
(* Operators, and the service's restart.                                   *)

\* set_hold replaces whatever was there.
ReserveBoard(b) ==
  /\ holds' = [holds EXCEPT ![b] = "reserved"]
  /\ UNCHANGED <<verdicts, paused, stage, on, found, lock, todo, seen, sick, cut>>

ReleaseBoard(b) ==
  /\ holds[b] # "none"
  /\ holds' = [holds EXCEPT ![b] = "none"]
  /\ UNCHANGED <<verdicts, paused, stage, on, found, lock, todo, seen, sick, cut>>

Pause ==
  /\ paused = "no"
  /\ paused' = "operator"
  /\ UNCHANGED <<holds, verdicts, stage, on, found, lock, todo, seen, sick, cut>>

Resume ==
  /\ paused # "no"
  /\ paused' = "no"
  /\ UNCHANGED <<holds, verdicts, stage, on, found, lock, todo, seen, sick, cut>>

\* The pause is the process's; holds and verdicts are the store's.
Restart ==
  /\ paused' = "no"
  /\ stage' = [k \in Runs |-> IF stage[k] = "none" THEN "none" ELSE "over"]
  /\ on' = [k \in Runs |-> {}]
  /\ found' = [k \in Runs |-> Nothing]
  /\ lock' = "free"
  /\ todo' = {}
  /\ seen' = NoHolds
  /\ UNCHANGED <<holds, verdicts, sick, cut>>

RunStep(k) ==
  \/ HealthCheck(k) \/ Judge(k) \/ ReadHolds(k) \/ Unlock(k) \/ StoreFails(k) \/ Decide(k)
  \/ \E b \in Boards : RecordVerdict(k, b) \/ ApplyQuarantine(k, b)

Operator ==
  \/ \E b \in Boards : ReserveBoard(b) \/ ReleaseBoard(b)
  \/ Pause \/ Resume

Next == (\E k \in Runs : RunStep(k)) \/ Operator \/ Restart

Spec == Init /\ [][Next]_vars

\* Somebody asks for each check, and what is started is carried on to its end.
FairSpec == Spec /\ \A k \in Runs : WF_vars(RunStep(k))

-----------------------------------------------------------------------------
\* Every variable holds what the rest of the module takes it to hold.
TypeOK ==
  /\ holds \in [Boards -> {"none", "reserved", "quarantined"}]
  /\ verdicts \in [Boards -> Seq([job : Runs, outcome : {"passed", "inconclusive", "board_failed"}])]
  /\ paused \in {"no", "farm", "operator"}
  /\ stage \in [Runs -> Stages]
  /\ on \in [Runs -> SUBSET Boards]
  /\ found \in [Runs -> [down : BOOLEAN, bad : SUBSET Boards, unplugged : BOOLEAN]]
  /\ lock \in Runs \cup {"free"}
  /\ todo \subseteq Boards
  /\ seen \in [Boards -> {"none", "reserved", "quarantined"}]
  /\ sick \cup cut \subseteq Boards

\* A board nothing was ever wrong with is never quarantined, whatever the access
\* point, the instrument and the boards checked beside it did.
GoodBoardsStayIn == \A b \in Boards : holds[b] = "quarantined" => b \in sick

\* A quarantined board's newest conclusive verdict is a failure: a clean check has
\* released it, unless it was cut short between the verdict and the release.
CleanCheckReleases == \A b \in Boards : holds[b] = "quarantined" /\ Passed(b) => b \in cut

\* The health check holds no good board for the farm's fault or the instrument's, and a
\* clean check lets a board go.  (And every variable is in its type.)
HoldsFollowVerdicts == TypeOK /\ GoodBoardsStayIn /\ CleanCheckReleases

\* The canary leaves alone a reservation that was there when it read the holds; only
\* an operator ends that one.
SeenReservationsKept ==
  [][\A b \in Boards : holds[b] = "reserved" /\ holds'[b] # "reserved" =>
       ReleaseBoard(b) \/ (lock # "free" /\ stage[lock] = "applying" /\ seen[b] # "reserved")]_vars

\* A farm-wide red pauses the queue before its run is over, except when a store call
\* or a restart cut the run short or an operator had the queue already.
FarmWidePauses ==
  [][\A k \in Runs : stage[k] = "deciding" /\ stage'[k] = "over" /\ found[k].down =>
       paused' # "no" \/ Restart]_vars

\* Fix it and run the health check again, a pass resumes the queue: once the farm has
\* paused itself, the next check comes to its end or the pause does.
FixedFarmResumes ==
  \A k \in Runs : (paused = "farm" /\ stage[k] = "none") ~> (paused # "farm" \/ stage[k] = "over")

-----------------------------------------------------------------------------
(* What makes HoldsFollowVerdicts inductive.                               *)

\* The lock is of the run between its verdicts and its last hold.
Inside == \A k \in Runs : stage[k] \in {"recording", "applying"} => lock = k

\* Where the run inside has still to decide about a board, its verdict is the newest there.
JustRecorded ==
  \A k \in Runs : \A b \in on[k] :
    stage[k] = "applying" \/ (stage[k] = "recording" /\ b \notin todo) =>
      verdicts[b] # <<>> /\ verdicts[b][1] = [job |-> k, outcome |-> Outcome(k, b)]

\* A quarantine has been read, or is by the run inside, which is done with the board.
NoneUnseen ==
  \A k \in Runs : stage[k] = "applying" =>
    todo \subseteq on[k] /\ \A b \in todo : holds[b] = "quarantined" => seen[b] = "quarantined"

\* A board's own failure is of a board something was wrong with.
FailuresAreReal ==
  /\ \A k \in Runs : found[k].bad \subseteq sick
  /\ \A b \in Boards : \A i \in DOMAIN verdicts[b] : verdicts[b][i].outcome = "board_failed" => b \in sick

Inductive ==
  /\ HoldsFollowVerdicts
  /\ Inside /\ JustRecorded /\ NoneUnseen /\ FailuresAreReal
=============================================================================
