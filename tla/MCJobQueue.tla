------------------------------ MODULE MCJobQueue ------------------------------
(***************************************************************************)
(* Two runs of one branch at different commits.  With two request threads, *)
(* each submitting a run of its own and one of them cancelling the older   *)
(* run as well, for the safety properties; with one thread that makes      *)
(* every call, and fairness, for the liveness ones.                        *)
(***************************************************************************)
EXTENDS JobQueue
CONSTANTS a, b, x, y
VARIABLE threads

MCJobs == {a, b}
Two == {x, y}
TwoSubmit == [c \in Two |-> IF c = x THEN {a} ELSE {b}]
TwoStop == [c \in Two |-> IF c = x THEN {} ELSE {a}]
MCRef == [j \in MCJobs |-> "topic"]
MCSha == [j \in MCJobs |-> IF j = b THEN "newer" ELSE "older"]

One == INSTANCE JobQueue WITH
  Callers <- {x}, Submits <- [c \in {x} |-> {a, b}], Stops <- [c \in {x} |-> {a}]

QueueInit ==
  \/ threads = 2 /\ Init
  \/ threads = 1 /\ One!Init

QueueNext ==
  /\ \/ threads = 2 /\ Next
     \/ threads = 1 /\ One!Next
  /\ UNCHANGED threads

\* JobQueue's Fairness, of the behaviours with one thread.
QueueFairness ==
  /\ WF_vars(threads = 1 /\ One!Dispatch)
  /\ WF_vars(threads = 1 /\ \E j \in Jobs : One!RunStep(j))
  /\ WF_vars(threads = 1 /\ \E j \in Jobs : One!Recover(j))
  /\ WF_vars(threads = 1 /\ One!CallerStep(x))
  /\ WF_vars(threads = 1 /\ One!Ready)

QueueSpec == QueueInit /\ [][QueueNext]_<<threads, vars>> /\ QueueFairness

-----------------------------------------------------------------------------
\* A run that started is settled, unless a store call that raised stranded it, and every
\* request is answered, however many times cancel loses its race (JobQueue).
RunsAndCallsEnd == threads = 1 => One!EveryRunSettles /\ One!EveryCallAnswered
=============================================================================
