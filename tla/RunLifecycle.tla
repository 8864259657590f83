----------------------------- MODULE RunLifecycle -----------------------------
(***************************************************************************)
(* What the job store and the service promise of a run: it waits, is taken *)
(* or withdrawn, is worked on at most once and only while taken, and is    *)
(* over for good.  JobQueue implements this under cancellations, failures  *)
(* of single writes and crashes of the service.                            *)
(***************************************************************************)
CONSTANT Jobs

VARIABLES
  state,    \* [Jobs -> "absent", "waiting", "taken", "over"]
  working,  \* runs some thread is working on
  begun     \* runs ever worked on

Init ==
  /\ state = [j \in Jobs |-> "absent"]
  /\ working = {}
  /\ begun = {}

Move(j, from, to) ==
  /\ state[j] = from
  /\ state' = [state EXCEPT ![j] = to]

Submit(j)   == Move(j, "absent", "waiting") /\ UNCHANGED <<working, begun>>
Withdraw(j) == Move(j, "waiting", "over") /\ UNCHANGED <<working, begun>>
Take(j)     == Move(j, "waiting", "taken") /\ UNCHANGED <<working, begun>>

Work(j) ==
  /\ state[j] = "taken"
  /\ j \notin begun
  /\ working' = working \cup {j}
  /\ begun' = begun \cup {j}
  /\ UNCHANGED state

Settle(j) == Move(j, "taken", "over") /\ UNCHANGED <<working, begun>>

\* Work ends, with its verdict still to write, or is cut short by a crash.
Stop(ended) ==
  /\ working' = working \ ended
  /\ UNCHANGED <<state, begun>>

Next ==
  \/ \E j \in Jobs : Submit(j) \/ Withdraw(j) \/ Take(j) \/ Work(j) \/ Settle(j)
  \/ \E ended \in SUBSET working : Stop(ended)

Spec == Init /\ [][Next]_<<state, working, begun>>
=============================================================================
