-------------------------------- MODULE MCNode --------------------------------
(***************************************************************************)
(* What a node is asked besides runs: the releases it is offered           *)
(* (NodeUpdates) and the commands it is given (NodeControl: one it does by *)
(* itself, one the host's script does, one that restarts the node).  The   *)
(* two share no variable, so a behaviour is one of either, the other at    *)
(* rest in its first state, where no action fairness is stated for is      *)
(* enabled.                                                                *)
(***************************************************************************)
EXTENDS NodeUpdates

VARIABLES
  side,
  status, seen, todo, hand, outcome, control, script, acted, results, restarts, did

Control == INSTANCE NodeControl WITH
  Commands <- {"d", "r"}, Control <- {"r"}, Restarting <- {"r"}, None <- "nothing",
  request <- control

commandVars ==
  <<status, seen, todo, hand, outcome, control, script, acted, results, restarts, did>>

NodeInit == side \in {"releases", "commands"} /\ Init /\ Control!Init

ReleaseNext == side = "releases" /\ Next /\ UNCHANGED <<side, commandVars>>
CommandNext == side = "commands" /\ Control!Next /\ UNCHANGED <<side, vars>>
NodeNext == ReleaseNext \/ CommandNext

NodeSpec == NodeInit /\ [][NodeNext]_<<side, vars, commandVars>> /\ Fairness /\ Control!Fairness

-----------------------------------------------------------------------------
\* What the host's script did is told the portal in the end, of the command that restarts
\* the node (NodeControl); and a node that waits with runs for a release goes on, unless
\* what installs it was cut off (NodeUpdates).
NodeGoesOn == Control!OutcomeArrives("r") /\ DrainEnds
=============================================================================
