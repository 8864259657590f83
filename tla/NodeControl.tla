------------------------------ MODULE NodeControl ------------------------------
(***************************************************************************)
(* Commands of a portal to a rig: a row in the portal's store that is      *)
(* queued, handed over in the answer to a heartbeat, carried out by the    *)
(* node or, when it takes the host's sudo, by a script of the host that    *)
(* finds it in a file with one place, and reported.  Answers and reports   *)
(* are lost, commands expire, and the node and the script die; a script    *)
(* may also restart the node itself.                                       *)
(***************************************************************************)
EXTENDS Naturals

CONSTANTS
  Commands,
  Control,    \* those the host's script carries out
  Restarting, \* those after which it restarts the node
  None

VARIABLES
  status,     \* [Commands -> "none", "queued", "sent", "running" or how it ended]
  seen,       \* ids the node has taken, in its memory
  todo,       \* commands waiting in the node's queue; their order is left open
  hand,       \* the one its command thread has, or None
  outcome,    \* what came of the direct command in hand: "none", "done" or "failed"
  request,    \* control.json: the command in it, or None
  script,     \* the command the script took, or None
  acted,      \* the script's work is done, its outcome not yet written
  results,    \* [Commands -> "none", or the outcome in a control-result file]
  restarts,   \* the script is about to restart the node
  did         \* history: [Commands -> how often it was carried out]

node == <<seen, todo, hand, outcome>>
host == <<script, acted, restarts>>
vars == <<status, seen, todo, hand, outcome, request, script, acted, results, restarts, did>>

Open == {"queued", "sent", "running"}
Final == {"done", "failed", "expired"}

Init ==
  /\ status = [c \in Commands |-> "none"]
  /\ seen = {} /\ todo = {} /\ hand = None /\ outcome = "none"
  /\ request = None /\ script = None /\ acted = FALSE /\ restarts = FALSE
  /\ results = [c \in Commands |-> "none"]
  /\ did = [c \in Commands |-> 0]

-----------------------------------------------------------------------------
(* The portal's store.                                                     *)

AddCommand(c) ==
  /\ status[c] = "none"
  /\ status' = [status EXCEPT ![c] = "queued"]
  /\ UNCHANGED <<node, request, host, results, did>>

Queued == {c \in Commands : status[c] = "queued"}

\* The rows are marked given when they are read; the answer that carries them may be
\* lost.  Variant: they are left queued.
TakesUnmarked ==
  /\ Queued # {}
  /\ \/ seen' = seen \cup Queued /\ todo' = todo \cup (Queued \ seen)
     \/ UNCHANGED <<seen, todo>>
  /\ UNCHANGED <<status, hand, outcome, request, host, results, did>>

TakeCommands ==
  /\ Queued # {}
  /\ status' = [c \in Commands |-> IF c \in Queued THEN "sent" ELSE status[c]]
  /\ \/ seen' = seen \cup Queued /\ todo' = todo \cup (Queued \ seen)
     \/ UNCHANGED <<seen, todo>>
  /\ UNCHANGED <<hand, outcome, request, host, results, did>>

ExpireCommands(c) ==
  /\ status[c] \in Open
  /\ status' = [status EXCEPT ![c] = "expired"]
  /\ UNCHANGED <<node, request, host, results, did>>

\* What a report makes of the row: late ones change nothing.
Finished(c, how) == [status EXCEPT ![c] = IF @ \in Open THEN how ELSE @]

-----------------------------------------------------------------------------
(* The node's command thread.                                              *)

\* _report_started, at best; then the work.
Begins(c) ==
  /\ hand = None /\ c \in todo
  /\ todo' = todo \ {c}
  /\ hand' = c
  /\ \/ status' = [status EXCEPT ![c] = IF @ = "sent" THEN "running" ELSE @]
     \/ UNCHANGED status
  /\ UNCHANGED <<seen, outcome, request, host, results, did>>

CarriesOut ==
  /\ hand \in Commands \ Control /\ outcome = "none"
  /\ \/ outcome' = "done" /\ did' = [did EXCEPT ![hand] = @ + 1]
     \/ outcome' = "failed" /\ UNCHANGED did
  /\ UNCHANGED <<status, seen, todo, hand, request, host, results>>

\* Left for the script, over one it has not taken yet; or it cannot be written.
HandsOver ==
  /\ hand \in Control /\ outcome = "none"
  /\ \/ request' = hand /\ hand' = None /\ UNCHANGED outcome
     \/ outcome' = "failed" /\ UNCHANGED <<request, hand>>
  /\ UNCHANGED <<status, seen, todo, host, results, did>>

\* Sent once: without a portal it is lost.
ReportsCommand ==
  /\ outcome # "none"
  /\ \/ status' = Finished(hand, outcome)
     \/ UNCHANGED status
  /\ hand' = None /\ outcome' = "none"
  /\ UNCHANGED <<seen, todo, request, host, results, did>>

CommandStep == (\E c \in Commands : Begins(c)) \/ CarriesOut \/ HandsOver \/ ReportsCommand

\* When the queue is empty, outcomes in files are sent, and each file goes when the
\* portal has answered.
Idle == hand = None /\ todo = {}

ReportsResult(c) ==
  /\ Idle /\ results[c] # "none"
  /\ status' = Finished(c, results[c])
  /\ \/ results' = [results EXCEPT ![c] = "none"]
     \/ UNCHANGED results \* the answer is lost, or the node dies before the file goes
  /\ UNCHANGED <<node, request, host, did>>

\* Variant: the file goes all the same.
DropsResult(c) ==
  /\ Idle /\ results[c] # "none"
  /\ results' = [results EXCEPT ![c] = "none"]
  /\ UNCHANGED <<status, node, request, host, did>>

PortalAway(c) ==
  /\ Idle /\ results[c] # "none"
  /\ UNCHANGED vars

-----------------------------------------------------------------------------
(* The host's script.                                                      *)

ScriptTakes ==
  /\ script = None /\ request # None /\ ~restarts
  /\ script' = request
  /\ request' = None
  /\ UNCHANGED <<status, node, acted, results, restarts, did>>

ScriptActs ==
  /\ script # None /\ ~acted
  /\ acted' = TRUE
  /\ did' = [did EXCEPT ![script] = @ + 1]
  /\ UNCHANGED <<status, node, request, script, results, restarts>>

ScriptTells ==
  /\ script # None
  /\ results' = [results EXCEPT ![script] = IF acted THEN "done" ELSE "failed"]
  /\ restarts' = (acted /\ script \in Restarting)
  /\ script' = None /\ acted' = FALSE
  /\ UNCHANGED <<status, node, request, did>>

\* It is killed: what it took is not taken again.
ScriptDies ==
  /\ script # None \/ restarts
  /\ script' = None /\ acted' = FALSE /\ restarts' = FALSE
  /\ UNCHANGED <<status, node, request, results, did>>

ForgetsNode == seen' = {} /\ todo' = {} /\ hand' = None /\ outcome' = "none"

RestartsNode ==
  /\ restarts
  /\ restarts' = FALSE
  /\ ForgetsNode
  /\ UNCHANGED <<status, request, script, acted, results, did>>

NodeDies ==
  /\ seen # {}
  /\ ForgetsNode
  /\ UNCHANGED <<status, request, host, results, did>>

Next ==
  \/ \E c \in Commands : AddCommand(c) \/ ExpireCommands(c) \/ ReportsResult(c) \/ PortalAway(c)
  \/ TakeCommands \/ CommandStep
  \/ ScriptTakes \/ ScriptActs \/ ScriptTells \/ ScriptDies \/ RestartsNode
  \/ NodeDies

\* The thread goes on; a portal that is reachable again and again is reached.
Fairness == WF_vars(CommandStep) /\ \A c \in Control : SF_vars(ReportsResult(c))

Spec == Init /\ [][Next]_vars /\ Fairness

-----------------------------------------------------------------------------
\* Every variable holds what the rest of the module takes it to hold.
TypeOK ==
  /\ status \in [Commands -> Open \cup Final \cup {"none"}]
  /\ seen \cup todo \subseteq Commands
  /\ {hand, request, script} \subseteq Commands \cup {None}
  /\ outcome \in {"none", "done", "failed"}
  /\ acted \in BOOLEAN /\ restarts \in BOOLEAN
  /\ results \in [Commands -> {"none", "done", "failed"}]

\* No command is carried out twice, though the node that took it forgets it in a restart
\* and its portal heard nothing of it; and one said to be done was, however late, and after
\* whatever other answer, the word of it comes.
CarriedOutOnce ==
  \A c \in Commands : did[c] <= 1 /\ (status[c] = "done" => did[c] = 1)

\* The outcome of what the script did with a command reaches the portal, though it restarts
\* the node and the portal may be away: the command does not stay open.
OutcomeArrives(c) == results[c] # "none" ~> status[c] \in Final

-----------------------------------------------------------------------------
(* What makes CarriedOutOnce inductive: where a command can be.            *)

\* Not before it is handed over.
NotYet(c) ==
  status[c] \in {"none", "queued"} =>
    c \notin todo \cup {hand, request, script} /\ did[c] = 0 /\ results[c] = "none"

\* In one place at a time; what is still to carry it out has not, and what has says so.
Waits(c)   == c \in todo => c \notin {hand, request, script} /\ did[c] = 0
InHand(c)  == hand = c => c \notin {request, script}
                          /\ did[c] = IF outcome = "done" THEN 1 ELSE 0
InFile(c)  == request = c => script # c /\ did[c] = 0
InScript(c) == script = c => did[c] = IF acted THEN 1 ELSE 0
Told(c)    == results[c] = "done" => did[c] = 1

OnePlace ==
  /\ did \in [Commands -> 0 .. 1]
  /\ (hand = None => outcome = "none") /\ (script = None => ~acted)
  /\ \A c \in Commands :
       NotYet(c) /\ Waits(c) /\ InHand(c) /\ InFile(c) /\ InScript(c) /\ Told(c)
  /\ CarriedOutOnce

Inductive == TypeOK /\ OnePlace
=============================================================================
