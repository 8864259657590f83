------------------------------ MODULE MCRigLocks ------------------------------
(***************************************************************************)
(* Two boards on two ports; a run alone, two beside each other; a probe of *)
(* a board of one of them, one administrator, one deploy.                  *)
(***************************************************************************)
EXTENDS RigLocks
CONSTANTS r1, r2, r3, p1, a1, P, Q

MCBoards == {1, 2}
MCPorts == {P, Q}
MCRuns == {r1, r2, r3}
MCProbes == {p1}
MCAdmins == {a1}
MCAlone == {r3}
MCBoardsOf == [r \in MCRuns |-> IF r = r1 THEN {1} ELSE IF r = r2 THEN {2} ELSE {}]
MCBoardOf == [p \in MCProbes |-> 1]
TwoRuns == {r1, r3}
TwoBoardsOf == [r \in TwoRuns |-> IF r = r1 THEN {1, 2} ELSE {}]
=============================================================================
